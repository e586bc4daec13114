---------------------------- MODULE UniPinGateway ----------------------------
(***************************************************************************)
(* pps-services-gateway-unipin: one process that consumes voucher and game *)
(* orders (prefetch 1, manual ack), places them with UniPin under the      *)
(* message's own id as reference, follows the undecided ones with one      *)
(* goroutine per delivery and publishes each outcome downstream.  It keeps *)
(* no table: what it knows of an order is in its goroutines.               *)
(***************************************************************************)
EXTENDS Naturals, FiniteSets

CONSTANTS
    Msgs,         \* messages of the order queue
    Deliveries,   \* bound: deliveries by the broker
    None,
    MaxAttempts,  \* RETRY_MAX_ATTEMPTS
    MaxFaults,    \* bound: publish errors, logged and swallowed
    MaxLosses     \* bound: lost sessions, crashes, shutdowns

ASSUME MsgAssumption      == None \notin Msgs
ASSUME DeliveryAssumption == Deliveries \subseteq Nat /\ None \notin Deliveries
ASSUME AttemptAssumption  == MaxAttempts \in Nat \ {0}
ASSUME BoundAssumption    == {MaxFaults, MaxLosses} \subseteq Nat

VARIABLES
    kind,       \* per message: what it holds
    ready,      \* messages in the queue, waiting for a consumer
    unacked,    \* the delivery the live session has not acknowledged, or None
    handler,    \* per delivery: the consumer goroutine's place in it
    retry,      \* per delivery: its inquiry goroutine
    order,      \* per message: the order under its reference_no (external)
    published,  \* per message: the statuses put on the downstream queue
    gap,        \* history, per message: why a final status may be missing
    stop,       \* "run", "signal": the context is cancelled, "cancel": and
                \* the broker has confirmed the end of the consumer
    faults, losses

vars == <<kind, ready, unacked, handler, retry, order, published, gap, stop,
          faults, losses>>

(* An order of one of the two types with a usable command; an order whose  *)
(* command or fields are unusable, which is told FAILED; a message that    *)
(* cannot be parsed, has another type, or has no id (a FAILED for an       *)
(* unusable command without an id is told of no order).                    *)
Kinds       == {"voucher", "game", "flawed", "junk"}
OrderStates == {"none", "sent", "refused", "pending", "success", "failed"}
HandlerPcs  == {"free", "validate", "request", "reply", "inquiry", "publish",
                "ack", "done", "dead"}
RetryPcs    == {"none", "wait", "query", "publish", "done", "stopped", "dead"}
Handlers    == [msg : Msgs \cup {None}, pc : HandlerPcs, out : {"F", "C", "S"}]
Retries     == [pc : RetryPcs, attempt : 0..MaxAttempts, out : {"F", "C"}]

Init ==
    /\ kind \in [Msgs -> Kinds]
    /\ ready = Msgs
    /\ unacked = None
    /\ handler = [d \in Deliveries |-> [msg |-> None, pc |-> "free", out |-> "C"]]
    /\ retry = [d \in Deliveries |-> [pc |-> "none", attempt |-> 0, out |-> "C"]]
    /\ order = [m \in Msgs |-> "none"]
    /\ published = [m \in Msgs |-> {}]
    /\ gap = [m \in Msgs |-> {}]
    /\ stop = "run"
    /\ faults = 0
    /\ losses = 0

-----------------------------------------------------------------------------
(* Replies of the client: the status field of the body ("1", "0", or any   *)
(* other number), a deadline exceeded on the last of its POSTs, or any     *)
(* other technical error (4xx, 5xx, connection, unreadable body, a         *)
(* cancelled context), which comes without a response.                     *)

(* The client repeats a POST that timed out or met HTTP 5xx under the same *)
(* reference, so UniPin may refuse the last one whatever became of the     *)
(* first.  Status 1 is only given for an order that was completed.         *)
RequestReplies(m) == {"timeout", "error", "0"}
                     \cup (IF order[m] = "success" THEN {"1"} ELSE {"other"})

(* An inquiry denies only an order that does not exist (yet) or failed. *)
InquiryReplies(m) == {"error", "other"}
                     \cup (IF order[m] = "success" THEN {"1"} ELSE {})
                     \cup (IF order[m] \in {"pending", "success"} THEN {}
                                                                  ELSE {"0"})

(* processVoucher: only a timeout is followed up; pending is a failure. *)
VoucherOutcome(reply) == CASE reply = "timeout" -> "retry"
                           [] reply = "1" -> "F"
                           [] OTHER -> "C"

(* Mutation: a game order that is not refused counts as done. *)
MutOrderOutcome(reply) == CASE reply = "timeout" -> "inquiry"
                            [] reply \in {"1", "other"} -> "F"
                            [] OTHER -> "C"

(* processGame, on the reply to CreateOrder *)
OrderOutcome(reply) == CASE reply \in {"timeout", "other"} -> "inquiry"
                         [] reply = "1" -> "F"
                         [] OTHER -> "C"

(* processOrderInquiry: an inquiry that got no response ends in "C". *)
InquiryOutcome(reply) == CASE reply = "1" -> "F"
                           [] reply = "other" -> "S"
                           [] OTHER -> "C"

(* retryVoucherInquiry and retryOrderInquiry *)
RetryOutcome(reply) == CASE reply = "1" -> "F"
                         [] reply = "0" -> "C"
                         [] OTHER -> "again"

-----------------------------------------------------------------------------
(* Helpers *)

ctxDone == stop # "run"

(* forwardCallback: an error is only logged. *)
ForwardCallback(m, s) ==
    \/ /\ published' = [published EXCEPT ![m] = @ \cup {s}]
       /\ UNCHANGED <<gap, faults>>
    \/ /\ faults < MaxFaults
       /\ faults' = faults + 1
       /\ gap' = [gap EXCEPT ![m] = IF s = "S" THEN @ ELSE @ \cup {"publish"}]
       /\ UNCHANGED published

(* Mutation: the goroutine is started for failed orders too, as when the   *)
(* return after forwardCallback is forgotten.                              *)
MutStartsRetry(out) == out \in {"retry", "S", "C"}

(* Which outcomes start the inquiry goroutine of the delivery. *)
StartsRetry(out) == out \in {"retry", "S"}

Goto(d, pc) == handler' = [handler EXCEPT ![d].pc = pc]
Decide(d, out) ==
    handler' = [handler EXCEPT ![d] =
                  IF out = "retry" THEN [@ EXCEPT !.pc = "ack"]
                  ELSE IF out = "inquiry" THEN [@ EXCEPT !.pc = "inquiry"]
                  ELSE [@ EXCEPT !.pc = "publish", !.out = out]]
(* A goroutine that ended: its locals no longer matter. *)
Finished(g, pc) == [g EXCEPT !.pc = pc, !.out = "C"]

-----------------------------------------------------------------------------
(* The consumer goroutine: consumeSession, processMessage *)

(* ch.Cancel takes a round trip, during which a message may still come. *)
Deliver(d, m) ==
    /\ stop # "cancel"
    /\ unacked = None
    /\ m \in ready
    /\ handler[d].pc = "free"
    /\ \A e \in Deliveries : e < d => handler[e].pc # "free"
    /\ ready' = ready \ {m}
    /\ unacked' = d
    /\ handler' = [handler EXCEPT ![d] =
                     [@ EXCEPT !.msg = m,
                               !.pc = CASE kind[m] = "junk"    -> "ack"
                                        [] kind[m] = "flawed"  -> "publish"
                                        [] kind[m] = "voucher" -> "request"
                                        [] kind[m] = "game"    -> "validate"]]
    /\ UNCHANGED <<kind, retry, order, published, gap, stop, faults, losses>>

ValidateUser(d) ==
    /\ handler[d].pc = "validate"
    /\ \/ ~ctxDone /\ Goto(d, "request")
       \/ Decide(d, "C")
    /\ UNCHANGED <<kind, ready, unacked, retry, order, published, gap, stop,
                   faults, losses>>

(* VoucherRequest or CreateOrder leaves; a cancelled context lets no       *)
(* request out.  The reference is the msgid: UniPin opens at most one      *)
(* order under it.                                                         *)
PlaceOrder(d) ==
    LET m == handler[d].msg IN
    /\ handler[d].pc = "request"
    /\ \/ /\ ~ctxDone
          /\ order' = IF order[m] \in {"none", "refused"}
                      THEN [order EXCEPT ![m] = "sent"] ELSE order
          /\ Goto(d, "reply")
       \/ ctxDone /\ Decide(d, "C") /\ UNCHANGED order
    /\ UNCHANGED <<kind, ready, unacked, retry, published, gap, stop, faults,
                   losses>>

(* A call in flight when the context is cancelled ends in an error. *)
HandleReply(d) ==
    LET m == handler[d].msg IN
    /\ handler[d].pc = "reply"
    /\ \E r \in IF ctxDone THEN {"error"} ELSE RequestReplies(m) :
         LET out == IF kind[m] = "voucher" THEN VoucherOutcome(r)
                                          ELSE OrderOutcome(r)
         IN /\ Decide(d, out)
            /\ retry' = IF out = "retry" THEN [retry EXCEPT ![d].pc = "query"]
                                         ELSE retry
    /\ UNCHANGED <<kind, ready, unacked, order, published, gap, stop, faults,
                   losses>>

OrderInquiry(d) ==
    /\ handler[d].pc = "inquiry"
    /\ \E r \in IF ctxDone THEN {"error"} ELSE InquiryReplies(handler[d].msg) :
         Decide(d, InquiryOutcome(r))
    /\ UNCHANGED <<kind, ready, unacked, retry, order, published, gap, stop,
                   faults, losses>>

(* "S" is published before its goroutine is started. *)
Forward(d) ==
    LET out == handler[d].out IN
    /\ handler[d].pc = "publish"
    /\ ForwardCallback(handler[d].msg, out)
    /\ retry' = IF StartsRetry(out) /\ retry[d].pc = "none"
                THEN [retry EXCEPT ![d].pc = "query"] ELSE retry
    /\ Goto(d, "ack")
    /\ UNCHANGED <<kind, ready, unacked, order, stop, losses>>

(* Mutation: messages that were skipped are not acknowledged. *)
MutAck(d) ==
    /\ handler[d].pc = "ack"
    /\ handler' = [handler EXCEPT ![d] = Finished(@, "done")]
    /\ unacked' = IF unacked = d /\ kind[handler[d].msg] # "junk"
                  THEN None ELSE unacked
    /\ UNCHANGED <<kind, ready, retry, order, published, gap, stop, faults,
                   losses>>

(* delivery.Ack(false), also while draining; on a session that died it     *)
(* fails and is logged.                                                    *)
Ack(d) ==
    /\ handler[d].pc = "ack"
    /\ handler' = [handler EXCEPT ![d] = Finished(@, "done")]
    /\ unacked' = IF unacked = d THEN None ELSE unacked
    /\ UNCHANGED <<kind, ready, retry, order, published, gap, stop, faults,
                   losses>>

Consume(d) == \/ \E m \in Msgs : Deliver(d, m)
              \/ ValidateUser(d)
              \/ PlaceOrder(d)
              \/ HandleReply(d)
              \/ OrderInquiry(d)
              \/ Forward(d)
              \/ Ack(d)

-----------------------------------------------------------------------------
(* The inquiry goroutines: retryVoucherInquiry, retryOrderInquiry *)

RetryWait(d) ==
    /\ retry[d].pc = "wait"
    /\ retry' = [retry EXCEPT ![d].pc = "query"]
    /\ UNCHANGED <<kind, ready, unacked, handler, order, published, gap, stop,
                   faults, losses>>

(* ctx.Done() while waiting: a log line, and nothing is published. *)
RetryStopped(d) ==
    /\ retry[d].pc = "wait"
    /\ ctxDone
    /\ retry' = [retry EXCEPT ![d] = Finished(@, "stopped")]
    /\ gap' = [gap EXCEPT ![handler[d].msg] = @ \cup {"stopped"}]
    /\ UNCHANGED <<kind, ready, unacked, handler, order, published, stop,
                   faults, losses>>

(* Mutation: the loop asks once more than configured. *)
MutLastAttempt(n) == n > MaxAttempts

LastAttempt(n) == n = MaxAttempts

(* After the last attempt the order is given up as FAILED. *)
RetryInquiry(d) ==
    LET attempt == retry[d].attempt + 1 IN
    /\ retry[d].pc = "query"
    /\ \E r \in IF ctxDone THEN {"error"} ELSE InquiryReplies(handler[d].msg) :
         LET out == RetryOutcome(r) IN
         retry' = [retry EXCEPT ![d] =
           IF out = "again"
           THEN [pc |-> IF LastAttempt(attempt) THEN "publish" ELSE "wait",
                 attempt |-> attempt, out |-> "C"]
           ELSE [@ EXCEPT !.pc = "publish", !.out = out]]
    /\ UNCHANGED <<kind, ready, unacked, handler, order, published, gap, stop,
                   faults, losses>>

RetryForward(d) ==
    /\ retry[d].pc = "publish"
    /\ ForwardCallback(handler[d].msg, retry[d].out)
    /\ retry' = [retry EXCEPT ![d] = Finished(@, "done")]
    /\ UNCHANGED <<kind, ready, unacked, handler, order, stop, losses>>

RetryStep(d) == \/ RetryWait(d)
                \/ RetryStopped(d)
                \/ RetryInquiry(d)
                \/ RetryForward(d)

-----------------------------------------------------------------------------
(* The environment: UniPin, the broker session, the process *)

(* A request may be taken up long after its caller stopped waiting. *)
ProviderDecides(m) ==
    /\ \/ order[m] = "sent" /\ \E s \in {"refused", "pending", "success"} :
                                   order' = [order EXCEPT ![m] = s]
       \/ order[m] = "pending" /\ \E s \in {"success", "failed"} :
                                      order' = [order EXCEPT ![m] = s]
    /\ UNCHANGED <<kind, ready, unacked, handler, retry, published, gap, stop,
                   faults, losses>>

Requeued == IF unacked = None THEN ready ELSE ready \cup {handler[unacked].msg}

(* The channel closes: the broker requeues the unacknowledged message.     *)
(* awaitDrain waits for its handler only up to ReadTimeout, so the handler *)
(* may still run when the next session gets the message again.             *)
SessionLost ==
    /\ losses < MaxLosses
    /\ unacked # None
    /\ losses' = losses + 1
    /\ ready' = Requeued
    /\ unacked' = None
    /\ UNCHANGED <<kind, handler, retry, order, published, gap, stop, faults>>

(* SIGTERM *)
Shutdown ==
    /\ losses < MaxLosses
    /\ stop = "run"
    /\ losses' = losses + 1
    /\ stop' = "signal"
    /\ UNCHANGED <<kind, ready, unacked, handler, retry, order, published, gap,
                   faults>>

CancelConsumer ==
    /\ stop = "signal"
    /\ stop' = "cancel"
    /\ UNCHANGED <<kind, ready, unacked, handler, retry, order, published, gap,
                   faults, losses>>

Working(d)  == handler[d].pc \in {"validate", "request", "reply", "inquiry",
                                  "publish", "ack"}
Retrying(d) == retry[d].pc \in {"wait", "query", "publish"}
(* Somebody still has to publish a final status for m. *)
Owed(m) == \E d \in Deliveries :
              /\ handler[d].msg = m
              /\ Retrying(d) \/ handler[d].pc = "publish"

Restart ==
    /\ ready' = Requeued
    /\ unacked' = None
    /\ handler' = [d \in Deliveries |-> IF Working(d)
                                        THEN Finished(handler[d], "dead")
                                        ELSE handler[d]]
    /\ retry' = [d \in Deliveries |-> IF Retrying(d)
                                      THEN Finished(retry[d], "dead")
                                      ELSE retry[d]]
    /\ gap' = [m \in Msgs |-> gap[m] \cup IF Owed(m) THEN {"crash"} ELSE {}]
    /\ stop' = "run"
    /\ UNCHANGED <<kind, order, published, faults>>

Crash == losses < MaxLosses /\ losses' = losses + 1 /\ Restart
(* main returns once the drain is over or timed out; it does not wait for  *)
(* the inquiry goroutines.                                                 *)
Exit  == stop = "cancel" /\ UNCHANGED losses /\ Restart

Next == \/ \E d \in Deliveries : Consume(d) \/ RetryStep(d)
        \/ \E m \in Msgs : ProviderDecides(m)
        \/ SessionLost
        \/ Shutdown
        \/ CancelConsumer
        \/ Crash
        \/ Exit

Spec == Init /\ [][Next]_vars

(* The program's goroutines run and a started shutdown ends.  Every HTTP   *)
(* call has a timeout, so replies are the goroutines' own steps; nothing   *)
(* is assumed of UniPin.                                                   *)
Fairness == /\ \A d \in Deliveries : WF_vars(Consume(d)) /\ WF_vars(RetryStep(d))
            /\ WF_vars(CancelConsumer)
            /\ WF_vars(Exit)

FairSpec == Spec /\ Fairness

-----------------------------------------------------------------------------
(* Properties *)

TypeOK ==
    /\ kind \in [Msgs -> Kinds]
    /\ ready \subseteq Msgs
    /\ unacked \in Deliveries \cup {None}
    /\ handler \in [Deliveries -> Handlers]
    /\ retry \in [Deliveries -> Retries]
    /\ order \in [Msgs -> OrderStates]
    /\ published \in [Msgs -> SUBSET {"F", "C", "S"}]
    /\ gap \in [Msgs -> SUBSET {"publish", "crash", "stopped"}]
    /\ stop \in {"run", "signal", "cancel"}
    /\ faults \in Nat
    /\ losses \in Nat

Orders     == {m \in Msgs : kind[m] # "junk"}
Acked(m)   == m \notin ready /\ (unacked = None \/ handler[unacked].msg # m)
Settled(m) == published[m] \cap {"F", "C"} # {}

(* Two contradicting final statuses need two deliveries of the message:    *)
(* handler and inquiry goroutine of one delivery never both conclude.      *)
ContradictionNeedsRedelivery ==
    \A m \in Msgs : {"F", "C"} \subseteq published[m] =>
        Cardinality({d \in Deliveries : handler[d].msg = m}) > 1

(* With enough deliveries for the losses that happen, every message ends   *)
(* acknowledged, and every order settled or in a known hole: the inquiry   *)
(* goroutines stop and nothing holds the prefetch window of one forever.   *)
EventuallySettled ==
    \A m \in Msgs :
        <>[](Acked(m) /\ (m \in Orders => Settled(m) \/ gap[m] # {}))

(* The gateway as the platform sees it. *)
Platform == INSTANCE OrderGateway WITH
    completed <- {m \in Msgs : order[m] = "success"},
    told      <- published,
    live      <- {m \in Msgs : ~Acked(m) \/ Owed(m)},
    excused   <- {m \in Msgs : m \in Orders => gap[m] # {}}

(* Every step of queue, goroutines, provider and process is a step of the  *)
(* abstract gateway: no order is let go of without a final status unless   *)
(* it is lost in an admitted way at that very step, and no goroutine tells *)
(* of success before the provider completed the order.                     *)
ImplementsGateway == Platform!Spec
=============================================================================
