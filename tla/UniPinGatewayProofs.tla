------------------------- MODULE UniPinGatewayProofs -------------------------
(***************************************************************************)
(* For all sets of messages and deliveries and all bounds: UniPinGateway   *)
(* keeps its types, contradicts itself only about a redelivered message,   *)
(* and implements OrderGateway.                                            *)
(***************************************************************************)
EXTENDS UniPinGateway, FiniteSetTheorems, TLAPS

(* A delivery's records agree: a message that is skipped is never ordered  *)
(* or published for; the inquiry goroutine runs once the handler is        *)
(* through, and asks no more often than configured; whoever is about to    *)
(* report a success knows of a completed order.                            *)
DeliveryInvOf(d) ==
    /\ handler[d].pc = "free" => handler[d].msg = None /\ handler[d].out = "C"
    /\ handler[d].pc # "free" => handler[d].msg \in Msgs
    /\ handler[d].pc \in {"validate", "request", "reply", "inquiry", "publish"}
         => handler[d].msg \in Orders
    /\ retry[d].pc # "none" => /\ handler[d].msg \in Orders
                               /\ handler[d].pc \in {"ack", "done", "dead"}
    /\ retry[d].pc \in {"none", "wait", "query"}
         => retry[d].attempt < MaxAttempts
    /\ handler[d].pc = "publish" /\ handler[d].out = "F"
         => order[handler[d].msg] = "success"
    /\ retry[d].pc = "publish" /\ retry[d].out = "F"
         => order[handler[d].msg] = "success"

DeliveryInv == \A d \in Deliveries : DeliveryInvOf(d)

(* The unacknowledged delivery has a message. *)
UnackedInv == unacked # None => handler[unacked].msg \in Msgs

Inv == TypeOK /\ DeliveryInv /\ UnackedInv

(* The first delivery of a message concludes at most once: while it may    *)
(* still publish a final status none was published.                        *)
Sole(d)    == \A e \in Deliveries : handler[e].msg = handler[d].msg => e = d
Pending(d) == \/ Retrying(d)
              \/ handler[d].pc \in {"validate", "request", "reply", "inquiry",
                                    "publish"}
Agreed(m)  == ~({"F", "C"} \subseteq published[m])

SoleInv ==
    /\ \A d \in Deliveries : handler[d].msg \in Msgs /\ Sole(d) =>
          /\ Agreed(handler[d].msg)
          /\ Pending(d) => ~Settled(handler[d].msg)
    /\ \A m \in Msgs : (\A d \in Deliveries : handler[d].msg # m)
                          => published[m] = {}

(* Only finitely many deliveries were made, however many are allowed.      *)
Delivered == {d \in Deliveries : handler[d].msg # None}
FiniteInv == IsFiniteSet(Delivered)

(* An order about to be acknowledged was settled or lost, or is owed.      *)
Closed(m) == m \in Orders => Settled(m) \/ gap[m] # {}
AckInv == \A d \in Deliveries : handler[d].pc = "ack" =>
             Closed(handler[d].msg) \/ Owed(handler[d].msg)

-----------------------------------------------------------------------------
(* The moves of the two goroutines of a delivery *)

(* Handler and inquiry goroutine of d move, and no other.                  *)
Handles(d, pc, out) ==
    /\ handler' \in [Deliveries -> Handlers]
    /\ handler'[d].msg = handler[d].msg
    /\ handler'[d].pc = pc
    /\ handler'[d].out = out
    /\ \A e \in Deliveries \ {d} : handler'[e] = handler[e]
Inquires(d, pc, n, out) ==
    /\ retry' \in [Deliveries -> Retries]
    /\ retry'[d].pc = pc
    /\ retry'[d].attempt = n
    /\ retry'[d].out = out
    /\ \A e \in Deliveries \ {d} : retry'[e] = retry[e]

LEMMA HandlerAt ==
    ASSUME TypeOK, NEW d \in Deliveries
    PROVE  /\ \A pc \in HandlerPcs :
                /\ Goto(d, pc) => Handles(d, pc, handler[d].out)
                /\ handler' = [handler EXCEPT ![d] = Finished(@, pc)]
                     => Handles(d, pc, "C")
           /\ \A out \in {"F", "C", "S"} :
                Decide(d, out) => Handles(d, "publish", out)
           /\ Decide(d, "retry") => Handles(d, "ack", handler[d].out)
           /\ Decide(d, "inquiry") => Handles(d, "inquiry", handler[d].out)
<1>1. handler \in [Deliveries -> Handlers] /\ handler[d] \in Handlers
  BY DEF TypeOK
<1>2. ASSUME NEW pc \in HandlerPcs
      PROVE  /\ [handler[d] EXCEPT !.pc = pc] \in Handlers
             /\ Finished(handler[d], pc) \in Handlers
  BY <1>1 DEF Handlers, Finished
<1>3. ASSUME NEW pc \in HandlerPcs, Goto(d, pc)
      PROVE  Handles(d, pc, handler[d].out)
  BY <1>1, <1>2, <1>3 DEF Goto, Handles, Handlers
<1>4. ASSUME NEW pc \in HandlerPcs,
             handler' = [handler EXCEPT ![d] = Finished(@, pc)]
      PROVE  Handles(d, pc, "C")
  BY <1>1, <1>2, <1>4 DEF Finished, Handles, Handlers
<1>5. ASSUME NEW out \in {"F", "C", "S"}, Decide(d, out)
      PROVE  Handles(d, "publish", out)
  <2>1. [handler[d] EXCEPT !.pc = "publish", !.out = out] \in Handlers
    BY <1>1 DEF Handlers, HandlerPcs
  <2> QED BY <1>1, <1>5, <2>1 DEF Decide, Handles, Handlers
<1>6. Decide(d, "retry") => Goto(d, "ack")
  BY DEF Decide, Goto
<1>7. Decide(d, "inquiry") => Goto(d, "inquiry")
  BY DEF Decide, Goto
<1> QED BY <1>3, <1>4, <1>5, <1>6, <1>7 DEF HandlerPcs

LEMMA RetryAt ==
    ASSUME TypeOK, NEW d \in Deliveries
    PROVE  /\ \A pc \in RetryPcs :
                /\ retry' = [retry EXCEPT ![d].pc = pc]
                     => Inquires(d, pc, retry[d].attempt, retry[d].out)
                /\ retry' = [retry EXCEPT ![d] = Finished(@, pc)]
                     => Inquires(d, pc, retry[d].attempt, "C")
           /\ \A out \in {"F", "C"} :
                retry' = [retry EXCEPT ![d] =
                            [@ EXCEPT !.pc = "publish", !.out = out]]
                  => Inquires(d, "publish", retry[d].attempt, out)
           /\ \A pc \in RetryPcs, n \in 0..MaxAttempts :
                retry' = [retry EXCEPT ![d] =
                            [pc |-> pc, attempt |-> n, out |-> "C"]]
                  => Inquires(d, pc, n, "C")
<1>1. retry \in [Deliveries -> Retries] /\ retry[d] \in Retries
  BY DEF TypeOK
<1>2. ASSUME NEW pc \in RetryPcs
      PROVE  /\ [retry[d] EXCEPT !.pc = pc] \in Retries
             /\ Finished(retry[d], pc) \in Retries
  BY <1>1 DEF Retries, Finished
<1>3. ASSUME NEW pc \in RetryPcs, retry' = [retry EXCEPT ![d].pc = pc]
      PROVE  Inquires(d, pc, retry[d].attempt, retry[d].out)
  BY <1>1, <1>2, <1>3 DEF Inquires, Retries
<1>4. ASSUME NEW pc \in RetryPcs, retry' = [retry EXCEPT ![d] = Finished(@, pc)]
      PROVE  Inquires(d, pc, retry[d].attempt, "C")
  BY <1>1, <1>2, <1>4 DEF Finished, Inquires, Retries
<1>5. ASSUME NEW out \in {"F", "C"},
             retry' = [retry EXCEPT ![d] = [@ EXCEPT !.pc = "publish", !.out = out]]
      PROVE  Inquires(d, "publish", retry[d].attempt, out)
  <2>1. [retry[d] EXCEPT !.pc = "publish", !.out = out] \in Retries
    BY <1>1 DEF Retries, RetryPcs
  <2> QED BY <1>1, <1>5, <2>1 DEF Inquires, Retries
<1>6. ASSUME NEW pc \in RetryPcs, NEW n \in 0..MaxAttempts,
             retry' = [retry EXCEPT ![d] = [pc |-> pc, attempt |-> n, out |-> "C"]]
      PROVE  Inquires(d, pc, n, "C")
  <2>1. [pc |-> pc, attempt |-> n, out |-> "C"] \in Retries
    BY DEF Retries
  <2> QED BY <1>1, <1>6, <2>1 DEF Inquires
<1> QED BY <1>3, <1>4, <1>5, <1>6

-----------------------------------------------------------------------------
(* The kinds of step a delivery takes *)

Busy(d) == handler[d].pc \in {"validate", "request", "reply", "inquiry"}

(* What no step of a delivery after its arrival touches.                   *)
Local(d) == /\ UNCHANGED <<kind, ready, stop, losses>>
            /\ handler' \in [Deliveries -> Handlers]
            /\ retry' \in [Deliveries -> Retries]
            /\ handler'[d].msg = handler[d].msg
            /\ \A e \in Deliveries \ {d} : /\ handler'[e] = handler[e]
                                           /\ retry'[e] = retry[e]
Silent == UNCHANGED <<published, gap, faults>>

(* The handler goes on asking; its order may be placed.                    *)
Goes(d) ==
    /\ Local(d) /\ Silent /\ UNCHANGED <<unacked, retry>>
    /\ Busy(d) /\ Busy(d)'
    /\ \/ UNCHANGED order
       \/ /\ order[handler[d].msg] \in {"none", "refused"}
          /\ order' = [order EXCEPT ![handler[d].msg] = "sent"]
(* It knows the outcome.                                                   *)
Decides(d) ==
    /\ Local(d) /\ Silent /\ UNCHANGED <<unacked, retry, order>>
    /\ Busy(d) /\ handler'[d].pc = "publish"
    /\ handler'[d].out = "F" => order[handler[d].msg] = "success"
(* It leaves the outcome to the inquiry goroutine.                         *)
Hands(d) ==
    /\ Local(d) /\ Silent /\ UNCHANGED <<unacked, order>>
    /\ Busy(d) /\ handler'[d].pc = "ack"
    /\ retry'[d].pc = "query" /\ retry'[d].attempt = retry[d].attempt
(* It publishes the outcome; an open one starts the inquiry goroutine.     *)
Forwards(d) ==
    /\ Local(d) /\ UNCHANGED <<unacked, order>>
    /\ handler[d].pc = "publish" /\ handler'[d].pc = "ack"
    /\ ForwardCallback(handler[d].msg, handler[d].out)
    /\ IF handler[d].out = "S" THEN /\ retry'[d].pc = "query"
                                    /\ retry'[d].attempt = retry[d].attempt
                               ELSE retry'[d] = retry[d]
Acks(d) ==
    /\ Local(d) /\ Silent /\ UNCHANGED <<order, retry>>
    /\ handler[d].pc = "ack" /\ handler'[d].pc = "done"
    /\ unacked' = IF unacked = d THEN None ELSE unacked
(* The inquiry goroutine goes on, gives up on shutdown, or concludes.      *)
Asks(d) ==
    /\ Local(d) /\ Silent /\ UNCHANGED <<unacked, order, handler>>
    /\ Retrying(d) /\ Retrying(d)'
    /\ retry'[d].pc \in {"wait", "query"} => retry'[d].attempt < MaxAttempts
    /\ retry'[d].pc = "publish" /\ retry'[d].out = "F"
         => order[handler[d].msg] = "success"
Stops(d) ==
    /\ Local(d) /\ UNCHANGED <<unacked, order, handler, published, faults>>
    /\ Retrying(d) /\ retry'[d].pc = "stopped"
    /\ gap' = [gap EXCEPT ![handler[d].msg] = @ \cup {"stopped"}]
Concludes(d) ==
    /\ Local(d) /\ UNCHANGED <<unacked, order, handler>>
    /\ retry[d].pc = "publish" /\ retry'[d].pc = "done"
    /\ ForwardCallback(handler[d].msg, retry[d].out)

LEMMA ReplyOutcomes ==
    ASSUME NEW m
    PROVE  /\ \A r \in RequestReplies(m) :
                /\ VoucherOutcome(r) \in {"retry", "F", "C"}
                /\ VoucherOutcome(r) = "F" => order[m] = "success"
                /\ OrderOutcome(r) \in {"inquiry", "F", "C"}
                /\ OrderOutcome(r) = "F" => order[m] = "success"
           /\ VoucherOutcome("error") = "C" /\ OrderOutcome("error") = "C"
           /\ \A r \in InquiryReplies(m) :
                /\ InquiryOutcome(r) \in {"F", "C", "S"}
                /\ InquiryOutcome(r) = "F" => order[m] = "success"
                /\ RetryOutcome(r) \in {"F", "C", "again"}
                /\ RetryOutcome(r) = "F" => order[m] = "success"
           /\ InquiryOutcome("error") = "C" /\ RetryOutcome("error") = "again"
<1>1. \A r \in RequestReplies(m) : r = "1" => order[m] = "success"
  BY DEF RequestReplies
<1>2. \A r \in InquiryReplies(m) : r = "1" => order[m] = "success"
  BY DEF InquiryReplies
<1>3. /\ \A r : /\ VoucherOutcome(r) \in {"retry", "F", "C"}
                /\ VoucherOutcome(r) = "F" => r = "1"
      /\ VoucherOutcome("error") = "C"
  BY DEF VoucherOutcome
<1>4. /\ \A r : /\ OrderOutcome(r) \in {"inquiry", "F", "C"}
                /\ OrderOutcome(r) = "F" => r = "1"
      /\ OrderOutcome("error") = "C"
  BY DEF OrderOutcome
<1>5. /\ \A r : /\ InquiryOutcome(r) \in {"F", "C", "S"}
                /\ InquiryOutcome(r) = "F" => r = "1"
      /\ InquiryOutcome("error") = "C"
  BY DEF InquiryOutcome
<1>6. /\ \A r : /\ RetryOutcome(r) \in {"F", "C", "again"}
                /\ RetryOutcome(r) = "F" => r = "1"
      /\ RetryOutcome("error") = "again"
  BY DEF RetryOutcome
<1> QED BY <1>1, <1>2, <1>3, <1>4, <1>5, <1>6

LEMMA HandlerSteps ==
    ASSUME TypeOK, DeliveryInv, NEW d \in Deliveries, Consume(d),
           \A m \in Msgs : ~Deliver(d, m)
    PROVE  Goes(d) \/ Decides(d) \/ Hands(d) \/ Forwards(d) \/ Acks(d)
<1>0. /\ DeliveryInvOf(d)
      /\ handler[d].out \in {"F", "C", "S"}
      /\ retry \in [Deliveries -> Retries]
      /\ retry[d].attempt \in 0..MaxAttempts
  BY DEF DeliveryInv, TypeOK, Handlers, Retries
<1> USE DEF Local, Silent, Handles, Busy
<1>1. CASE ValidateUser(d)
  <2>1. CASE Goto(d, "request")
    BY <1>0, <1>1, <2>1, HandlerAt DEF ValidateUser, Goes, HandlerPcs
  <2>2. CASE Decide(d, "C")
    BY <1>0, <1>1, <2>2, HandlerAt DEF ValidateUser, Decides
  <2> QED BY <1>1, <2>1, <2>2 DEF ValidateUser
<1>2. CASE PlaceOrder(d)
  <2>1. CASE Goto(d, "reply")
    <3>1. CASE UNCHANGED order
      BY <1>0, <1>2, <2>1, <3>1, HandlerAt DEF PlaceOrder, Goes, HandlerPcs
    <3>2. CASE /\ order[handler[d].msg] \in {"none", "refused"}
               /\ order' = [order EXCEPT ![handler[d].msg] = "sent"]
      BY <1>0, <1>2, <2>1, <3>2, HandlerAt DEF PlaceOrder, Goes, HandlerPcs
    <3>3. Handles(d, "reply", handler[d].out) /\ handler[d].pc = "request"
      BY <1>2, <2>1, HandlerAt DEF PlaceOrder, HandlerPcs
    <3>4. CASE Decide(d, "C")
      BY <3>3, <3>4, HandlerAt
    <3> QED BY <1>2, <3>1, <3>2, <3>4 DEF PlaceOrder
  <2>2. CASE Decide(d, "C") /\ UNCHANGED order
    BY <1>0, <1>2, <2>2, HandlerAt DEF PlaceOrder, Decides
  <2> QED BY <1>2, <2>1, <2>2 DEF PlaceOrder
<1>3. CASE HandleReply(d)
  <2> DEFINE m == handler[d].msg
  <2>1. PICK r \in IF ctxDone THEN {"error"} ELSE RequestReplies(m) :
          LET out == IF kind[m] = "voucher" THEN VoucherOutcome(r)
                                            ELSE OrderOutcome(r)
          IN /\ Decide(d, out)
             /\ retry' = IF out = "retry" THEN [retry EXCEPT ![d].pc = "query"]
                                          ELSE retry
    BY <1>3 DEF HandleReply
  <2>2. PICK out : out = IF kind[m] = "voucher" THEN VoucherOutcome(r)
                                                ELSE OrderOutcome(r)
    OBVIOUS
  <2>3. /\ out \in {"retry", "inquiry", "F", "C"}
        /\ out = "F" => order[m] = "success"
    BY <2>1, <2>2, ReplyOutcomes
  <2>4. /\ handler[d].pc = "reply" /\ Decide(d, out)
        /\ UNCHANGED <<kind, ready, unacked, order, published, gap, stop, faults,
                       losses>>
    BY <1>3, <2>1, <2>2 DEF HandleReply
  <2>5. CASE out = "retry"
    <3>1. retry' = [retry EXCEPT ![d].pc = "query"]
      BY <2>1, <2>2, <2>5
    <3>2. Inquires(d, "query", retry[d].attempt, retry[d].out)
      BY <3>1, RetryAt DEF RetryPcs
    <3> QED BY <2>4, <2>5, <3>2, HandlerAt DEF Inquires, Hands
  <2>6. CASE out = "inquiry"
    <3>1. UNCHANGED retry
      BY <2>1, <2>2, <2>6
    <3> QED BY <1>0, <2>4, <2>6, <3>1, HandlerAt DEF Goes
  <2>7. CASE out \in {"F", "C"}
    <3>1. UNCHANGED retry
      BY <2>1, <2>2, <2>7
    <3> QED BY <1>0, <2>3, <2>4, <2>7, <3>1, HandlerAt DEF Decides
  <2> QED BY <2>3, <2>5, <2>6, <2>7
<1>4. CASE OrderInquiry(d)
  <2>1. PICK r \in IF ctxDone THEN {"error"} ELSE InquiryReplies(handler[d].msg) :
          Decide(d, InquiryOutcome(r))
    BY <1>4 DEF OrderInquiry
  <2>2. PICK out \in {"F", "C", "S"} : /\ Decide(d, out)
                                       /\ out = "F" => order[handler[d].msg] = "success"
    BY <2>1, ReplyOutcomes
  <2> QED BY <1>0, <1>4, <2>2, HandlerAt DEF OrderInquiry, Decides
<1>5. CASE Forward(d)
  <2>1. /\ handler[d].pc = "publish"
        /\ ForwardCallback(handler[d].msg, handler[d].out)
        /\ retry' = IF handler[d].out \in {"retry", "S"} /\ retry[d].pc = "none"
                    THEN [retry EXCEPT ![d].pc = "query"] ELSE retry
        /\ Handles(d, "ack", handler[d].out)
        /\ UNCHANGED <<kind, ready, unacked, order, stop, losses>>
    BY <1>5, HandlerAt DEF Forward, StartsRetry, HandlerPcs
  <2>2. retry[d].pc = "none"
    BY <1>0, <2>1, <1>5 DEF DeliveryInvOf, Retries, RetryPcs
  <2>3. CASE handler[d].out = "S"
    <3>1. Inquires(d, "query", retry[d].attempt, retry[d].out)
      BY <2>1, <2>2, <2>3, RetryAt DEF RetryPcs
    <3> QED BY <2>1, <2>3, <3>1 DEF Inquires, Forwards
  <2>4. CASE handler[d].out # "S"
    BY <1>0, <2>1, <2>4 DEF Forwards
  <2> QED BY <2>3, <2>4
<1>6. CASE Ack(d)
  BY <1>0, <1>6, HandlerAt DEF Ack, Acks, HandlerPcs
<1> QED BY <1>1, <1>2, <1>3, <1>4, <1>5, <1>6 DEF Consume

LEMMA RetrySteps ==
    ASSUME TypeOK, DeliveryInv, NEW d \in Deliveries, RetryStep(d)
    PROVE  Asks(d) \/ Stops(d) \/ Concludes(d)
<1>0. /\ DeliveryInvOf(d)
      /\ handler \in [Deliveries -> Handlers]
      /\ retry[d].attempt \in 0..MaxAttempts
  BY DEF DeliveryInv, TypeOK, Retries
<1> USE DEF Local, Silent, Inquires, Retrying
<1>1. CASE RetryWait(d)
  BY <1>0, <1>1, RetryAt DEF RetryWait, Asks, RetryPcs, DeliveryInvOf
<1>2. CASE RetryStopped(d)
  BY <1>0, <1>2, RetryAt DEF RetryStopped, Stops, RetryPcs
<1>3. CASE RetryInquiry(d)
  <2>1. PICK r \in IF ctxDone THEN {"error"} ELSE InquiryReplies(handler[d].msg) :
          retry' = [retry EXCEPT ![d] =
            IF RetryOutcome(r) = "again"
            THEN [pc |-> IF LastAttempt(retry[d].attempt + 1) THEN "publish"
                                                              ELSE "wait",
                  attempt |-> retry[d].attempt + 1, out |-> "C"]
            ELSE [@ EXCEPT !.pc = "publish", !.out = RetryOutcome(r)]]
    BY <1>3 DEF RetryInquiry
  <2>2. /\ RetryOutcome(r) \in {"F", "C", "again"}
        /\ RetryOutcome(r) = "F" => order[handler[d].msg] = "success"
    BY <2>1, ReplyOutcomes
  <2>3. /\ retry[d].pc = "query"
        /\ UNCHANGED <<kind, ready, unacked, handler, order, published, gap,
                       stop, faults, losses>>
    BY <1>3 DEF RetryInquiry
  <2>4. retry[d].attempt < MaxAttempts
    BY <1>0, <2>3 DEF DeliveryInvOf
  <2>5. CASE RetryOutcome(r) = "again"
    <3>1. PICK pc \in {"publish", "wait"} :
            /\ retry' = [retry EXCEPT ![d] =
                 [pc |-> pc, attempt |-> retry[d].attempt + 1, out |-> "C"]]
            /\ pc = "wait" => retry[d].attempt + 1 # MaxAttempts
      BY <2>1, <2>5 DEF LastAttempt
    <3>2. /\ retry[d].attempt + 1 \in 0..MaxAttempts
          /\ pc = "wait" => retry[d].attempt + 1 < MaxAttempts
      BY <1>0, <2>4, <3>1, AttemptAssumption
    <3>3. Inquires(d, pc, retry[d].attempt + 1, "C")
      BY <3>1, <3>2, RetryAt DEF RetryPcs
    <3> QED BY <1>0, <2>3, <3>2, <3>3 DEF Asks
  <2>6. CASE RetryOutcome(r) # "again"
    <3>1. PICK out \in {"F", "C"} :
            /\ retry' = [retry EXCEPT ![d] = [@ EXCEPT !.pc = "publish", !.out = out]]
            /\ out = "F" => order[handler[d].msg] = "success"
      BY <2>1, <2>2, <2>6
    <3>2. Inquires(d, "publish", retry[d].attempt, out)
      BY <3>1, RetryAt
    <3> QED BY <1>0, <2>3, <3>1, <3>2 DEF Asks
  <2> QED BY <2>5, <2>6
<1>4. CASE RetryForward(d)
  BY <1>0, <1>4, RetryAt DEF RetryForward, Concludes, RetryPcs
<1> QED BY <1>1, <1>2, <1>3, <1>4 DEF RetryStep

(* A message arrives: the first step of a delivery. *)
LEMMA DeliverAt ==
    ASSUME TypeOK, DeliveryInv, NEW d \in Deliveries, NEW m \in Msgs,
           Deliver(d, m)
    PROVE  /\ handler' \in [Deliveries -> Handlers]
           /\ handler[d].pc = "free" /\ handler[d].msg = None
           /\ handler'[d].msg = m /\ handler'[d].out = "C"
           /\ handler'[d].pc \in {"ack", "publish", "request", "validate"}
           /\ m \notin Orders => handler'[d].pc = "ack"
           /\ handler'[d].pc = "ack" => m \notin Orders
           /\ \A e \in Deliveries \ {d} : handler'[e] = handler[e]
           /\ unacked = None /\ unacked' = d
           /\ m \in ready /\ ready' = ready \ {m}
           /\ UNCHANGED <<kind, retry, order, published, gap, stop, faults, losses>>
<1>1. /\ handler \in [Deliveries -> Handlers] /\ handler[d] \in Handlers
      /\ kind[m] \in Kinds /\ DeliveryInvOf(d)
  BY DEF TypeOK, DeliveryInv
<1>2. PICK pc \in {"ack", "publish", "request", "validate"} :
        /\ handler' = [handler EXCEPT ![d] = [@ EXCEPT !.msg = m, !.pc = pc]]
        /\ pc = "ack" <=> kind[m] = "junk"
  <2>1. PICK pc : pc = CASE kind[m] = "junk"    -> "ack"
                         [] kind[m] = "flawed"  -> "publish"
                         [] kind[m] = "voucher" -> "request"
                         [] kind[m] = "game"    -> "validate"
    OBVIOUS
  <2>2. /\ pc \in {"ack", "publish", "request", "validate"}
        /\ pc = "ack" <=> kind[m] = "junk"
    BY <1>1, <2>1 DEF Kinds
  <2>3. handler' = [handler EXCEPT ![d] = [@ EXCEPT !.msg = m, !.pc = pc]]
    BY <2>1 DEF Deliver
  <2> QED BY <2>2, <2>3
<1>3. [handler[d] EXCEPT !.msg = m, !.pc = pc] \in Handlers
  BY <1>1, <1>2 DEF Handlers, HandlerPcs
<1>4. handler' \in [Deliveries -> Handlers]
  BY <1>1, <1>2, <1>3
<1>5. /\ handler'[d].msg = m /\ handler'[d].pc = pc
      /\ handler'[d].out = handler[d].out
  BY <1>1, <1>2 DEF Handlers
<1>6. /\ handler[d].pc = "free" /\ unacked = None /\ unacked' = d
      /\ m \in ready /\ ready' = ready \ {m}
      /\ UNCHANGED <<kind, retry, order, published, gap, stop, faults, losses>>
  BY DEF Deliver
<1> QED BY <1>1, <1>2, <1>4, <1>5, <1>6 DEF DeliveryInvOf, Orders

(* The process starts anew: its goroutines are gone.                       *)
LEMMA RestartAt ==
    ASSUME TypeOK, Restart
    PROVE  /\ handler' \in [Deliveries -> Handlers]
           /\ retry' \in [Deliveries -> Retries]
           /\ \A d \in Deliveries :
                /\ handler'[d].msg = handler[d].msg
                /\ handler'[d].pc = IF Working(d) THEN "dead" ELSE handler[d].pc
                /\ handler'[d].out = IF Working(d) THEN "C" ELSE handler[d].out
                /\ retry'[d].pc = IF Retrying(d) THEN "dead" ELSE retry[d].pc
                /\ retry'[d].attempt = retry[d].attempt
           /\ UNCHANGED <<kind, order, published, faults>>
           /\ ready' = Requeued /\ unacked' = None
<1>1. /\ handler \in [Deliveries -> Handlers]
      /\ retry \in [Deliveries -> Retries]
  BY DEF TypeOK
<1>2. ASSUME NEW d \in Deliveries
      PROVE  /\ Finished(handler[d], "dead") \in Handlers
             /\ Finished(retry[d], "dead") \in Retries
  BY <1>1 DEF Finished, Handlers, HandlerPcs, Retries, RetryPcs
<1>3. /\ handler' \in [Deliveries -> Handlers]
      /\ retry' \in [Deliveries -> Retries]
  BY <1>1, <1>2 DEF Restart
<1>4. ASSUME NEW d \in Deliveries
      PROVE  /\ handler'[d].msg = handler[d].msg
             /\ handler'[d].pc = IF Working(d) THEN "dead" ELSE handler[d].pc
             /\ handler'[d].out = IF Working(d) THEN "C" ELSE handler[d].out
             /\ retry'[d].pc = IF Retrying(d) THEN "dead" ELSE retry[d].pc
             /\ retry'[d].attempt = retry[d].attempt
  <2>1. /\ handler'[d] = IF Working(d) THEN Finished(handler[d], "dead")
                                       ELSE handler[d]
        /\ retry'[d] = IF Retrying(d) THEN Finished(retry[d], "dead")
                                      ELSE retry[d]
    BY DEF Restart
  <2>2. handler[d] \in Handlers /\ retry[d] \in Retries
    BY <1>1
  <2> QED BY <2>1, <2>2 DEF Finished, Handlers, Retries
<1> QED BY <1>3, <1>4 DEF Restart

-----------------------------------------------------------------------------
(* Types, and the records of a delivery *)

Move(d) == \/ Goes(d) \/ Decides(d) \/ Hands(d) \/ Forwards(d) \/ Acks(d)
           \/ Asks(d) \/ Stops(d) \/ Concludes(d)

LEMMA ForwardType ==
    ASSUME TypeOK, NEW m \in Msgs, NEW s \in {"F", "C", "S"}, ForwardCallback(m, s)
    PROVE  /\ published' \in [Msgs -> SUBSET {"F", "C", "S"}]
           /\ gap' \in [Msgs -> SUBSET {"publish", "crash", "stopped"}]
           /\ faults' \in Nat
<1>1. CASE published' = [published EXCEPT ![m] = @ \cup {s}]
           /\ UNCHANGED <<gap, faults>>
  BY <1>1 DEF TypeOK
<1>2. CASE /\ faults' = faults + 1
           /\ gap' = [gap EXCEPT ![m] = IF s = "S" THEN @ ELSE @ \cup {"publish"}]
           /\ UNCHANGED published
  BY <1>2 DEF TypeOK
<1> QED BY <1>1, <1>2 DEF ForwardCallback

LEMMA MoveType ==
    ASSUME TypeOK, DeliveryInv, NEW d \in Deliveries, Move(d)
    PROVE  TypeOK'
<1>0. /\ handler[d].out \in {"F", "C", "S"} /\ retry[d].out \in {"F", "C"}
      /\ handler[d].pc \in HandlerPcs /\ retry[d].pc \in RetryPcs
      /\ DeliveryInvOf(d)
      /\ Orders \subseteq Msgs
  BY DEF TypeOK, Handlers, Retries, DeliveryInv, Orders
<1>1. CASE Goes(d)
  BY <1>0, <1>1 DEF TypeOK, Goes, Local, Silent, Busy, OrderStates
<1>2. CASE Forwards(d)
  <2>1. handler[d].msg \in Msgs
    BY <1>0, <1>2 DEF Forwards, DeliveryInvOf
  <2> QED BY <1>0, <1>2, <2>1, ForwardType DEF TypeOK, Forwards, Local
<1>3. CASE Concludes(d)
  <2>1. handler[d].msg \in Msgs
    BY <1>0, <1>3 DEF Concludes, DeliveryInvOf
  <2> QED BY <1>0, <1>3, <2>1, ForwardType DEF TypeOK, Concludes, Local
<1>4. CASE Stops(d)
  BY <1>0, <1>4 DEF TypeOK, Stops, Local
<1>5. CASE Decides(d) \/ Hands(d) \/ Acks(d) \/ Asks(d)
  BY <1>5 DEF TypeOK, Decides, Hands, Acks, Asks, Local, Silent
<1> QED BY <1>1, <1>2, <1>3, <1>4, <1>5 DEF Move

LEMMA MoveDelivery ==
    ASSUME TypeOK, DeliveryInv, NEW d \in Deliveries, Move(d)
    PROVE  DeliveryInv'
<1>0. Local(d) /\ DeliveryInvOf(d)
  BY DEF Move, Goes, Decides, Hands, Forwards, Acks, Asks, Stops, Concludes,
         DeliveryInv
<1>1. \A m \in Msgs : order[m] = "success" => order'[m] = "success"
  BY DEF Move, Goes, Decides, Hands, Forwards, Acks, Asks, Stops, Concludes,
         TypeOK
<1>2. Orders' = Orders /\ Orders \subseteq Msgs
  BY <1>0 DEF Local, Orders
<1>3. ASSUME NEW e \in Deliveries \ {d}
      PROVE  DeliveryInvOf(e)'
  <2>1. handler'[e] = handler[e] /\ retry'[e] = retry[e] /\ DeliveryInvOf(e)
    BY <1>0 DEF Local, DeliveryInv
  <2> QED BY <1>1, <1>2, <2>1 DEF DeliveryInvOf
<1>4. DeliveryInvOf(d)'
  <2>0. /\ handler[d].pc \in HandlerPcs /\ retry[d].pc \in RetryPcs
        /\ handler'[d].msg = handler[d].msg
    BY <1>0 DEF TypeOK, Handlers, Retries, Local
  <2>1. CASE Goes(d)
    BY <1>0, <1>1, <1>2, <2>0, <2>1 DEF Goes, Busy, DeliveryInvOf
  <2>2. CASE Decides(d)
    BY <1>0, <1>2, <2>0, <2>2 DEF Decides, Busy, DeliveryInvOf
  <2>3. CASE Hands(d)
    BY <1>0, <1>2, <2>0, <2>3 DEF Hands, Busy, DeliveryInvOf, RetryPcs
  <2>4. CASE Forwards(d)
    BY <1>0, <1>2, <2>0, <2>4 DEF Forwards, DeliveryInvOf, RetryPcs
  <2>5. CASE Acks(d)
    BY <1>0, <1>2, <2>0, <2>5 DEF Acks, DeliveryInvOf
  <2>6. CASE Asks(d)
    BY <1>0, <1>2, <2>0, <2>6 DEF Asks, Retrying, DeliveryInvOf
  <2>7. CASE Stops(d)
    BY <1>0, <1>2, <2>0, <2>7 DEF Stops, Retrying, DeliveryInvOf
  <2>8. CASE Concludes(d)
    BY <1>0, <1>2, <2>0, <2>8 DEF Concludes, DeliveryInvOf
  <2> QED BY <2>1, <2>2, <2>3, <2>4, <2>5, <2>6, <2>7, <2>8 DEF Move
<1> QED BY <1>3, <1>4 DEF DeliveryInv

LEMMA RequeuedType == ASSUME TypeOK, UnackedInv PROVE Requeued \subseteq Msgs
BY DEF TypeOK, UnackedInv, Requeued

LEMMA InvStep ==
    ASSUME Inv, [Next]_vars
    PROVE  Inv'
<1>0. /\ TypeOK /\ DeliveryInv /\ UnackedInv
      /\ unacked # None => unacked \in Deliveries
      /\ Orders \subseteq Msgs
  BY DEF Inv, TypeOK, Orders
<1>1. ASSUME NEW d \in Deliveries, Move(d)
      PROVE  Inv'
  <2>1. /\ \A e \in Deliveries : handler'[e].msg = handler[e].msg
        /\ unacked' \in {unacked, None}
    BY <1>1 DEF Move, Goes, Decides, Hands, Forwards, Acks, Asks, Stops,
                Concludes, Local
  <2>2. UnackedInv'
    BY <1>0, <2>1 DEF UnackedInv
  <2> QED BY <1>0, <1>1, <2>2, MoveType, MoveDelivery DEF Inv
<1>2. ASSUME NEW d \in Deliveries, NEW m \in Msgs, Deliver(d, m)
      PROVE  Inv'
  <2>1. TypeOK'
    BY <1>0, <1>2, DeliverAt DEF TypeOK
  <2>2. DeliveryInvOf(d)'
    <3>1. DeliveryInvOf(d) /\ retry[d].pc \in RetryPcs
      BY <1>0 DEF DeliveryInv, TypeOK, Retries
    <3>2. retry[d].pc = "none"
      BY <1>0, <1>2, <3>1, DeliverAt DEF DeliveryInvOf
    <3> QED BY <1>0, <1>2, <3>1, <3>2, DeliverAt DEF DeliveryInvOf, Orders
  <2>3. ASSUME NEW e \in Deliveries \ {d}
        PROVE  DeliveryInvOf(e)'
    <3>1. DeliveryInvOf(e) /\ handler'[e] = handler[e] /\ Orders' = Orders
      BY <1>0, <1>2, DeliverAt DEF DeliveryInv, Orders
    <3> QED BY <1>0, <1>2, <3>1, DeliverAt DEF DeliveryInvOf
  <2>4. UnackedInv'
    BY <1>0, <1>2, DeliverAt DEF UnackedInv
  <2> QED BY <2>1, <2>2, <2>3, <2>4 DEF Inv, DeliveryInv
<1>3. ASSUME NEW d \in Deliveries, Consume(d) \/ RetryStep(d)
      PROVE  Inv'
  BY <1>0, <1>1, <1>2, <1>3, HandlerSteps, RetrySteps DEF Move, Consume
<1>4. ASSUME NEW m \in Msgs, ProviderDecides(m)
      PROVE  Inv'
  <2>1. TypeOK'
    BY <1>0, <1>4 DEF ProviderDecides, TypeOK, OrderStates
  <2>2. \A o \in Msgs : order[o] = "success" => order'[o] = "success"
    BY <1>0, <1>4 DEF ProviderDecides, TypeOK
  <2>3. DeliveryInv'
    BY <1>0, <1>4, <2>2 DEF ProviderDecides, DeliveryInv, DeliveryInvOf, Orders
  <2> QED BY <1>0, <1>4, <2>1, <2>3 DEF ProviderDecides, Inv, UnackedInv
<1>5. ASSUME Restart, losses' \in Nat
      PROVE  Inv'
  <2>1. TypeOK'
    <3>1. gap' \in [Msgs -> SUBSET {"publish", "crash", "stopped"}] /\ stop' = "run"
      BY <1>0, <1>5 DEF Restart, TypeOK
    <3> QED BY <1>0, <1>5, <3>1, RestartAt, RequeuedType DEF TypeOK
  <2>2. ASSUME NEW d \in Deliveries
        PROVE  DeliveryInvOf(d)'
    <3>1. /\ DeliveryInvOf(d) /\ Orders' = Orders
          /\ handler[d].pc \in HandlerPcs /\ retry[d].pc \in RetryPcs
      BY <1>0, <1>5, RestartAt DEF DeliveryInv, Orders, TypeOK, Handlers, Retries
    <3> QED BY <1>0, <1>5, <3>1, RestartAt
            DEF DeliveryInvOf, Working, Retrying, HandlerPcs, RetryPcs
  <2>3. UnackedInv'
    BY <1>0, <1>5, RestartAt DEF UnackedInv
  <2> QED BY <2>1, <2>2, <2>3 DEF Inv, DeliveryInv
<1>6. ASSUME UNCHANGED <<kind, handler, retry, order>>, TypeOK',
             UNCHANGED unacked \/ unacked' = None
      PROVE  Inv'
  BY <1>0, <1>6 DEF Inv, DeliveryInv, DeliveryInvOf, UnackedInv, Orders
<1>7. CASE SessionLost
  <2>1. TypeOK'
    BY <1>0, <1>7, RequeuedType DEF SessionLost, TypeOK
  <2> QED BY <1>6, <1>7, <2>1 DEF SessionLost
<1>8. CASE Shutdown \/ CancelConsumer \/ UNCHANGED vars
  <2>1. TypeOK'
    BY <1>0, <1>8 DEF Shutdown, CancelConsumer, vars, TypeOK
  <2> QED BY <1>6, <1>8, <2>1 DEF Shutdown, CancelConsumer, vars
<1>9. CASE Crash \/ Exit
  <2>1. Restart /\ losses' \in Nat
    BY <1>0, <1>9 DEF Crash, Exit, TypeOK
  <2> QED BY <1>5, <2>1
<1> QED BY <1>3, <1>4, <1>7, <1>8, <1>9 DEF Next

LEMMA InitInv == Init => Inv
<1> SUFFICES ASSUME Init PROVE Inv
  OBVIOUS
<1>1. TypeOK
  <2>1. [msg |-> None, pc |-> "free", out |-> "C"] \in Handlers
    BY DEF Handlers, HandlerPcs
  <2>2. [pc |-> "none", attempt |-> 0, out |-> "C"] \in Retries
    BY AttemptAssumption DEF Retries, RetryPcs
  <2> QED BY <2>1, <2>2 DEF Init, TypeOK, OrderStates
<1>2. DeliveryInv
  BY AttemptAssumption DEF Init, DeliveryInv, DeliveryInvOf
<1> QED BY <1>1, <1>2 DEF Init, Inv, UnackedInv

(* The records of every delivery agree in every reachable state.           *)
THEOREM InvCorrect == Spec => []Inv
<1>1. Inv /\ [Next]_vars => Inv'
  BY InvStep
<1> QED BY <1>1, InitInv, PTL DEF Spec

(* The types of every variable hold in every reachable state; in           *)
(* particular no order is inquired about more often than configured.       *)
THEOREM TypeCorrect == Spec => []TypeOK
<1>1. Inv => TypeOK
  BY DEF Inv
<1> QED BY <1>1, InvCorrect, PTL

-----------------------------------------------------------------------------
(* A single delivery never contradicts itself *)

(* A step that publishes nothing. *)
LEMMA SoleSilent ==
    ASSUME SoleInv, UNCHANGED published,
           \A e \in Deliveries : /\ handler'[e].msg = handler[e].msg
                                 /\ Pending(e)' => Pending(e)
    PROVE  SoleInv'
BY DEF SoleInv, Sole, Agreed, Settled

(* A step of d that publishes, for the last time unless it told of "S". *)
LEMMA SoleTells ==
    ASSUME TypeOK, SoleInv, NEW d \in Deliveries, NEW s \in {"F", "C", "S"},
           handler[d].msg \in Msgs, Pending(d), s # "S" => ~Pending(d)',
           ForwardCallback(handler[d].msg, s),
           \A e \in Deliveries : /\ handler'[e].msg = handler[e].msg
                                 /\ Pending(e)' => Pending(e)
    PROVE  SoleInv'
<1> DEFINE m == handler[d].msg
<1>1. /\ \A o \in Msgs \ {m} : published'[o] = published[o]
      /\ published'[m] \in {published[m], published[m] \cup {s}}
  BY DEF ForwardCallback, TypeOK
<1>2. \A e \in Deliveries : Sole(e)' <=> Sole(e)
  BY DEF Sole
<1>3. ASSUME NEW e \in Deliveries, handler[e].msg \in Msgs, Sole(e)
      PROVE  /\ Agreed(handler[e].msg)'
             /\ Pending(e)' => ~Settled(handler[e].msg)'
  <2>1. CASE handler[e].msg # m
    BY <1>1, <1>3, <2>1 DEF SoleInv, Agreed, Settled
  <2>2. CASE handler[e].msg = m
    <3>1. e = d
      BY <1>3, <2>2 DEF Sole
    <3>2. ~Settled(m)
      BY <1>3, <3>1 DEF SoleInv
    <3>3. Agreed(m)'
      BY <1>1, <3>2 DEF Agreed, Settled
    <3>4. Pending(d)' => ~Settled(m)'
      BY <1>1, <3>2 DEF Settled
    <3> QED BY <2>2, <3>1, <3>3, <3>4
  <2> QED BY <2>1, <2>2
<1>4. ASSUME NEW o \in Msgs, \A e \in Deliveries : handler[e].msg # o
      PROVE  published'[o] = {}
  BY <1>1, <1>4 DEF SoleInv
<1>5. ASSUME NEW e \in Deliveries, handler'[e].msg \in Msgs, Sole(e)'
      PROVE  /\ Agreed(handler[e].msg)' /\ handler'[e].msg = handler[e].msg
             /\ Pending(e)' => ~Settled(handler[e].msg)'
  BY <1>2, <1>3, <1>5
<1>6. ASSUME NEW o \in Msgs, \A e \in Deliveries : handler'[e].msg # o
      PROVE  published'[o] = {}
  BY <1>4, <1>6
<1> QED BY <1>5, <1>6 DEF SoleInv, Agreed, Settled

LEMMA SoleMove ==
    ASSUME Inv, SoleInv, NEW d \in Deliveries, Move(d)
    PROVE  SoleInv'
<1>0. /\ TypeOK /\ DeliveryInvOf(d) /\ Orders \subseteq Msgs
      /\ handler[d].out \in {"F", "C", "S"} /\ retry[d].out \in {"F", "C"}
      /\ retry[d].pc \in RetryPcs
  BY DEF Inv, DeliveryInv, Orders, TypeOK, Handlers, Retries
<1>1. Local(d)
  BY DEF Move, Goes, Decides, Hands, Forwards, Acks, Asks, Stops, Concludes
<1>2. /\ \A e \in Deliveries : handler'[e].msg = handler[e].msg
      /\ \A e \in Deliveries \ {d} : Pending(e)' <=> Pending(e)
  BY <1>1 DEF Local, Pending, Retrying
<1>3. Pending(d)' => Pending(d)
  BY DEF Move, Goes, Decides, Hands, Forwards, Acks, Asks, Stops, Concludes,
         Pending, Retrying, Busy
<1>4. CASE Forwards(d)
  <2>1. Pending(d) /\ handler[d].msg \in Msgs
    BY <1>0, <1>4 DEF Forwards, Pending, DeliveryInvOf
  <2>2. handler[d].out # "S" => ~Pending(d)'
    BY <1>0, <1>4 DEF Forwards, Pending, Retrying, DeliveryInvOf, RetryPcs
  <2>3. ForwardCallback(handler[d].msg, handler[d].out)
    BY <1>4 DEF Forwards
  <2> QED BY <1>0, <1>2, <1>3, <2>1, <2>2, <2>3, SoleTells
<1>5. CASE Concludes(d)
  <2>1. Pending(d) /\ handler[d].msg \in Msgs
    BY <1>0, <1>5 DEF Concludes, Pending, Retrying, DeliveryInvOf
  <2>2. ~Pending(d)'
    BY <1>0, <1>5 DEF Concludes, Pending, Retrying, DeliveryInvOf
  <2>3. ForwardCallback(handler[d].msg, retry[d].out)
    BY <1>5 DEF Concludes
  <2> QED BY <1>0, <1>2, <1>3, <2>1, <2>2, <2>3, SoleTells
<1>6. CASE ~Forwards(d) /\ ~Concludes(d)
  <2>1. UNCHANGED published
    BY <1>6 DEF Move, Goes, Decides, Hands, Acks, Asks, Stops, Silent
  <2> QED BY <1>2, <1>3, <2>1, SoleSilent
<1> QED BY <1>4, <1>5, <1>6

LEMMA SoleDeliver ==
    ASSUME Inv, SoleInv, NEW d \in Deliveries, NEW m \in Msgs, Deliver(d, m)
    PROVE  SoleInv'
<1>0. /\ handler[d].msg = None /\ handler'[d].msg = m
      /\ UNCHANGED <<published, retry>>
      /\ \A e \in Deliveries \ {d} : handler'[e] = handler[e]
  BY DeliverAt DEF Inv
<1>1. ASSUME NEW e \in Deliveries, handler'[e].msg \in Msgs, Sole(e)'
      PROVE  /\ Agreed(handler'[e].msg)
             /\ Pending(e)' => ~Settled(handler'[e].msg)
  <2>1. CASE e = d
    <3>1. \A f \in Deliveries : handler[f].msg # m
      BY <1>0, <1>1, <2>1, MsgAssumption DEF Sole
    <3>2. published[m] = {}
      BY <3>1 DEF SoleInv
    <3> QED BY <1>0, <2>1, <3>2 DEF Agreed, Settled
  <2>2. CASE e # d
    <3>1. handler'[e] = handler[e] /\ handler[e].msg # m
      BY <1>0, <1>1, <2>2 DEF Sole
    <3>2. Sole(e)
      BY <1>0, <1>1, <3>1, MsgAssumption DEF Sole
    <3>3. Pending(e)' => Pending(e)
      BY <1>0, <3>1 DEF Pending, Retrying
    <3> QED BY <1>1, <3>1, <3>2, <3>3 DEF SoleInv
  <2> QED BY <2>1, <2>2
<1>2. ASSUME NEW o \in Msgs, \A e \in Deliveries : handler'[e].msg # o
      PROVE  published[o] = {}
  BY <1>0, <1>2, MsgAssumption DEF SoleInv
<1> QED BY <1>0, <1>1, <1>2 DEF SoleInv, Agreed, Settled

LEMMA FiniteStep ==
    ASSUME Inv, FiniteInv, [Next]_vars
    PROVE  FiniteInv'
<1>1. ASSUME \A e \in Deliveries : handler'[e].msg = handler[e].msg
      PROVE  FiniteInv'
  <2>1. Delivered' = Delivered
    BY <1>1 DEF Delivered
  <2> QED BY <2>1 DEF FiniteInv
<1>2. ASSUME NEW d \in Deliveries, NEW m \in Msgs, Deliver(d, m)
      PROVE  FiniteInv'
  <2>1. Delivered' = Delivered \cup {d}
    BY <1>2, DeliverAt, MsgAssumption DEF Delivered, Inv
  <2> QED BY <2>1, FS_AddElement DEF FiniteInv
<1>3. ASSUME NEW d \in Deliveries, Consume(d) \/ RetryStep(d)
      PROVE  FiniteInv'
  <2>1. CASE Move(d)
    BY <1>1, <2>1 DEF Move, Goes, Decides, Hands, Forwards, Acks, Asks, Stops,
                      Concludes, Local
  <2> QED BY <1>2, <1>3, <2>1, HandlerSteps, RetrySteps DEF Move, Consume, Inv
<1>4. CASE Restart
  BY <1>1, <1>4, RestartAt DEF Inv
<1>5. CASE UNCHANGED handler
  BY <1>1, <1>5
<1> QED BY <1>3, <1>4, <1>5 DEF Next, ProviderDecides, SessionLost, Shutdown,
                                CancelConsumer, Crash, Exit, vars

LEMMA SoleStep ==
    ASSUME Inv, SoleInv, [Next]_vars
    PROVE  SoleInv'
<1>1. ASSUME NEW d \in Deliveries, Consume(d) \/ RetryStep(d)
      PROVE  SoleInv'
  BY <1>1, SoleMove, SoleDeliver, HandlerSteps, RetrySteps DEF Move, Consume, Inv
<1>2. CASE Restart
  <2>1. \A e \in Deliveries : /\ handler'[e].msg = handler[e].msg
                              /\ Pending(e)' => Pending(e)
    BY <1>2, RestartAt DEF Inv, Pending, Retrying, Working
  <2>2. UNCHANGED published
    BY <1>2 DEF Restart
  <2> QED BY <2>1, <2>2, SoleSilent
<1>3. CASE UNCHANGED <<handler, retry, published>>
  BY <1>3, SoleSilent DEF Pending, Retrying
<1> QED BY <1>1, <1>2, <1>3 DEF Next, ProviderDecides, SessionLost, Shutdown,
                                CancelConsumer, Crash, Exit, vars

LEMMA SoleInit == Init => SoleInv /\ FiniteInv
<1> SUFFICES ASSUME Init PROVE SoleInv /\ FiniteInv
  OBVIOUS
<1>1. \A d \in Deliveries : handler[d].msg = None
  BY DEF Init
<1>2. SoleInv
  BY <1>1, MsgAssumption DEF Init, SoleInv
<1>3. Delivered = {}
  BY <1>1 DEF Delivered
<1> QED BY <1>2, <1>3, FS_EmptySet DEF FiniteInv

LEMMA SoleCounts ==
    ASSUME TypeOK, SoleInv, FiniteInv
    PROVE  ContradictionNeedsRedelivery
<1> SUFFICES ASSUME NEW m \in Msgs, {"F", "C"} \subseteq published[m]
             PROVE  Cardinality({d \in Deliveries : handler[d].msg = m}) > 1
  BY DEF ContradictionNeedsRedelivery
<1> DEFINE D == {d \in Deliveries : handler[d].msg = m}
<1>1. PICK d \in Deliveries : handler[d].msg = m
  BY DEF SoleInv
<1>2. PICK e \in Deliveries : handler[e].msg = m /\ e # d
  BY <1>1 DEF SoleInv, Sole, Agreed
<1>3. IsFiniteSet(D) /\ Cardinality(D) \in Nat
  <2>1. D \subseteq Delivered
    BY MsgAssumption DEF Delivered
  <2> QED BY <2>1, FS_Subset, FS_CardinalityType DEF FiniteInv
<1>4. Cardinality(D \ {d}) = Cardinality(D) - 1 /\ IsFiniteSet(D \ {d})
  BY <1>1, <1>3, FS_RemoveElement
<1>5. Cardinality(D \ {d}) # 0
  BY <1>2, <1>4, FS_EmptySet
<1>6. Cardinality(D \ {d}) \in Nat
  BY <1>4, FS_CardinalityType
<1> QED BY <1>3, <1>4, <1>5, <1>6

(* Handler and inquiry goroutine of one delivery never both conclude: that *)
(* an order is told of as done and as failed takes two deliveries of it.   *)
THEOREM ContradictionCorrect == Spec => []ContradictionNeedsRedelivery
<1>1. Inv /\ SoleInv /\ [Next]_vars => SoleInv'
  BY SoleStep
<1>2. Inv /\ FiniteInv /\ [Next]_vars => FiniteInv'
  BY FiniteStep
<1>3. Inv /\ SoleInv /\ FiniteInv => ContradictionNeedsRedelivery
  BY SoleCounts DEF Inv
<1> QED BY <1>1, <1>2, <1>3, SoleInit, InvCorrect, PTL DEF Spec

-----------------------------------------------------------------------------
(* What the platform sees of a step *)

Held(m)  == ~Acked(m) \/ Owed(m)
Owes(d)  == Retrying(d) \/ handler[d].pc = "publish"
Done(m)  == order[m] = "success"

LEMMA OwedOwes == \A m : Owed(m) <=> \E d \in Deliveries : handler[d].msg = m /\ Owes(d)
BY DEF Owed, Owes

(* A step that leaves the view of every message alone is a stutter. *)
LEMMA Stutters ==
    ASSUME UNCHANGED <<kind, published, gap>>,
           \A m \in Msgs : /\ Held(m)' <=> Held(m)
                           /\ Done(m)' <=> Done(m)
    PROVE  UNCHANGED Platform!vars
BY DEF Platform!vars, Held, Done, Orders

(* The order a goroutine has to publish for now is taken up. *)
LEMMA TakesUp ==
    ASSUME UNCHANGED <<kind, published, gap>>, NEW o \in Msgs, Held(o)',
           \A m \in Msgs : /\ m # o => (Held(m)' <=> Held(m))
                           /\ Done(m)' <=> Done(m)
    PROVE  Platform!TakeUp(o)
BY DEF Platform!TakeUp, Held, Done, Orders

(* Whoever owes a status publishes it; unless it is "S", he may be the     *)
(* last to owe one, and then a failed publish is a known hole.             *)
LEMMA Tells ==
    ASSUME TypeOK, UNCHANGED kind, NEW o \in Orders, NEW s \in {"F", "C", "S"},
           Held(o), s = "S" => Held(o)', s = "F" => Done(o),
           ForwardCallback(o, s),
           \A m \in Msgs : /\ m # o => (Held(m)' <=> Held(m))
                           /\ Done(m)' <=> Done(m)
    PROVE  [Platform!Next]_Platform!vars
<1> DEFINE Live == {m \in Msgs : ~Acked(m) \/ Owed(m)}
           Excused == {m \in Msgs : m \in Orders => gap[m] # {}}
<1>0. /\ published \in [Msgs -> SUBSET {"F", "C", "S"}]
      /\ gap \in [Msgs -> SUBSET {"publish", "crash", "stopped"}]
      /\ o \in Msgs /\ Orders' = Orders
  BY DEF TypeOK, Orders
<1>1. /\ o \in Live /\ Live' \in {Live \ {o}, Live}
      /\ s = "S" => Live' = Live
  BY <1>0 DEF Held
<1>2. {m \in Msgs : order'[m] = "success"} = {m \in Msgs : order[m] = "success"}
  BY DEF Done
<1>3. CASE published' = [published EXCEPT ![o] = @ \cup {s}] /\ UNCHANGED gap
  <2>1. s \in published'[o] /\ Excused' = Excused
    BY <1>0, <1>3
  <2>2. Platform!LetGo
    BY <1>0, <1>1, <2>1 DEF Platform!LetGo, Platform!Final
  <2>3. Platform!Tell(o, s)
    BY <1>0, <1>1, <1>2, <1>3, <2>1, <2>2
       DEF Platform!Tell, Platform!Final, Done
  <2> QED BY <1>0, <2>3 DEF Platform!Next
<1>4. CASE s = "S" /\ UNCHANGED <<published, gap>>
  <2>1. Excused' = Excused
    BY <1>0, <1>4
  <2> QED BY <1>1, <1>2, <1>4, <2>1 DEF Platform!vars
<1>5. CASE gap' = [gap EXCEPT ![o] = @ \cup {"publish"}] /\ UNCHANGED published
  <2>1. Excused' = Excused \cup {o}
    BY <1>0, <1>5
  <2>2. Platform!LetGo
    BY <1>1, <2>1 DEF Platform!LetGo
  <2>3. Platform!Lose({o})
    BY <1>1, <1>2, <1>5, <2>1, <2>2 DEF Platform!Lose
  <2> QED BY <1>1, <2>3 DEF Platform!Next
<1>6. \/ published' = [published EXCEPT ![o] = @ \cup {s}] /\ UNCHANGED gap
      \/ s = "S" /\ UNCHANGED <<published, gap>>
      \/ gap' = [gap EXCEPT ![o] = @ \cup {"publish"}] /\ UNCHANGED published
  <2>1. [gap EXCEPT ![o] = @] = gap
    BY <1>0
  <2> QED BY <2>1 DEF ForwardCallback
<1> QED BY <1>3, <1>4, <1>5, <1>6

(* An acknowledgement lets go of an order nobody owes any more only if it  *)
(* is settled or lost.                                                     *)
LEMMA LetsGo ==
    ASSUME UNCHANGED <<kind, published, gap>>,
           \A m \in Msgs : /\ Held(m)' => Held(m)
                           /\ Held(m) /\ ~Held(m)' => Closed(m)
                           /\ Done(m)' <=> Done(m)
    PROVE  Platform!Next
<1> DEFINE Live == {m \in Msgs : ~Acked(m) \/ Owed(m)}
           Excused == {m \in Msgs : m \in Orders => gap[m] # {}}
<1>1. Live' \in SUBSET Live /\ Excused' = Excused \cup {}
  BY DEF Held, Orders
<1>2. {m \in Msgs : order'[m] = "success"} = {m \in Msgs : order[m] = "success"}
  BY DEF Done
<1>3. Platform!LetGo
  <2>1. Orders' = Orders
    BY DEF Orders
  <2> QED BY <2>1 DEF Platform!LetGo, Platform!Final, Held, Closed, Settled
<1>4. Platform!Lose({})
  BY <1>1, <1>2, <1>3 DEF Platform!Lose
<1> QED BY <1>4 DEF Platform!Next

(* Goroutines end and leave a mark on the orders they owed.                *)
LEMMA Loses ==
    ASSUME UNCHANGED <<kind, published>>, NEW Lost \in SUBSET Msgs,
           \A m \in Msgs : /\ Held(m)' => Held(m)
                           /\ m \in Lost => Held(m) /\ gap'[m] # {}
                           /\ m \notin Lost => /\ gap'[m] = gap[m]
                                               /\ Held(m)' <=> Held(m)
                           /\ Done(m)' <=> Done(m)
    PROVE  Platform!Next
<1> DEFINE Live == {m \in Msgs : ~Acked(m) \/ Owed(m)}
           Excused == {m \in Msgs : m \in Orders => gap[m] # {}}
<1>0. Orders' = Orders
  BY DEF Orders
<1>1. Lost \in SUBSET Live /\ Live' \in SUBSET Live
  BY DEF Held
<1>2. Excused' = Excused \cup Lost
  BY <1>0
<1>3. {m \in Msgs : order'[m] = "success"} = {m \in Msgs : order[m] = "success"}
  BY DEF Done
<1>4. Platform!LetGo
  BY <1>0 DEF Platform!LetGo, Held
<1>5. Platform!Lose(Lost)
  BY <1>1, <1>2, <1>3, <1>4 DEF Platform!Lose
<1> QED BY <1>1, <1>5 DEF Platform!Next

-----------------------------------------------------------------------------
(* The refinement *)

(* Only the message of the delivery that moves changes for the platform.   *)
LEMMA LocalView ==
    ASSUME TypeOK, NEW d \in Deliveries, Local(d), NEW m \in Msgs
    PROVE  /\ unacked' = unacked => (Acked(m)' <=> Acked(m))
           /\ m # handler[d].msg => (Owed(m)' <=> Owed(m))
           /\ (Owes(d)' <=> Owes(d)) => (Owed(m)' <=> Owed(m))
           /\ m = handler[d].msg /\ Owes(d) => Owed(m)
           /\ m = handler[d].msg /\ Owes(d)' => Owed(m)'
<1>1. \A e \in Deliveries : handler'[e].msg = handler[e].msg
  BY DEF Local
<1>2. \A e \in Deliveries \ {d} : Owes(e)' <=> Owes(e)
  BY DEF Local, Owes, Retrying
<1>3. /\ Owed(m) <=> \E e \in Deliveries : handler[e].msg = m /\ Owes(e)
      /\ Owed(m)' <=> \E e \in Deliveries : handler'[e].msg = m /\ Owes(e)'
  BY DEF Owed, Owes
<1>4. unacked' = unacked => (Acked(m)' <=> Acked(m))
  BY <1>1 DEF Acked, TypeOK, Local
<1> QED BY <1>1, <1>2, <1>3, <1>4

LEMMA OwesChange ==
    ASSUME DeliveryInv, NEW d \in Deliveries
    PROVE  /\ Goes(d) \/ Acks(d) \/ Asks(d) => (Owes(d)' <=> Owes(d))
           /\ Decides(d) \/ Hands(d) => Owes(d)'
           /\ Forwards(d) \/ Stops(d) \/ Concludes(d) => Owes(d)
           /\ Forwards(d) /\ handler[d].out = "S" => Owes(d)'
BY DEF Goes, Decides, Hands, Forwards, Acks, Asks, Stops, Concludes, Owes,
       Retrying, Busy, DeliveryInv, DeliveryInvOf

LEMMA MoveDone ==
    ASSUME Inv, NEW d \in Deliveries, Move(d)
    PROVE  \A m \in Msgs : Done(m)' <=> Done(m)
<1>1. CASE Goes(d)
  BY <1>1 DEF Goes, Done, Inv, TypeOK
<1>2. CASE UNCHANGED order
  BY <1>2 DEF Done
<1> QED BY <1>1, <1>2 DEF Move, Decides, Hands, Forwards, Acks, Asks, Stops,
                          Concludes

(* Nothing but a publish settles an order, and nothing unsettles one.      *)
LEMMA ClosedGrows ==
    ASSUME TypeOK, NEW m \in Msgs, UNCHANGED kind
    PROVE  /\ UNCHANGED <<published, gap>> => (Closed(m) => Closed(m)')
           /\ \A o, s : ForwardCallback(o, s) => (Closed(m) => Closed(m)')
           /\ \A s \in {"F", "C"} : ForwardCallback(m, s) => Closed(m)'
           /\ \A o : UNCHANGED published
                     /\ gap' = [gap EXCEPT ![o] = @ \cup {"stopped"}]
                       => /\ Closed(m) => Closed(m)'
                          /\ o = m => Closed(m)'
<1>0. /\ published \in [Msgs -> SUBSET {"F", "C", "S"}]
      /\ gap \in [Msgs -> SUBSET {"publish", "crash", "stopped"}]
      /\ Orders' = Orders
  BY DEF TypeOK, Orders
<1>1. UNCHANGED <<published, gap>> => (Closed(m) => Closed(m)')
  BY <1>0 DEF Closed, Settled
<1>2. ASSUME NEW o, NEW s, ForwardCallback(o, s)
      PROVE  /\ Closed(m) => Closed(m)'
             /\ o = m /\ s \in {"F", "C"} => Closed(m)'
  BY <1>0, <1>2 DEF ForwardCallback, Closed, Settled
<1>3. ASSUME NEW o, UNCHANGED published,
             gap' = [gap EXCEPT ![o] = @ \cup {"stopped"}]
      PROVE  /\ Closed(m) => Closed(m)'
             /\ o = m => Closed(m)'
  BY <1>0, <1>3 DEF Closed, Settled
<1> QED BY <1>1, <1>2, <1>3

(* Before an acknowledgement comes a publish or the start of the inquiry.  *)
LEMMA AckMove ==
    ASSUME Inv, AckInv, NEW d \in Deliveries, Move(d)
    PROVE  AckInv'
<1>0. /\ TypeOK /\ DeliveryInv /\ DeliveryInvOf(d) /\ Local(d)
      /\ handler[d].out \in {"F", "C", "S"} /\ retry[d].out \in {"F", "C"}
      /\ retry[d].pc \in RetryPcs
  BY DEF Inv, DeliveryInv, TypeOK, Handlers, Retries, Move, Goes, Decides, Hands,
         Forwards, Acks, Asks, Stops, Concludes
<1>1. ASSUME NEW e \in Deliveries, handler'[e].pc = "ack"
      PROVE  handler'[e].msg = handler[e].msg /\ handler[e].msg \in Msgs
  <2>1. handler'[e].msg = handler[e].msg
    BY <1>0 DEF Local
  <2>2. handler[e].pc # "free"
    BY <1>0, <1>1 DEF Local, Move, Goes, Decides, Hands, Forwards, Acks, Asks,
                      Stops, Concludes, Busy
  <2> QED BY <1>0, <2>1, <2>2 DEF DeliveryInv, DeliveryInvOf
<1>2. ASSUME NEW m \in Msgs, Closed(m) \/ Owed(m)
      PROVE  Closed(m)' \/ Owed(m)'
  <2>0. UNCHANGED kind
    BY <1>0 DEF Local
  <2>1. Closed(m) => Closed(m)'
    BY <1>0, <2>0, ClosedGrows DEF Move, Goes, Decides, Hands, Forwards, Acks,
                                   Asks, Stops, Concludes, Silent
  <2>2. CASE Owed(m) /\ ~Owed(m)'
    <3>1. handler[d].msg = m /\ Owes(d) /\ ~Owes(d)'
      BY <1>0, <2>2, OwedOwes, LocalView, OwesChange DEF Move
    <3>2. Stops(d) \/ Concludes(d) \/ (Forwards(d) /\ handler[d].out # "S")
      BY <1>0, <3>1, OwesChange DEF Move
    <3>3. CASE Stops(d)
      BY <1>0, <2>0, <3>1, <3>3, ClosedGrows DEF Stops
    <3>4. CASE Concludes(d)
      BY <1>0, <2>0, <3>1, <3>4, ClosedGrows DEF Concludes
    <3>5. CASE Forwards(d) /\ handler[d].out # "S"
      BY <1>0, <2>0, <3>1, <3>5, ClosedGrows DEF Forwards
    <3> QED BY <3>2, <3>3, <3>4, <3>5
  <2> QED BY <1>2, <2>1, <2>2
<1> SUFFICES ASSUME NEW e \in Deliveries, NEW m, handler'[e].pc = "ack",
                    handler'[e].msg = m
             PROVE  Closed(m)' \/ Owed(m)'
  BY DEF AckInv
<1>3. handler[e].msg = m /\ m \in Msgs
  BY <1>1
<1>4. CASE handler[e].pc = "ack"
  BY <1>2, <1>3, <1>4 DEF AckInv
<1>5. CASE handler[e].pc # "ack"
  <2>1. e = d /\ (Hands(d) \/ Forwards(d))
    BY <1>0, <1>5 DEF Local, Move, Goes, Decides, Acks, Asks, Stops, Concludes, Busy
  <2>2. CASE Hands(d) \/ (Forwards(d) /\ handler[d].out = "S")
    BY <1>0, <1>3, <2>1, <2>2, OwesChange, LocalView
  <2>3. CASE Forwards(d) /\ handler[d].out # "S"
    <3>1. UNCHANGED kind /\ ForwardCallback(m, handler[d].out)
      BY <1>3, <2>1, <2>3 DEF Forwards, Local
    <3> QED BY <1>0, <1>3, <2>3, <3>1, ClosedGrows
  <2> QED BY <2>1, <2>2, <2>3
<1> QED BY <1>4, <1>5

LEMMA AckStep ==
    ASSUME Inv, AckInv, [Next]_vars
    PROVE  AckInv'
<1>0. TypeOK /\ DeliveryInv
  BY DEF Inv
<1>1. ASSUME NEW d \in Deliveries, NEW m \in Msgs, Deliver(d, m)
      PROVE  AckInv'
  <2>1. \A o : (Owed(o) => Owed(o)') /\ (Closed(o)' <=> Closed(o))
    <3>1. ~Owes(d)
      BY <1>0, <1>1, DeliverAt
         DEF Owes, Retrying, DeliveryInv, DeliveryInvOf, TypeOK, Retries, RetryPcs
    <3>2. \A e \in Deliveries \ {d} : (Owes(e)' <=> Owes(e)) /\ handler'[e] = handler[e]
      BY <1>0, <1>1, DeliverAt DEF Owes, Retrying
    <3>3. \A o : Owed(o) => Owed(o)'
      BY <3>1, <3>2 DEF Owed, Owes
    <3>4. UNCHANGED <<published, gap, kind>>
      BY <1>1 DEF Deliver
    <3> QED BY <3>3, <3>4 DEF Closed, Settled, Orders
  <2>2. handler'[d].msg = m /\ (handler'[d].pc = "ack" => Closed(m)')
    BY <1>0, <1>1, <2>1, DeliverAt DEF Closed
  <2>3. \A e \in Deliveries \ {d} : handler'[e] = handler[e]
    BY <1>0, <1>1, DeliverAt
  <2>4. ASSUME NEW e \in Deliveries, NEW o, handler'[e].pc = "ack",
               handler'[e].msg = o
        PROVE  Closed(o)' \/ Owed(o)'
    BY <2>1, <2>2, <2>3, <2>4 DEF AckInv
  <2> QED BY <2>4 DEF AckInv
<1>2. ASSUME NEW d \in Deliveries, Consume(d) \/ RetryStep(d)
      PROVE  AckInv'
  BY <1>0, <1>1, <1>2, AckMove, HandlerSteps, RetrySteps DEF Move, Consume
<1>3. CASE Restart
  BY <1>0, <1>3, RestartAt DEF AckInv, Working
<1>4. CASE UNCHANGED <<kind, handler, retry, published, gap>>
  BY <1>4 DEF AckInv, Closed, Settled, Orders, Owed, Retrying
<1> QED BY <1>2, <1>3, <1>4 DEF Next, ProviderDecides, SessionLost, Shutdown,
                                CancelConsumer, Crash, Exit, vars

LEMMA GatewayMove ==
    ASSUME Inv, AckInv, NEW d \in Deliveries, Move(d)
    PROVE  [Platform!Next]_Platform!vars
<1>0. /\ TypeOK /\ DeliveryInv /\ DeliveryInvOf(d) /\ Local(d)
      /\ handler[d].out \in {"F", "C", "S"} /\ retry[d].out \in {"F", "C"}
      /\ handler[d].pc \in HandlerPcs /\ retry[d].pc \in RetryPcs
      /\ UNCHANGED kind /\ Orders \subseteq Msgs
  BY DEF Inv, DeliveryInv, TypeOK, Handlers, Retries, Move, Goes, Decides, Hands,
         Forwards, Acks, Asks, Stops, Concludes, Local, Orders
<1>1. \A m \in Msgs : Done(m)' <=> Done(m)
  BY MoveDone
<1>2. ASSUME unacked' = unacked
      PROVE  /\ \A m \in Msgs : m # handler[d].msg => (Held(m)' <=> Held(m))
             /\ (Owes(d)' <=> Owes(d)) => \A m \in Msgs : Held(m)' <=> Held(m)
             /\ handler[d].msg \in Msgs /\ Owes(d) => Held(handler[d].msg)
             /\ \A m \in Msgs : m = handler[d].msg /\ Owes(d)' => Held(m)'
  BY <1>0, <1>2, LocalView DEF Held
<1>3. CASE Goes(d) \/ Asks(d)
  <2>1. unacked' = unacked /\ UNCHANGED <<published, gap>> /\ (Owes(d)' <=> Owes(d))
    BY <1>0, <1>3, OwesChange DEF Goes, Asks, Silent
  <2> QED BY <1>0, <1>1, <1>2, <2>1, Stutters
<1>4. CASE Decides(d) \/ Hands(d)
  <2>1. unacked' = unacked /\ UNCHANGED <<published, gap>> /\ Owes(d)'
    BY <1>0, <1>4, OwesChange DEF Decides, Hands, Silent
  <2>2. handler[d].msg \in Msgs
    BY <1>0, <1>4 DEF Decides, Hands, Busy, DeliveryInvOf
  <2>3. Platform!TakeUp(handler[d].msg)
    BY <1>0, <1>1, <1>2, <2>1, <2>2, TakesUp
  <2> QED BY <2>2, <2>3 DEF Platform!Next
<1>5. CASE Forwards(d) \/ Concludes(d)
  <2>1. PICK s \in {"F", "C", "S"} :
          /\ ForwardCallback(handler[d].msg, s)
          /\ s = "S" => Owes(d)'
          /\ s = "F" => Done(handler[d].msg)
    <3>1. CASE Forwards(d)
      BY <1>0, <3>1, OwesChange DEF Forwards, DeliveryInvOf, Done
    <3>2. CASE Concludes(d)
      BY <1>0, <3>2 DEF Concludes, DeliveryInvOf, Done
    <3> QED BY <1>5, <3>1, <3>2
  <2>2. handler[d].msg \in Orders /\ unacked' = unacked /\ Owes(d)
    BY <1>0, <1>5, OwesChange DEF Forwards, Concludes, DeliveryInvOf
  <2>3. PICK o \in Orders : o = handler[d].msg
    BY <2>2
  <2>4. Held(o) /\ (s = "S" => Held(o)')
    BY <1>0, <1>2, <2>1, <2>2, <2>3
  <2> QED BY <1>0, <1>1, <1>2, <2>1, <2>2, <2>3, <2>4, Tells
<1>6. CASE Acks(d)
  <2>1. /\ UNCHANGED <<ready, published, gap>> /\ (Owes(d)' <=> Owes(d))
        /\ unacked' = IF unacked = d THEN None ELSE unacked
        /\ handler[d].pc = "ack"
    BY <1>0, <1>6, OwesChange DEF Acks, Silent, Local
  <2>2. ASSUME NEW m \in Msgs
        PROVE  /\ Held(m)' => Held(m)
               /\ Held(m) /\ ~Held(m)' => Closed(m)
    <3>1. \A e \in Deliveries : handler'[e].msg = handler[e].msg
      BY <1>0 DEF Local
    <3>2. Owed(m)' <=> Owed(m)
      BY <1>0, <2>1, LocalView
    <3>3. /\ Acked(m) => Acked(m)'
          /\ Acked(m)' /\ ~Acked(m) => handler[d].msg = m
      BY <1>0, <2>1, <3>1 DEF Acked, TypeOK
    <3>4. handler[d].msg = m => Closed(m) \/ Owed(m)
      BY <2>1 DEF AckInv
    <3> QED BY <3>2, <3>3, <3>4 DEF Held
  <2> QED BY <1>0, <1>1, <2>1, <2>2, LetsGo
<1>7. CASE Stops(d)
  <2>1. /\ handler[d].msg \in Msgs /\ unacked' = unacked /\ Owes(d)
        /\ UNCHANGED published
        /\ gap' = [gap EXCEPT ![handler[d].msg] = @ \cup {"stopped"}]
    BY <1>0, <1>7, OwesChange DEF Stops, DeliveryInvOf, Retrying
  <2>2. PICK Lost \in SUBSET Msgs : Lost = {handler[d].msg}
    BY <2>1
  <2>3. \A m \in Msgs : /\ m \in Lost => Held(m) /\ gap'[m] # {}
                        /\ m \notin Lost => gap'[m] = gap[m]
    BY <1>0, <1>2, <2>1, <2>2 DEF TypeOK
  <2> QED BY <1>0, <1>1, <1>2, <2>1, <2>2, <2>3, Loses
<1> QED BY <1>3, <1>4, <1>5, <1>6, <1>7 DEF Move

(* Every step is a step of the abstract gateway or changes nothing there. *)
LEMMA GatewayStep ==
    ASSUME Inv, AckInv, [Next]_vars
    PROVE  [Platform!Next]_Platform!vars
<1>0. /\ TypeOK /\ DeliveryInv
      /\ unacked # None => unacked \in Deliveries
  BY DEF Inv, TypeOK
<1>1. ASSUME NEW d \in Deliveries, NEW o \in Msgs, Deliver(d, o)
      PROVE  UNCHANGED Platform!vars
  <2>1. ~Owes(d)
    BY <1>0, <1>1, DeliverAt
       DEF Owes, Retrying, DeliveryInv, DeliveryInvOf, TypeOK, Retries, RetryPcs
  <2>2. /\ handler'[d].msg = o /\ o \in ready /\ ready' = ready \ {o}
        /\ unacked = None /\ unacked' = d /\ d # None
        /\ handler[d].msg = None
        /\ UNCHANGED <<kind, retry, order, published, gap>>
        /\ \A e \in Deliveries \ {d} : handler'[e] = handler[e]
    BY <1>0, <1>1, DeliverAt, DeliveryAssumption
  <2>3. \A e \in Deliveries \ {d} : Owes(e)' <=> Owes(e)
    BY <2>2 DEF Owes, Retrying
  <2>4. ASSUME NEW m \in Msgs
        PROVE  Held(m)' <=> Held(m)
    <3>1. CASE m = o
      BY <2>2, <3>1 DEF Held, Acked
    <3>2. CASE m # o
      <4>1. Acked(m)' <=> Acked(m)
        BY <2>2, <3>2 DEF Acked
      <4>2. Owed(m)' <=> Owed(m)
        BY <2>1, <2>2, <2>3, <3>2 DEF Owed, Owes
      <4> QED BY <4>1, <4>2 DEF Held
    <3> QED BY <3>1, <3>2
  <2> QED BY <2>2, <2>4, Stutters DEF Done
<1>2. ASSUME NEW d \in Deliveries, Consume(d) \/ RetryStep(d)
      PROVE  [Platform!Next]_Platform!vars
  BY <1>0, <1>1, <1>2, GatewayMove, HandlerSteps, RetrySteps DEF Move, Consume
<1>3. ASSUME NEW o \in Msgs, ProviderDecides(o)
      PROVE  [Platform!Next]_Platform!vars
  <2>1. /\ UNCHANGED <<kind, ready, unacked, handler, retry, published, gap>>
        /\ order[o] # "success"
        /\ \A m \in Msgs \ {o} : order'[m] = order[m]
    BY <1>0, <1>3 DEF ProviderDecides, TypeOK
  <2>2. \A m \in Msgs : (Acked(m)' <=> Acked(m)) /\ (Owed(m)' <=> Owed(m))
    BY <2>1 DEF Acked, Owed, Retrying
  <2>3. CASE order'[o] = "success"
    <3>1. {m \in Msgs : order'[m] = "success"}
            = {m \in Msgs : order[m] = "success"} \cup {o}
      BY <2>1, <2>3
    <3>2. Orders' = Orders
      BY <2>1 DEF Orders
    <3>3. Platform!Complete(o)
      BY <2>1, <2>2, <3>1, <3>2 DEF Platform!Complete
    <3> QED BY <3>3 DEF Platform!Next
  <2>4. CASE order'[o] # "success"
    <3>1. \A m \in Msgs : Done(m)' <=> Done(m)
      BY <2>1, <2>4 DEF Done
    <3> QED BY <2>1, <2>2, <3>1, Stutters DEF Held
  <2> QED BY <2>3, <2>4
<1>4. ASSUME ready' = Requeued, unacked' = None, NEW m \in Msgs,
             \A d \in Deliveries : handler'[d].msg = handler[d].msg
      PROVE  Acked(m)' <=> Acked(m)
  BY <1>0, <1>4 DEF Acked, Requeued
<1>5. CASE SessionLost
  <2>1. /\ ready' = Requeued /\ unacked' = None
        /\ UNCHANGED <<kind, handler, retry, order, published, gap>>
    BY <1>5 DEF SessionLost
  <2>2. \A m \in Msgs : /\ Held(m)' <=> Held(m)
                        /\ Done(m)' <=> Done(m)
    BY <1>4, <2>1 DEF Held, Owed, Retrying, Done
  <2> QED BY <2>1, <2>2, Stutters
<1>6. CASE Restart
  <2>1. /\ ready' = Requeued /\ unacked' = None
        /\ UNCHANGED <<kind, order, published>>
        /\ \A m \in Msgs : gap'[m] = gap[m] \cup IF Owed(m) THEN {"crash"} ELSE {}
    BY <1>6 DEF Restart
  <2>2. \A d \in Deliveries : /\ handler'[d].msg = handler[d].msg
                              /\ ~Owes(d)'
    BY <1>0, <1>6, RestartAt DEF Owes, Retrying, Working
  <2>3. \A m \in Msgs : (Acked(m)' <=> Acked(m)) /\ ~Owed(m)'
    BY <1>4, <2>1, <2>2 DEF Owed, Owes
  <2>4. PICK Lost \in SUBSET Msgs : Lost = {m \in Msgs : Owed(m)}
    OBVIOUS
  <2>5. \A m \in Msgs : /\ Held(m)' => Held(m)
                        /\ m \in Lost => Held(m) /\ gap'[m] # {}
                        /\ m \notin Lost => gap'[m] = gap[m] /\ (Held(m)' <=> Held(m))
                        /\ Done(m)' <=> Done(m)
    BY <2>1, <2>3, <2>4 DEF Held, Done
  <2> QED BY <2>1, <2>5, Loses
<1>7. CASE UNCHANGED <<kind, ready, unacked, handler, retry, order, published, gap>>
  BY <1>7, Stutters DEF Held, Done, Acked, Owed, Retrying
<1> QED BY <1>2, <1>3, <1>5, <1>6, <1>7
        DEF Next, Shutdown, CancelConsumer, Crash, Exit, vars

LEMMA GatewayInit ==
    ASSUME Init
    PROVE  AckInv /\ Platform!Init
<1>1. AckInv
  BY DEF Init, AckInv
<1>2. \A m \in Msgs : order[m] = "none" /\ published[m] = {}
  BY DEF Init
<1>3. published = [m \in Msgs |-> {}]
  BY DEF Init
<1>4. Platform!Init
  BY <1>2, <1>3 DEF Platform!Init
<1> QED BY <1>1, <1>4

(* The gateway keeps its promise to the platform in every behaviour: F is  *)
(* only told of an order UniPin completed, and an order is let go of only  *)
(* after a final status was told, or lost in an admitted way at that step. *)
THEOREM GatewayImplemented == Spec => ImplementsGateway
<1>1. Init => AckInv /\ Platform!Init
  BY GatewayInit
<1>2. Inv /\ AckInv /\ [Next]_vars => AckInv'
  BY AckStep
<1>3. Inv /\ AckInv /\ [Next]_vars => [Platform!Next]_Platform!vars
  BY GatewayStep
<1>4. Spec => []AckInv
  BY <1>1, <1>2, InvCorrect, PTL DEF Spec
<1> QED BY <1>1, <1>3, <1>4, InvCorrect, PTL
        DEF Spec, ImplementsGateway, Platform!Spec

=============================================================================
