-------------------------- MODULE SmbGatewayProofs ---------------------------
(***************************************************************************)
(* For all sets of messages and deliveries and all bounds: SmbGateway      *)
(* keeps its types, never works on one message in two goroutines, and      *)
(* implements OrderGateway.                                                *)
(***************************************************************************)
EXTENDS SmbGateway, TLAPS

(* A delivery's records agree: a payment is only sent for an order, and    *)
(* under a new RefID; advice is asked for once the consumer is through     *)
(* with the payment, and no more often than configured; whoever is about   *)
(* to report a success knows of a completed payment.                       *)
DeliveryInvOf(d) ==
    /\ handler[d].pc = "free" => handler[d].msg = None
    /\ handler[d].pc # "free" => handler[d].msg \in Msgs
    /\ handler[d].pc \in {"insert", "inquiry", "payment", "reply", "mark",
                          "publish"} => handler[d].msg \in Orders
    /\ handler[d].pc \in {"free", "insert", "inquiry", "payment"}
         => order[d] = "none"
    /\ order[d] # "none" => handler[d].msg \in Orders
    /\ advice[d].pc # "none" => /\ handler[d].msg \in Orders
                                /\ handler[d].pc \in {"ack", "done", "dead"}
    /\ advice[d].pc \in {"none", "wait", "query"}
         => advice[d].attempt < MaxAttempts
    /\ handler[d].pc \in {"mark", "publish"} /\ handler[d].out = "F"
         => order[d] = "success"
    /\ advice[d].pc \in {"mark", "publish"} /\ advice[d].out = "F"
         => order[d] = "success"

DeliveryInv == \A d \in Deliveries : DeliveryInvOf(d)

(* While the session is up its loop works on the unacknowledged delivery   *)
(* and nothing else; a closed session works on one delivery to its end.    *)
LoopInv ==
    /\ unacked # None => /\ session = "up"
                         /\ Working(unacked)
                         /\ handler[unacked].msg \notin ready
    /\ \A d \in Deliveries : session = "up" /\ Working(d) => unacked = d
    /\ \A d, e \in Deliveries : Working(d) /\ Working(e) => d = e

(* While the session is up, no message that advice is asked about can be   *)
(* delivered: a lost session is drained before the next one.               *)
AdviceInv ==
    session = "up" => \A d \in Deliveries : Advising(d) =>
        /\ handler[d].msg \notin ready
        /\ unacked \notin {None, d} => handler[unacked].msg # handler[d].msg

WorkInv == LoopInv /\ AdviceInv /\ OneWorker

Inv == TypeOK /\ DeliveryInv /\ WorkInv

(* An order about to be acknowledged was settled or lost, or is owed.      *)
Closed(m) == Settled(m) \/ gap[m] # {}
AckInv == \A d \in Deliveries :
             handler[d].pc = "ack" /\ handler[d].msg \in Orders
               => Closed(handler[d].msg) \/ Owed(handler[d].msg)

-----------------------------------------------------------------------------
(* Type correctness *)

(* Every assignment to a delivery's records leaves records of their types. *)
LEMMA HandlerFacts ==
    ASSUME TypeOK, NEW d \in Deliveries, NEW pc \in HandlerPcs
    PROVE  /\ Goto(d, pc) => handler' \in [Deliveries -> Handlers]
           /\ Finished(handler[d], pc) \in Handlers
           /\ \A out \in {"F", "C", "S"} :
                Decide(d, out) => handler' \in [Deliveries -> Handlers]
           /\ \A m \in Msgs : [handler[d] EXCEPT !.msg = m, !.pc = pc] \in Handlers
<1>1. handler \in [Deliveries -> Handlers] /\ handler[d] \in Handlers
  BY DEF TypeOK
<1>2. [handler[d] EXCEPT !.pc = pc] \in Handlers
  BY <1>1 DEF Handlers
<1>3. Finished(handler[d], pc) \in Handlers
  BY <1>1 DEF Handlers, Finished
<1>4. \A out \in {"F", "C", "S"} :
        [handler[d] EXCEPT !.pc = "mark", !.out = out] \in Handlers
  BY <1>1 DEF Handlers, HandlerPcs
<1>5. \A m \in Msgs : [handler[d] EXCEPT !.msg = m, !.pc = pc] \in Handlers
  BY <1>1 DEF Handlers
<1> QED BY <1>1, <1>2, <1>3, <1>4, <1>5 DEF Goto, Decide

LEMMA AdviceFacts ==
    ASSUME TypeOK, NEW d \in Deliveries, NEW pc \in AdvicePcs
    PROVE  /\ [advice EXCEPT ![d].pc = pc] \in [Deliveries -> Advices]
           /\ Finished(advice[d], pc) \in Advices
           /\ \A out \in {"F", "C"} :
                Conclude(d, out) => advice' \in [Deliveries -> Advices]
<1>1. advice \in [Deliveries -> Advices] /\ advice[d] \in Advices
  BY DEF TypeOK
<1>2. [advice[d] EXCEPT !.pc = pc] \in Advices
  BY <1>1 DEF Advices
<1>3. Finished(advice[d], pc) \in Advices
  BY <1>1 DEF Advices, Finished
<1>4. \A out \in {"F", "C"} :
        [advice[d] EXCEPT !.pc = "mark", !.out = out] \in Advices
  BY <1>1 DEF Advices, AdvicePcs
<1> QED BY <1>1, <1>2, <1>3, <1>4 DEF Conclude

(* What an answer of SMB makes of an order. *)
LEMMA CodeFacts ==
    ASSUME NEW code
    PROVE  /\ code = "00" => StatusToBeFromRC(ResolveRCPPS(code)) = "F"
           /\ code # "00" => StatusToBeFromRC(ResolveRCPPS(code)) \in {"C", "S"}
<1>1. /\ code = "00" => ResolveRCPPS(code) = 0
      /\ code # "00" => ResolveRCPPS(code) \in {1, 9}
  BY Zenon DEF ResolveRCPPS
<1>2. /\ StatusToBeFromRC(0) = "F"
      /\ StatusToBeFromRC(1) = "C"
      /\ StatusToBeFromRC(9) = "S"
  BY SMT DEF StatusToBeFromRC
<1> QED BY <1>1, <1>2

LEMMA OutcomeFacts ==
    ASSUME NEW d, NEW code \in Answers(PaymentCodes(d))
    PROVE  /\ PaymentOutcome(code) \in {"F", "C", "S"}
           /\ PaymentOutcome(code) = "F" => order[d] = "success"
<1>1. code = "00" => order[d] = "success"
  BY DEF Answers, PaymentCodes
<1> QED BY <1>1, CodeFacts DEF PaymentOutcome

LEMMA InquiryOutcome ==
    ASSUME NEW d \in Deliveries, Inquiry(d)
    PROVE  Goto(d, "payment") \/ Decide(d, "C") \/ Decide(d, "S")
<1>1. PICK code \in Answers(Codes \cup {"err"}) :
         CASE code = "00"  -> Goto(d, "payment")
           [] code = "err" -> Decide(d, "C")
           [] OTHER        -> Decide(d, StatusToBeFromRC(ResolveRCPPS(code)))
  BY DEF Inquiry
<1>2. code \notin {"00", "err"} =>
        StatusToBeFromRC(ResolveRCPPS(code)) \in {"C", "S"}
  BY CodeFacts
<1> QED BY <1>1, <1>2

LEMMA StatusUpdate ==
    ASSUME TypeOK, NEW m, NEW out, LogUpdateStatus(m, StatusOf(out))
    PROVE  row' \in [Msgs -> Statuses] /\ faults' \in Nat
BY DEF TypeOK, LogUpdateStatus, StatusOf, Statuses, Swallowed

LEMMA PublishUpdate ==
    ASSUME TypeOK, NEW m, NEW s \in {"F", "C", "S"}, PublishToDownstream(m, s)
    PROVE  /\ published' \in [Msgs -> SUBSET {"F", "C", "S"}]
           /\ gap' \in [Msgs -> SUBSET {"publish", "crash", "inquiry"}]
           /\ faults' \in Nat
BY DEF TypeOK, PublishToDownstream, Swallowed

LEMMA RequeuedType ==
    ASSUME TypeOK, DeliveryInv, LoopInv
    PROVE  Requeued \subseteq Msgs
BY DEF TypeOK, DeliveryInv, DeliveryInvOf, LoopInv, Requeued, Working

LEMMA RestartType ==
    ASSUME TypeOK, DeliveryInv, LoopInv, Restart, losses' \in Nat
    PROVE  TypeOK'
<1>1. ready' \subseteq Msgs
  BY RequeuedType DEF Restart
<1>2. handler' \in [Deliveries -> Handlers]
  <2>1. \A d \in Deliveries : Finished(handler[d], "dead") \in Handlers
    BY HandlerFacts DEF HandlerPcs
  <2> QED BY <2>1 DEF Restart, TypeOK
<1>3. advice' \in [Deliveries -> Advices]
  <2>1. \A d \in Deliveries : Finished(advice[d], "dead") \in Advices
    BY AdviceFacts DEF AdvicePcs
  <2> QED BY <2>1 DEF Restart, TypeOK
<1>4. gap' \in [Msgs -> SUBSET {"publish", "crash", "inquiry"}]
  BY DEF Restart, TypeOK
<1> QED BY <1>1, <1>2, <1>3, <1>4 DEF Restart, TypeOK

LEMMA TypeStep ==
    ASSUME TypeOK, DeliveryInv, LoopInv, [Next]_vars
    PROVE  TypeOK'
<1> USE DEF TypeOK
<1>1. ASSUME NEW d \in Deliveries, NEW m \in Msgs, Deliver(d, m)
      PROVE  TypeOK'
  <2>1. handler' \in [Deliveries -> Handlers]
    BY <1>1, HandlerFacts DEF Deliver, HandlerPcs
  <2> QED BY <1>1, <2>1 DEF Deliver
<1>2. ASSUME NEW d \in Deliveries, InsertTransaction(d)
      PROVE  TypeOK'
  <2>1. handler' \in [Deliveries -> Handlers]
    BY <1>2, HandlerFacts DEF InsertTransaction, HandlerPcs
  <2>2. row' \in [Msgs -> Statuses] /\ faults' \in Nat
    BY <1>2 DEF InsertTransaction, Statuses, Swallowed
  <2> QED BY <1>2, <2>1, <2>2 DEF InsertTransaction
<1>3. ASSUME NEW d \in Deliveries, Inquiry(d)
      PROVE  TypeOK'
  <2>1. handler' \in [Deliveries -> Handlers]
    BY <1>3, InquiryOutcome, HandlerFacts DEF HandlerPcs
  <2> QED BY <1>3, <2>1 DEF Inquiry
<1>4. ASSUME NEW d \in Deliveries, PostPayment(d)
      PROVE  TypeOK'
  <2>1. handler' \in [Deliveries -> Handlers]
    BY <1>4, HandlerFacts DEF PostPayment, HandlerPcs
  <2> QED BY <1>4, <2>1 DEF PostPayment, OrderStates
<1>5. ASSUME NEW d \in Deliveries, HandleReply(d)
      PROVE  TypeOK'
  <2>1. handler' \in [Deliveries -> Handlers]
    BY <1>5, OutcomeFacts, HandlerFacts DEF HandleReply, HandlerPcs
  <2>2. advice' \in [Deliveries -> Advices]
    <3>1. StartAdvice(d) \/ UNCHANGED advice
      BY <1>5 DEF HandleReply
    <3>2. [advice EXCEPT ![d].pc = "wait"] \in [Deliveries -> Advices]
      BY AdviceFacts DEF AdvicePcs
    <3> QED BY <3>1, <3>2 DEF StartAdvice
  <2> QED BY <1>5, <2>1, <2>2 DEF HandleReply
<1>6. ASSUME NEW d \in Deliveries, LogStatus(d)
      PROVE  TypeOK'
  <2>1. handler' \in [Deliveries -> Handlers]
    BY <1>6, HandlerFacts DEF LogStatus, HandlerPcs
  <2> QED BY <1>6, <2>1, StatusUpdate DEF LogStatus
<1>7. ASSUME NEW d \in Deliveries, Publish(d)
      PROVE  TypeOK'
  <2>1. handler' \in [Deliveries -> Handlers]
    BY <1>7, HandlerFacts DEF Publish, HandlerPcs
  <2>2. handler[d].out \in {"F", "C", "S"}
    BY DEF Handlers
  <2> QED BY <1>7, <2>1, <2>2, PublishUpdate DEF Publish
<1>8. ASSUME NEW d \in Deliveries, Ack(d)
      PROVE  TypeOK'
  <2>1. handler' \in [Deliveries -> Handlers]
    BY <1>8, HandlerFacts DEF Ack, HandlerPcs
  <2> QED BY <1>8, <2>1 DEF Ack
<1>9. ASSUME NEW d \in Deliveries, AdviceStep(d)
      PROVE  TypeOK'
  <2>1. CASE AdviceWait(d)
    BY <2>1, AdviceFacts DEF AdviceWait, AdvicePcs
  <2>2. CASE AdviceCancelled(d)
    BY <2>2, AdviceFacts DEF AdviceCancelled, AdvicePcs
  <2>3. CASE AdviceQuery(d)
    <3>1. PICK code \in Answers(PaymentCodes(d)) :
            LET out == PaymentOutcome(code)  attempt == advice[d].attempt + 1 IN
            IF out # "S" THEN Conclude(d, out)
            ELSE advice' = [advice EXCEPT ![d] =
                   [pc |-> IF LastAttempt(attempt) THEN "mark" ELSE "wait",
                    attempt |-> attempt, out |-> "C"]]
      BY <2>3 DEF AdviceQuery
    <3>2. advice[d].attempt + 1 \in 0..MaxAttempts
      BY <2>3, AttemptAssumption DEF AdviceQuery, DeliveryInv, DeliveryInvOf, Advices
    <3>3. advice' \in [Deliveries -> Advices]
      <4>1. \A pc \in {"mark", "wait"} :
              [pc |-> pc, attempt |-> advice[d].attempt + 1, out |-> "C"] \in Advices
        BY <3>2 DEF Advices, AdvicePcs
      <4>2. CASE PaymentOutcome(code) # "S"
        BY <3>1, <4>2, OutcomeFacts, AdviceFacts DEF AdvicePcs
      <4>3. CASE PaymentOutcome(code) = "S"
        BY <3>1, <4>1, <4>3
      <4> QED BY <4>2, <4>3
    <3> QED BY <2>3, <3>3 DEF AdviceQuery
  <2>4. CASE AdviceLog(d)
    <3>1. advice' \in [Deliveries -> Advices]
      BY <2>4, AdviceFacts DEF AdviceLog, AdvicePcs
    <3> QED BY <2>4, <3>1, StatusUpdate DEF AdviceLog
  <2>5. CASE AdvicePublish(d)
    <3>1. advice' \in [Deliveries -> Advices]
      BY <2>5, AdviceFacts DEF AdvicePublish, AdvicePcs
    <3>2. advice[d].out \in {"F", "C", "S"}
      BY DEF Advices
    <3> QED BY <2>5, <3>1, <3>2, PublishUpdate DEF AdvicePublish
  <2> QED BY <1>9, <2>1, <2>2, <2>3, <2>4, <2>5 DEF AdviceStep
<1>10. ASSUME NEW d \in Deliveries, ProviderDecides(d)
       PROVE  TypeOK'
  BY <1>10 DEF ProviderDecides, OrderStates
<1>11. CASE Session
  <2>1. CASE Exit
    <3>1. losses' \in Nat
      BY <2>1 DEF Exit
    <3> QED BY <2>1, <3>1, RestartType DEF Exit
  <2> QED BY <1>11, <2>1 DEF Session, Reconnect, StopConsuming
<1>12. CASE SessionLost \/ Shutdown
  <2>1. Requeued \subseteq Msgs
    BY RequeuedType
  <2>2. losses' \in Nat
    BY <1>12 DEF SessionLost, Shutdown
  <2> QED BY <1>12, <2>1, <2>2 DEF SessionLost, Shutdown
<1>13. CASE Crash
  <2>1. losses' \in Nat
    BY <1>13 DEF Crash
  <2> QED BY <1>13, <2>1, RestartType DEF Crash
<1>14. CASE UNCHANGED vars
  BY <1>14 DEF vars
<1> QED BY <1>1, <1>2, <1>3, <1>4, <1>5, <1>6, <1>7, <1>8, <1>9, <1>10, <1>11,
           <1>12, <1>13, <1>14 DEF Next, Consume

-----------------------------------------------------------------------------
(* The steps of one delivery *)

LEMMA OthersKeep ==
    ASSUME DeliveryInv, NEW d \in Deliveries, DeliveryInvOf(d)',
           \A e \in Deliveries \ {d} : /\ handler'[e] = handler[e]
                                       /\ advice'[e] = advice[e]
                                       /\ order'[e] = order[e]
    PROVE  DeliveryInv'
BY DEF DeliveryInv, DeliveryInvOf

LEMMA DeliveryStep ==
    ASSUME TypeOK, DeliveryInv, NEW d \in Deliveries,
           Consume(d) \/ AdviceStep(d) \/ ProviderDecides(d)
    PROVE  DeliveryInv'
<1>0. /\ DeliveryInvOf(d)
      /\ handler \in [Deliveries -> Handlers]
      /\ advice \in [Deliveries -> Advices]
      /\ order \in [Deliveries -> OrderStates]
  BY DEF DeliveryInv, TypeOK
<1>1. ASSUME NEW m \in Msgs, Deliver(d, m)
      PROVE  DeliveryInv'
  <2>1. handler' = [handler EXCEPT ![d] =
                     [@ EXCEPT !.msg = m,
                               !.pc = IF m \in Junk THEN "ack" ELSE "insert"]]
    BY <1>1 DEF Deliver
  <2>2. /\ handler'[d].msg = m
        /\ handler'[d].pc = IF m \in Junk THEN "ack" ELSE "insert"
    BY <1>0, <2>1 DEF Handlers
  <2>3. DeliveryInvOf(d)'
    BY <1>0, <1>1, <2>2, KindAssumption DEF DeliveryInvOf, Deliver, Msgs
  <2> QED BY <1>0, <1>1, <2>3, OthersKeep DEF Deliver
<1>2. CASE InsertTransaction(d)
  <2>1. DeliveryInvOf(d)'
    BY <1>0, <1>2 DEF DeliveryInvOf, InsertTransaction, Goto, Handlers
  <2> QED BY <1>0, <1>2, <2>1, OthersKeep DEF InsertTransaction, Goto
<1>3. CASE Inquiry(d)
  <2>1. Goto(d, "payment") \/ Decide(d, "C") \/ Decide(d, "S")
    BY <1>3, InquiryOutcome
  <2>2. DeliveryInvOf(d)'
    <3>1. CASE Goto(d, "payment")
      BY <1>0, <1>3, <3>1 DEF DeliveryInvOf, Inquiry, Goto, Handlers
    <3>2. CASE Decide(d, "C")
      BY <1>0, <1>3, <3>2 DEF DeliveryInvOf, Inquiry, Decide, Handlers
    <3>3. CASE Decide(d, "S")
      BY <1>0, <1>3, <3>3 DEF DeliveryInvOf, Inquiry, Decide, Handlers
    <3> QED BY <2>1, <3>1, <3>2, <3>3
  <2> QED BY <1>0, <1>3, <2>1, <2>2, OthersKeep DEF Inquiry, Goto, Decide
<1>4. CASE PostPayment(d)
  <2>1. DeliveryInvOf(d)'
    BY <1>0, <1>4 DEF DeliveryInvOf, PostPayment, Goto, Handlers
  <2> QED BY <1>0, <1>4, <2>1, OthersKeep DEF PostPayment, Goto
<1>5. CASE HandleReply(d)
  <2>1. \/ Goto(d, "ack") /\ StartAdvice(d)
        \/ /\ \E out \in {"F", "C"} : /\ Decide(d, out)
                                      /\ out = "F" => order[d] = "success"
           /\ UNCHANGED advice
    BY <1>5, OutcomeFacts DEF HandleReply
  <2>2. DeliveryInvOf(d)'
    <3>1. CASE Goto(d, "ack") /\ StartAdvice(d)
      BY <1>0, <1>5, <3>1 DEF DeliveryInvOf, HandleReply, Goto, StartAdvice,
                              Handlers, Advices
    <3>2. ASSUME NEW out \in {"F", "C"}, Decide(d, out),
                 out = "F" => order[d] = "success", UNCHANGED advice
          PROVE  DeliveryInvOf(d)'
      BY <1>0, <1>5, <3>2 DEF DeliveryInvOf, HandleReply, Decide, Handlers
    <3> QED BY <2>1, <3>1, <3>2
  <2> QED BY <1>0, <1>5, <2>1, <2>2, OthersKeep
          DEF HandleReply, Goto, Decide, StartAdvice
<1>6. CASE LogStatus(d)
  <2>1. DeliveryInvOf(d)'
    BY <1>0, <1>6 DEF DeliveryInvOf, LogStatus, Goto, Handlers
  <2> QED BY <1>0, <1>6, <2>1, OthersKeep DEF LogStatus, Goto
<1>7. CASE Publish(d)
  <2>1. DeliveryInvOf(d)'
    BY <1>0, <1>7 DEF DeliveryInvOf, Publish, Goto, Handlers
  <2> QED BY <1>0, <1>7, <2>1, OthersKeep DEF Publish, Goto
<1>8. CASE Ack(d)
  <2>1. DeliveryInvOf(d)'
    BY <1>0, <1>8 DEF DeliveryInvOf, Ack, Finished, Handlers
  <2> QED BY <1>0, <1>8, <2>1, OthersKeep DEF Ack
<1>9. CASE AdviceStep(d)
  <2>1. CASE AdviceWait(d)
    <3>1. DeliveryInvOf(d)'
      BY <1>0, <2>1 DEF DeliveryInvOf, AdviceWait, Advices
    <3> QED BY <1>0, <2>1, <3>1, OthersKeep DEF AdviceWait
  <2>2. CASE AdviceCancelled(d)
    <3>1. DeliveryInvOf(d)'
      BY <1>0, <2>2 DEF DeliveryInvOf, AdviceCancelled, Conclude, Advices
    <3> QED BY <1>0, <2>2, <3>1, OthersKeep DEF AdviceCancelled, Conclude
  <2>3. CASE AdviceQuery(d)
    <3>1. \/ \E out \in {"F", "C"} : /\ Conclude(d, out)
                                     /\ out = "F" => order[d] = "success"
          \/ \E pc \in {"mark", "wait"} :
               /\ advice' = [advice EXCEPT ![d] =
                    [pc |-> pc, attempt |-> advice[d].attempt + 1, out |-> "C"]]
               /\ pc = "wait" => advice[d].attempt + 1 # MaxAttempts
      BY <2>3, OutcomeFacts DEF AdviceQuery, LastAttempt
    <3>2. advice[d].attempt < MaxAttempts /\ advice[d].attempt \in Nat
      BY <1>0, <2>3 DEF AdviceQuery, DeliveryInvOf, Advices
    <3>3. DeliveryInvOf(d)'
      <4>1. ASSUME NEW out \in {"F", "C"}, Conclude(d, out),
                   out = "F" => order[d] = "success"
            PROVE  DeliveryInvOf(d)'
        BY <1>0, <2>3, <4>1 DEF DeliveryInvOf, AdviceQuery, Conclude, Advices
      <4>2. ASSUME NEW pc \in {"mark", "wait"},
                   advice' = [advice EXCEPT ![d] =
                     [pc |-> pc, attempt |-> advice[d].attempt + 1, out |-> "C"]],
                   pc = "wait" => advice[d].attempt + 1 # MaxAttempts
            PROVE  DeliveryInvOf(d)'
        BY <1>0, <2>3, <3>2, <4>2, AttemptAssumption DEF DeliveryInvOf, AdviceQuery
      <4> QED BY <3>1, <4>1, <4>2
    <3> QED BY <1>0, <2>3, <3>1, <3>3, OthersKeep DEF AdviceQuery, Conclude
  <2>4. CASE AdviceLog(d)
    <3>1. DeliveryInvOf(d)'
      BY <1>0, <2>4 DEF DeliveryInvOf, AdviceLog, Advices
    <3> QED BY <1>0, <2>4, <3>1, OthersKeep DEF AdviceLog
  <2>5. CASE AdvicePublish(d)
    <3>1. DeliveryInvOf(d)'
      BY <1>0, <2>5 DEF DeliveryInvOf, AdvicePublish, Finished, Advices
    <3> QED BY <1>0, <2>5, <3>1, OthersKeep DEF AdvicePublish
  <2> QED BY <1>9, <2>1, <2>2, <2>3, <2>4, <2>5 DEF AdviceStep
<1>10. CASE ProviderDecides(d)
  <2>1. DeliveryInvOf(d)'
    BY <1>0, <1>10 DEF DeliveryInvOf, ProviderDecides
  <2> QED BY <1>0, <1>10, <2>1, OthersKeep DEF ProviderDecides
<1> QED BY <1>1, <1>2, <1>3, <1>4, <1>5, <1>6, <1>7, <1>8, <1>9, <1>10
        DEF Consume

LEMMA RestartDelivery ==
    ASSUME TypeOK, DeliveryInv, Restart
    PROVE  DeliveryInv'
<1> SUFFICES ASSUME NEW d \in Deliveries PROVE DeliveryInvOf(d)'
  BY DEF DeliveryInv
<1>1. /\ DeliveryInvOf(d)
      /\ handler[d] \in Handlers
      /\ advice[d] \in Advices
  BY DEF DeliveryInv, TypeOK
<1>2. /\ handler'[d] = IF Working(d) THEN Finished(handler[d], "dead")
                                     ELSE handler[d]
      /\ advice'[d] = IF Advising(d) THEN Finished(advice[d], "dead")
                                     ELSE advice[d]
      /\ order'[d] = order[d]
  BY DEF Restart
<1>3. /\ handler'[d].msg = handler[d].msg
      /\ handler'[d].pc = IF Working(d) THEN "dead" ELSE handler[d].pc
      /\ handler'[d].pc \in HandlerPcs
  BY <1>1, <1>2 DEF Handlers, Finished, HandlerPcs
<1>4. /\ advice'[d].pc = IF Advising(d) THEN "dead" ELSE advice[d].pc
      /\ advice'[d].attempt = advice[d].attempt
      /\ advice'[d].pc \in AdvicePcs
  BY <1>1, <1>2 DEF Advices, Finished, AdvicePcs
<1> QED BY <1>1, <1>2, <1>3, <1>4 DEF DeliveryInvOf, Working, Advising

-----------------------------------------------------------------------------
(* One worker per message *)

(* The handler of d goes on with the message it has. *)
Moves(d) ==
    /\ Working(d) /\ Working(d)'
    /\ handler'[d].msg = handler[d].msg
    /\ \A e \in Deliveries \ {d} : /\ handler'[e] = handler[e]
                                   /\ advice'[e] = advice[e]

LEMMA HandlerMoves ==
    ASSUME TypeOK, NEW d \in Deliveries, Consume(d), ~Ack(d),
           \A m \in Msgs : ~Deliver(d, m)
    PROVE  Moves(d) /\ UNCHANGED <<ready, unacked, session>>
<1> USE DEF Moves, Working
<1>0. /\ handler \in [Deliveries -> Handlers]
      /\ advice \in [Deliveries -> Advices]
  BY DEF TypeOK
<1>1. CASE InsertTransaction(d)
  BY <1>0, <1>1 DEF InsertTransaction, Goto, Handlers
<1>2. CASE Inquiry(d)
  <2>1. Goto(d, "payment") \/ Decide(d, "C") \/ Decide(d, "S")
    BY <1>2, InquiryOutcome
  <2>2. /\ handler'[d].msg = handler[d].msg
        /\ handler'[d].pc \in {"payment", "mark"}
        /\ \A e \in Deliveries \ {d} : handler'[e] = handler[e]
    <3>1. CASE Goto(d, "payment")
      BY <1>0, <3>1 DEF Goto, Handlers
    <3>2. ASSUME NEW out \in {"C", "S"}, Decide(d, out)
          PROVE  /\ handler'[d].msg = handler[d].msg
                 /\ handler'[d].pc = "mark"
                 /\ \A e \in Deliveries \ {d} : handler'[e] = handler[e]
      BY <1>0, <3>2 DEF Decide, Handlers
    <3> QED BY <2>1, <3>1, <3>2
  <2> QED BY <1>2, <2>2 DEF Inquiry
<1>3. CASE PostPayment(d)
  BY <1>0, <1>3 DEF PostPayment, Goto, Handlers
<1>4. CASE HandleReply(d)
  <2>1. \/ Goto(d, "ack") /\ StartAdvice(d)
        \/ (\E out \in {"F", "C"} : Decide(d, out)) /\ UNCHANGED advice
    BY <1>4, OutcomeFacts DEF HandleReply
  <2>2. /\ handler'[d].msg = handler[d].msg
        /\ handler'[d].pc \in {"ack", "mark"}
        /\ \A e \in Deliveries \ {d} : handler'[e] = handler[e]
    <3>1. CASE Goto(d, "ack")
      BY <1>0, <3>1 DEF Goto, Handlers
    <3>2. ASSUME NEW out \in {"F", "C"}, Decide(d, out)
          PROVE  /\ handler'[d].msg = handler[d].msg
                 /\ handler'[d].pc = "mark"
                 /\ \A e \in Deliveries \ {d} : handler'[e] = handler[e]
      BY <1>0, <3>2 DEF Decide, Handlers
    <3> QED BY <2>1, <3>1, <3>2
  <2>3. \A e \in Deliveries \ {d} : advice'[e] = advice[e]
    BY <1>0, <2>1 DEF StartAdvice
  <2> QED BY <1>4, <2>2, <2>3 DEF HandleReply
<1>5. CASE LogStatus(d)
  BY <1>0, <1>5 DEF LogStatus, Goto, Handlers
<1>6. CASE Publish(d)
  BY <1>0, <1>6 DEF Publish, Goto, Handlers
<1> QED BY <1>1, <1>2, <1>3, <1>4, <1>5, <1>6 DEF Consume

LEMMA MoveKeeps ==
    ASSUME TypeOK, WorkInv, NEW d \in Deliveries, Moves(d),
           UNCHANGED <<ready, unacked, session>>
    PROVE  WorkInv'
<1> USE DEF WorkInv, Moves
<1>1. /\ \A e \in Deliveries : handler'[e].msg = handler[e].msg
      /\ \A e \in Deliveries : Working(e)' <=> Working(e)
      /\ \A e \in Deliveries \ {d} : Advising(e)' <=> Advising(e)
  BY DEF Working, Advising
<1>2. unacked # None => unacked \in Deliveries
  BY DEF TypeOK
<1>3. LoopInv'
  BY <1>1, <1>2 DEF LoopInv
<1>4. AdviceInv'
  <2>1. session = "up" => unacked = d /\ d # None /\ handler[d].msg \notin ready
    BY DeliveryAssumption DEF LoopInv
  <2> QED BY <1>1, <2>1 DEF AdviceInv
<1>5. OneWorker'
  BY <1>1 DEF OneWorker
<1> QED BY <1>3, <1>4, <1>5

(* A goroutine that asks for advice goes on or ends. *)
LEMMA AdviceKeeps ==
    ASSUME WorkInv, UNCHANGED <<handler, ready, unacked, session>>,
           \A e \in Deliveries : Advising(e)' => Advising(e)
    PROVE  WorkInv'
BY DEF WorkInv, LoopInv, AdviceInv, OneWorker, Working

LEMMA AdviceMoves ==
    ASSUME TypeOK, NEW d \in Deliveries, AdviceStep(d)
    PROVE  /\ UNCHANGED <<handler, ready, unacked, session, order>>
           /\ \A e \in Deliveries : Advising(e)' => Advising(e)
<1>1. Advising(d)
  BY DEF AdviceStep, AdviceWait, AdviceCancelled, AdviceQuery, AdviceLog,
         AdvicePublish, Advising
<1>2. \A e \in Deliveries \ {d} : advice'[e] = advice[e]
  BY DEF TypeOK, AdviceStep, AdviceWait, AdviceCancelled, AdviceQuery, AdviceLog,
         AdvicePublish, Conclude
<1>3. UNCHANGED <<handler, ready, unacked, session, order>>
  BY DEF AdviceStep, AdviceWait, AdviceCancelled, AdviceQuery, AdviceLog,
         AdvicePublish
<1> QED BY <1>1, <1>2, <1>3 DEF Advising

LEMMA WorkStep ==
    ASSUME TypeOK, DeliveryInv, WorkInv, [Next]_vars
    PROVE  WorkInv'
<1>0. /\ handler \in [Deliveries -> Handlers]
      /\ unacked # None => unacked \in Deliveries
      /\ None \notin Deliveries
  BY DeliveryAssumption DEF TypeOK
<1>1. ASSUME NEW d \in Deliveries, NEW m \in Msgs, Deliver(d, m)
      PROVE  WorkInv'
  <2>1. /\ handler'[d].msg = m
        /\ handler'[d].pc \in {"ack", "insert"}
        /\ \A e \in Deliveries \ {d} : handler'[e] = handler[e]
    BY <1>0, <1>1 DEF Deliver, Handlers
  <2>2. /\ Working(d)'
        /\ \A e \in Deliveries \ {d} : ~Working(e)' /\ ~Working(e)
    BY <1>1, <2>1 DEF Deliver, Idle, Working
  <2>3. /\ \A e \in Deliveries : Advising(e)' <=> Advising(e)
        /\ ~Advising(d)
    BY <1>1 DEF Deliver, Advising, DeliveryInv, DeliveryInvOf
  <2>4. \A e \in Deliveries : Advising(e) => handler[e].msg # m
    BY <1>1 DEF Deliver, WorkInv, AdviceInv
  <2>5. LoopInv'
    BY <1>0, <1>1, <2>1, <2>2 DEF LoopInv, Deliver
  <2>6. AdviceInv'
    BY <1>0, <1>1, <2>1, <2>3, <2>4 DEF WorkInv, AdviceInv, Deliver
  <2>7. OneWorker'
    BY <2>1, <2>2, <2>3, <2>4 DEF WorkInv, OneWorker
  <2> QED BY <2>5, <2>6, <2>7 DEF WorkInv
<1>2. ASSUME NEW d \in Deliveries, Ack(d)
      PROVE  WorkInv'
  <2>1. /\ \A e \in Deliveries : handler'[e].msg = handler[e].msg
        /\ \A e \in Deliveries \ {d} : Working(e)' <=> Working(e)
        /\ ~Working(d)'
        /\ \A e \in Deliveries : Advising(e)' <=> Advising(e)
        /\ Working(d)
    BY <1>0, <1>2 DEF Ack, Finished, Working, Advising, Handlers
  <2>2. UNCHANGED <<ready, session>>
        /\ unacked' = IF unacked = d THEN None ELSE unacked
    BY <1>2 DEF Ack
  <2>3. LoopInv'
    BY <1>0, <2>1, <2>2 DEF WorkInv, LoopInv
  <2>4. AdviceInv'
    BY <1>0, <2>1, <2>2 DEF WorkInv, AdviceInv
  <2>5. OneWorker'
    BY <2>1 DEF WorkInv, OneWorker
  <2> QED BY <2>3, <2>4, <2>5 DEF WorkInv
<1>3. ASSUME NEW d \in Deliveries, Consume(d)
      PROVE  WorkInv'
  BY <1>1, <1>2, <1>3, HandlerMoves, MoveKeeps
<1>4. ASSUME NEW d \in Deliveries, AdviceStep(d)
      PROVE  WorkInv'
  BY <1>4, AdviceMoves, AdviceKeeps
<1>5. ASSUME NEW d \in Deliveries, ProviderDecides(d)
      PROVE  WorkInv'
  BY <1>5, AdviceKeeps DEF ProviderDecides, Advising
<1>6. CASE Reconnect
  <2>1. unacked = None
    BY <1>0, <1>6 DEF Reconnect, WorkInv, LoopInv
  <2>2. \A d \in Deliveries : ~Working(d) /\ ~Advising(d)
    BY <1>6 DEF Reconnect, Idle, Drained
  <2>3. \A d \in Deliveries : ~Working(d)' /\ ~Advising(d)'
    BY <1>6, <2>2 DEF Reconnect, Working, Advising
  <2>4. unacked' = None
    BY <1>6, <2>1 DEF Reconnect
  <2> QED BY <2>3, <2>4 DEF WorkInv, LoopInv, AdviceInv, OneWorker
<1>7. CASE StopConsuming
  <2>1. unacked = None /\ \A d \in Deliveries : ~Working(d)
    BY <1>0, <1>7 DEF StopConsuming, Idle, WorkInv, LoopInv
  <2>2. \A d \in Deliveries : ~Working(d)'
    BY <1>7, <2>1 DEF StopConsuming, Working
  <2>3. \A d \in Deliveries : Advising(d)' <=> Advising(d)
    BY <1>7 DEF StopConsuming, Advising
  <2>4. session' = "closed" /\ unacked' = None
    BY <1>7, <2>1 DEF StopConsuming
  <2>5. OneWorker'
    BY <1>7, <2>2, <2>3 DEF StopConsuming, WorkInv, OneWorker
  <2> QED BY <2>2, <2>4, <2>5 DEF WorkInv, LoopInv, AdviceInv
<1>8. CASE SessionLost
  <2>1. /\ \A d \in Deliveries : Working(d)' <=> Working(d)
        /\ \A d \in Deliveries : Advising(d)' <=> Advising(d)
        /\ session' = "closed" /\ unacked' = None /\ handler' = handler
    BY <1>8 DEF SessionLost, Working, Advising
  <2> QED BY <2>1 DEF WorkInv, LoopInv, AdviceInv, OneWorker
<1>9. CASE Restart
  <2>1. \A d \in Deliveries : ~Working(d)'
    BY <1>0, <1>9 DEF Restart, Finished, Working, Handlers
  <2>2. \A d \in Deliveries : ~Advising(d)'
    BY <1>9 DEF Restart, Finished, Advising, TypeOK, Advices
  <2>3. unacked' = None
    BY <1>9 DEF Restart
  <2> QED BY <2>1, <2>2, <2>3 DEF WorkInv, LoopInv, AdviceInv, OneWorker
<1>10. CASE Shutdown
  BY <1>10, AdviceKeeps DEF Shutdown, Advising
<1>11. CASE UNCHANGED vars
  BY <1>11, AdviceKeeps DEF vars, Advising
<1> QED BY <1>3, <1>4, <1>5, <1>6, <1>7, <1>8, <1>9, <1>10, <1>11
        DEF Next, Session, Exit, Crash

-----------------------------------------------------------------------------
(* The safety theorems *)

LEMMA InitInv == Init => Inv
<1> SUFFICES ASSUME Init PROVE Inv
  OBVIOUS
<1>1. TypeOK
  <2>1. [msg |-> None, pc |-> "free", out |-> "C"] \in Handlers
    BY DEF Handlers, HandlerPcs
  <2>2. [pc |-> "none", attempt |-> 0, out |-> "C"] \in Advices
    BY AttemptAssumption DEF Advices, AdvicePcs
  <2> QED BY <2>1, <2>2 DEF Init, TypeOK, Statuses, OrderStates
<1>2. DeliveryInv
  BY AttemptAssumption DEF Init, DeliveryInv, DeliveryInvOf
<1>3. WorkInv
  BY DEF Init, WorkInv, LoopInv, AdviceInv, OneWorker, Working, Advising
<1> QED BY <1>1, <1>2, <1>3 DEF Inv

LEMMA InvStep ==
    ASSUME Inv, [Next]_vars
    PROVE  Inv'
<1>1. TypeOK'
  BY TypeStep DEF Inv, WorkInv
<1>2. WorkInv'
  BY WorkStep DEF Inv
<1>3. DeliveryInv'
  <2>1. ASSUME UNCHANGED <<handler, advice, order>>
        PROVE  DeliveryInv'
    BY <2>1 DEF Inv, DeliveryInv, DeliveryInvOf
  <2> QED BY <2>1, DeliveryStep, RestartDelivery
          DEF Inv, Next, Session, Reconnect, StopConsuming, Exit, SessionLost,
              Shutdown, Crash, vars
<1> QED BY <1>1, <1>2, <1>3 DEF Inv

(* Every delivery's records agree, and whoever works on a message has it   *)
(* to itself, in every reachable state.                                    *)
THEOREM InvCorrect == Spec => []Inv
<1>1. Init => Inv
  BY InitInv
<1>2. Inv /\ [Next]_vars => Inv'
  BY InvStep
<1> QED BY <1>1, <1>2, PTL DEF Spec

(* The types of every variable hold in every reachable state; in           *)
(* particular no payment is asked about more often than configured.        *)
THEOREM TypeCorrect == Spec => []TypeOK
<1>1. Inv => TypeOK
  BY DEF Inv
<1> QED BY <1>1, InvCorrect, PTL

(* Whatever is lost, redelivered or shut down: no two goroutines of the    *)
(* gateway ever work on one message.                                       *)
THEOREM OneWorkerCorrect == Spec => []OneWorker
<1>1. Inv => OneWorker
  BY DEF Inv, WorkInv
<1> QED BY <1>1, InvCorrect, PTL

-----------------------------------------------------------------------------
(* What the platform sees of a step *)

(* A step that leaves the view of every order alone is a stutter. *)
LEMMA Stutters ==
    ASSUME UNCHANGED <<published, gap>>,
           \A m \in Orders : /\ Acked(m)' <=> Acked(m)
                             /\ Owed(m)' <=> Owed(m)
                             /\ Paid(m)' <=> Paid(m)
    PROVE  UNCHANGED Platform!vars
BY DEF Platform!vars

(* The order a goroutine has to publish for now is taken up. *)
LEMMA TakesUp ==
    ASSUME UNCHANGED <<published, gap>>, NEW o \in Orders, Owed(o)',
           \A m \in Orders : /\ Acked(m)' <=> Acked(m)
                             /\ m # o => (Owed(m)' <=> Owed(m))
                             /\ Paid(m)' <=> Paid(m)
    PROVE  Platform!TakeUp(o)
BY DEF Platform!TakeUp

(* Whoever owes a status publishes it, and may be the last to owe one; or  *)
(* the publish fails, which is a known hole.                               *)
LEMMA Tells ==
    ASSUME TypeOK, NEW o \in Orders, NEW s \in {"F", "C", "S"}, Owed(o),
           PublishToDownstream(o, s), s = "F" => Paid(o),
           \A m \in Orders : /\ Acked(m)' <=> Acked(m)
                             /\ m # o => (Owed(m)' <=> Owed(m))
                             /\ Paid(m)' <=> Paid(m)
    PROVE  Platform!Next
<1> DEFINE Live == {m \in Orders : ~Acked(m) \/ Owed(m)}
           Excused == {m \in Orders : gap[m] # {}}
           Told == [m \in Orders |-> published[m]]
<1>0. /\ published \in [Msgs -> SUBSET {"F", "C", "S"}]
      /\ gap \in [Msgs -> SUBSET {"publish", "crash", "inquiry"}]
      /\ o \in Msgs /\ Orders \subseteq Msgs
  BY DEF TypeOK, Msgs
<1>1. o \in Live /\ Live' \in {Live \ {o}, Live}
  OBVIOUS
<1>2. {m \in Orders : Paid(m)'} = {m \in Orders : Paid(m)}
  OBVIOUS
<1>3. CASE published' = [published EXCEPT ![o] = @ \cup {s}]
           /\ gap' = [gap EXCEPT ![o] = IF s = "S" THEN @ \cup {"inquiry"} ELSE @]
  <2>1. Told' = [Told EXCEPT ![o] = @ \cup {s}] /\ s \in Told'[o]
    BY <1>0, <1>3
  <2>2. IF s = "S" THEN Excused' = Excused \cup {o} ELSE Excused' = Excused
    BY <1>0, <1>3
  <2>3. Platform!LetGo
    BY <1>1, <2>1, <2>2 DEF Platform!LetGo, Platform!Final
  <2>4. Platform!Tell(o, s)
    BY <1>1, <1>2, <2>1, <2>2, <2>3 DEF Platform!Tell, Platform!Final
  <2> QED BY <2>4 DEF Platform!Next
<1>4. CASE gap' = [gap EXCEPT ![o] = @ \cup {"publish"}] /\ UNCHANGED published
  <2>1. Excused' = Excused \cup {o}
    BY <1>0, <1>4
  <2>2. Platform!LetGo
    BY <1>1, <2>1 DEF Platform!LetGo
  <2>3. Platform!Lose({o})
    BY <1>1, <1>2, <1>4, <2>1, <2>2 DEF Platform!Lose
  <2>4. {o} \in SUBSET Live
    BY <1>1
  <2> QED BY <2>3, <2>4 DEF Platform!Next
<1> QED BY <1>3, <1>4 DEF PublishToDownstream

(* An acknowledgement lets go of an order nobody owes any more only if it  *)
(* is settled or lost.                                                     *)
LEMMA LetsGo ==
    ASSUME TypeOK, UNCHANGED <<published, gap>>,
           \A m \in Orders : /\ Owed(m)' <=> Owed(m)
                             /\ Paid(m)' <=> Paid(m)
                             /\ Acked(m) => Acked(m)'
                             /\ Acked(m)' => Acked(m) \/ Owed(m) \/ Closed(m)
    PROVE  Platform!Next
<1> DEFINE Live == {m \in Orders : ~Acked(m) \/ Owed(m)}
           Excused == {m \in Orders : gap[m] # {}}
           Told == [m \in Orders |-> published[m]]
<1>1. Live' \in SUBSET Live /\ Excused' = Excused \cup {} /\ Told' = Told
  OBVIOUS
<1>2. {m \in Orders : Paid(m)'} = {m \in Orders : Paid(m)}
  OBVIOUS
<1>3. Platform!LetGo
  BY DEF Platform!LetGo, Platform!Final, Closed, Settled
<1>4. Platform!Lose({})
  BY <1>1, <1>2, <1>3 DEF Platform!Lose
<1> QED BY <1>4 DEF Platform!Next

(* The end of the process loses what its goroutines owed.                  *)
LEMMA Restarts ==
    ASSUME TypeOK, UNCHANGED published,
           \A m \in Orders : /\ Acked(m)' <=> Acked(m)
                             /\ ~Owed(m)'
                             /\ Paid(m)' <=> Paid(m)
                             /\ gap'[m] = gap[m] \cup IF Owed(m) THEN {"crash"}
                                                                 ELSE {}
    PROVE  Platform!Next
<1> DEFINE Live == {m \in Orders : ~Acked(m) \/ Owed(m)}
           Excused == {m \in Orders : gap[m] # {}}
           Told == [m \in Orders |-> published[m]]
<1>0. PICK Lost : Lost = {m \in Orders : Owed(m)}
  OBVIOUS
<1>1. Lost \in SUBSET Live /\ Live' \in SUBSET Live /\ Told' = Told
  BY <1>0
<1>2. Excused' = Excused \cup Lost
  BY <1>0
<1>3. {m \in Orders : Paid(m)'} = {m \in Orders : Paid(m)}
  OBVIOUS
<1>4. Platform!LetGo
  BY <1>0, <1>2 DEF Platform!LetGo
<1>5. Platform!Lose(Lost)
  BY <1>1, <1>2, <1>3, <1>4 DEF Platform!Lose
<1> QED BY <1>1, <1>5 DEF Platform!Next

-----------------------------------------------------------------------------
(* The refinement *)

Owes(d) == Advising(d) \/ handler[d].pc = "publish"

(* A step of one delivery that keeps its message and its payment.          *)
Local(d) ==
    /\ UNCHANGED order
    /\ handler'[d].msg = handler[d].msg
    /\ \A e \in Deliveries \ {d} : /\ handler'[e] = handler[e]
                                   /\ advice'[e] = advice[e]

LEMMA LocalView ==
    ASSUME TypeOK, NEW d \in Deliveries, Local(d), NEW m \in Orders
    PROVE  /\ UNCHANGED <<ready, unacked>> => (Acked(m)' <=> Acked(m))
           /\ Paid(m)' <=> Paid(m)
           /\ m # handler[d].msg => (Owed(m)' <=> Owed(m))
           /\ (Owes(d)' <=> Owes(d)) => (Owed(m)' <=> Owed(m))
           /\ m = handler[d].msg /\ Owes(d)' => Owed(m)'
<1>1. \A e \in Deliveries : handler'[e].msg = handler[e].msg
  BY DEF Local
<1>2. \A e \in Deliveries \ {d} : Owes(e)' <=> Owes(e)
  BY DEF Local, Owes, Advising
<1>3. /\ Owed(m) <=> \E e \in Deliveries : handler[e].msg = m /\ Owes(e)
      /\ Owed(m)' <=> \E e \in Deliveries : handler'[e].msg = m /\ Owes(e)'
  BY DEF Owed, Owes
<1>4. UNCHANGED <<ready, unacked>> => (Acked(m)' <=> Acked(m))
  BY <1>1 DEF Acked, TypeOK
<1>5. Paid(m)' <=> Paid(m)
  BY <1>1 DEF Paid, Local
<1> QED BY <1>1, <1>2, <1>3, <1>4, <1>5

(* Every step of the consumer and of the advice is one of these, except    *)
(* a delivery and the POST of a payment, which nobody sees.                *)
Quiet(d)    == Local(d) /\ UNCHANGED <<published, gap>> /\ (Owes(d)' <=> Owes(d))
Takes(d)    == /\ Local(d) /\ UNCHANGED <<published, gap>>
               /\ handler[d].msg \in Orders
               /\ Owes(d)'
Announces(d) == /\ Local(d)
                /\ handler[d].msg \in Orders
                /\ Owes(d)
                /\ \E s \in {"F", "C", "S"} :
                     /\ PublishToDownstream(handler[d].msg, s)
                     /\ s = "F" => order[d] = "success"

(* What the moves of the two goroutines do to their records. *)
LEMMA HandlerAt ==
    ASSUME TypeOK, NEW d \in Deliveries
    PROVE  /\ \A pc \in HandlerPcs : Goto(d, pc) =>
                /\ handler'[d].msg = handler[d].msg
                /\ handler'[d].pc = pc
                /\ \A e \in Deliveries \ {d} : handler'[e] = handler[e]
           /\ \A out \in {"F", "C", "S"} : Decide(d, out) =>
                /\ handler'[d].msg = handler[d].msg
                /\ handler'[d].pc = "mark"
                /\ \A e \in Deliveries \ {d} : handler'[e] = handler[e]
<1>1. handler \in [Deliveries -> Handlers]
  BY DEF TypeOK
<1>2. ASSUME NEW pc \in HandlerPcs, Goto(d, pc)
      PROVE  /\ handler'[d].msg = handler[d].msg
             /\ handler'[d].pc = pc
             /\ \A e \in Deliveries \ {d} : handler'[e] = handler[e]
  BY <1>1, <1>2 DEF Goto, Handlers
<1>3. ASSUME NEW out \in {"F", "C", "S"}, Decide(d, out)
      PROVE  /\ handler'[d].msg = handler[d].msg
             /\ handler'[d].pc = "mark"
             /\ \A e \in Deliveries \ {d} : handler'[e] = handler[e]
  BY <1>1, <1>3 DEF Decide, Handlers
<1> QED BY <1>2, <1>3

LEMMA ConsumeSteps ==
    ASSUME Inv, NEW d \in Deliveries, Consume(d), ~PostPayment(d),
           \A m \in Msgs : ~Deliver(d, m)
    PROVE  /\ \/ Quiet(d) /\ handler'[d].pc # "ack"
              \/ Takes(d)
              \/ Announces(d)
           /\ ~Ack(d) => UNCHANGED <<ready, unacked>>
<1>0. /\ handler \in [Deliveries -> Handlers]
      /\ advice \in [Deliveries -> Advices]
      /\ DeliveryInvOf(d)
      /\ TypeOK
  BY DEF Inv, TypeOK, DeliveryInv
<1> USE DEF Owes, Local, Advising
<1>1. CASE InsertTransaction(d)
  <2>1. Goto(d, "inquiry") /\ UNCHANGED <<advice, order, published, gap, ready, unacked>>
        /\ handler[d].pc = "insert"
    BY <1>1 DEF InsertTransaction
  <2>2. Quiet(d) /\ handler'[d].pc # "ack"
    BY <1>0, <2>1, HandlerAt DEF Quiet, HandlerPcs
  <2> QED BY <2>1, <2>2
<1>2. CASE Inquiry(d)
  <2>1. /\ Goto(d, "payment") \/ Decide(d, "C") \/ Decide(d, "S")
        /\ UNCHANGED <<advice, order, published, gap, ready, unacked>>
        /\ handler[d].pc = "inquiry"
    BY <1>2, InquiryOutcome DEF Inquiry
  <2>2. Quiet(d) /\ handler'[d].pc # "ack"
    BY <1>0, <2>1, HandlerAt DEF Quiet, HandlerPcs
  <2> QED BY <2>1, <2>2
<1>3. CASE HandleReply(d)
  <2>1. /\ \/ Goto(d, "ack") /\ StartAdvice(d)
           \/ (\E out \in {"F", "C"} : Decide(d, out)) /\ UNCHANGED advice
        /\ UNCHANGED <<order, published, gap, ready, unacked>>
        /\ handler[d].pc = "reply"
    BY <1>3, OutcomeFacts DEF HandleReply
  <2>2. CASE Goto(d, "ack") /\ StartAdvice(d)
    <3>1. /\ advice'[d].pc = "wait"
          /\ \A e \in Deliveries \ {d} : advice'[e] = advice[e]
      BY <1>0, <2>2 DEF StartAdvice, Advices
    <3>2. Takes(d)
      BY <1>0, <2>1, <2>2, <3>1, HandlerAt DEF Takes, DeliveryInvOf, HandlerPcs
    <3> QED BY <2>1, <3>2
  <2>3. CASE (\E out \in {"F", "C"} : Decide(d, out)) /\ UNCHANGED advice
    <3>1. Quiet(d) /\ handler'[d].pc # "ack"
      BY <1>0, <2>1, <2>3, HandlerAt DEF Quiet
    <3> QED BY <2>1, <3>1
  <2> QED BY <2>1, <2>2, <2>3
<1>4. CASE LogStatus(d)
  <2>1. Goto(d, "publish") /\ UNCHANGED <<advice, order, published, gap, ready, unacked>>
        /\ handler[d].pc = "mark"
    BY <1>4 DEF LogStatus
  <2>2. Takes(d)
    BY <1>0, <2>1, HandlerAt DEF Takes, DeliveryInvOf, HandlerPcs
  <2> QED BY <2>1, <2>2
<1>5. CASE Publish(d)
  <2>1. Goto(d, "ack") /\ UNCHANGED <<advice, order, ready, unacked>>
        /\ handler[d].pc = "publish"
        /\ PublishToDownstream(handler[d].msg, handler[d].out)
    BY <1>5 DEF Publish
  <2>2. handler[d].out \in {"F", "C", "S"}
    BY <1>0 DEF Handlers
  <2>3. Local(d)
    BY <1>0, <2>1, HandlerAt DEF HandlerPcs
  <2>4. Announces(d)
    BY <1>0, <2>1, <2>2, <2>3 DEF Announces, DeliveryInvOf
  <2> QED BY <2>1, <2>4
<1>6. CASE Ack(d)
  <2>1. /\ handler'[d].msg = handler[d].msg
        /\ handler'[d].pc = "done"
        /\ \A e \in Deliveries \ {d} : handler'[e] = handler[e]
    BY <1>0, <1>6 DEF Ack, Finished, Handlers
  <2>2. Quiet(d)
    BY <1>6, <2>1 DEF Ack, Quiet
  <2> QED BY <1>6, <2>1, <2>2
<1> QED BY <1>1, <1>2, <1>3, <1>4, <1>5, <1>6 DEF Consume

LEMMA AdviceSteps ==
    ASSUME Inv, NEW d \in Deliveries, AdviceStep(d)
    PROVE  /\ Quiet(d) \/ Announces(d)
           /\ UNCHANGED <<ready, unacked, handler>>
<1>0. /\ advice \in [Deliveries -> Advices]
      /\ DeliveryInvOf(d)
  BY DEF Inv, TypeOK, DeliveryInv
<1>1. UNCHANGED <<ready, unacked, handler, order>>
  BY AdviceMoves DEF Inv
<1>2. \A e \in Deliveries \ {d} : advice'[e] = advice[e]
  BY <1>0 DEF AdviceStep, AdviceWait, AdviceCancelled, AdviceQuery, AdviceLog,
              AdvicePublish, Conclude
<1>3. Local(d)
  BY <1>1, <1>2 DEF Local
<1>4. Advising(d)
  BY DEF AdviceStep, AdviceWait, AdviceCancelled, AdviceQuery, AdviceLog,
         AdvicePublish, Advising
<1>5. CASE AdvicePublish(d)
  <2>1. /\ advice[d].pc = "publish" /\ advice[d].out \in {"F", "C"}
        /\ PublishToDownstream(handler[d].msg, advice[d].out)
    BY <1>0, <1>5 DEF AdvicePublish, Advices
  <2> QED BY <1>0, <1>1, <1>3, <1>4, <2>1
          DEF Announces, Owes, DeliveryInvOf
<1>6. CASE ~AdvicePublish(d)
  <2>1. UNCHANGED <<published, gap>>
    BY <1>6 DEF AdviceStep, AdviceWait, AdviceCancelled, AdviceQuery, AdviceLog
  <2>2. Advising(d)'
    <3>1. \/ \E pc \in {"query", "publish"} : advice' = [advice EXCEPT ![d].pc = pc]
          \/ \E out \in {"F", "C"} : Conclude(d, out)
          \/ \E pc \in {"mark", "wait"}, n \in Nat :
               advice' = [advice EXCEPT ![d] = [pc |-> pc, attempt |-> n, out |-> "C"]]
      <4>1. advice[d].attempt + 1 \in Nat
        BY <1>0 DEF Advices
      <4>2. CASE AdviceQuery(d)
        BY <4>1, <4>2, OutcomeFacts DEF AdviceQuery
      <4> QED BY <1>6, <4>2 DEF AdviceStep, AdviceWait, AdviceCancelled, AdviceLog
    <3>2. advice'[d].pc \in {"wait", "query", "mark", "publish"}
      <4>1. ASSUME NEW pc \in {"query", "publish"}, advice' = [advice EXCEPT ![d].pc = pc]
            PROVE  advice'[d].pc = pc
        BY <1>0, <4>1 DEF Advices
      <4>2. ASSUME NEW out \in {"F", "C"}, Conclude(d, out)
            PROVE  advice'[d].pc = "mark"
        BY <1>0, <4>2 DEF Conclude, Advices
      <4> QED BY <1>0, <3>1, <4>1, <4>2
    <3> QED BY <3>2 DEF Advising
  <2> QED BY <1>1, <1>3, <1>4, <2>1, <2>2 DEF Quiet, Owes
<1> QED BY <1>1, <1>5, <1>6

(* A published status closes its order; nothing opens one again. *)
LEMMA ClosedSteps ==
    ASSUME TypeOK, NEW m \in Orders
    PROVE  /\ UNCHANGED <<published, gap>> => (Closed(m)' <=> Closed(m))
           /\ \A o, s : PublishToDownstream(o, s) => (Closed(m) => Closed(m)')
           /\ \A s \in {"F", "C", "S"} : PublishToDownstream(m, s) => Closed(m)'
<1>1. /\ published \in [Msgs -> SUBSET {"F", "C", "S"}]
      /\ gap \in [Msgs -> SUBSET {"publish", "crash", "inquiry"}]
      /\ m \in Msgs
  BY DEF TypeOK, Msgs
<1>2. UNCHANGED <<published, gap>> => (Closed(m)' <=> Closed(m))
  BY DEF Closed, Settled
<1>3. ASSUME NEW o, NEW s, PublishToDownstream(o, s)
      PROVE  /\ Closed(m) => Closed(m)'
             /\ o = m /\ s \in {"F", "C", "S"} => Closed(m)'
  BY <1>1, <1>3 DEF PublishToDownstream, Closed, Settled
<1> QED BY <1>2, <1>3

(* Before an acknowledgement comes a publish or the start of the advice.   *)
LEMMA AckStep ==
    ASSUME Inv, AckInv, [Next]_vars
    PROVE  AckInv'
<1>0. TypeOK /\ handler \in [Deliveries -> Handlers] /\ Orders \subseteq Msgs
  BY DEF Inv, TypeOK, Msgs
<1>1. ASSUME NEW d \in Deliveries, Quiet(d), handler'[d].pc # "ack"
      PROVE  AckInv'
  <2> SUFFICES ASSUME NEW e \in Deliveries, NEW m \in Orders,
                      handler'[e].pc = "ack", handler'[e].msg = m
               PROVE  Closed(m)' \/ Owed(m)'
    BY DEF AckInv
  <2>1. handler[e].pc = "ack" /\ handler[e].msg = m
    BY <1>1 DEF Quiet, Local
  <2>2. Closed(m) \/ Owed(m)
    BY <2>1 DEF AckInv
  <2> QED BY <1>0, <1>1, <2>2, LocalView, ClosedSteps DEF Quiet
<1>2. ASSUME NEW d \in Deliveries, Takes(d)
      PROVE  AckInv'
  <2> SUFFICES ASSUME NEW e \in Deliveries, NEW m \in Orders,
                      handler'[e].pc = "ack", handler'[e].msg = m
               PROVE  Closed(m)' \/ Owed(m)'
    BY DEF AckInv
  <2>1. CASE m = handler[d].msg
    BY <1>0, <1>2, <2>1, LocalView DEF Takes
  <2>2. CASE m # handler[d].msg
    <3>1. handler[e].pc = "ack" /\ handler[e].msg = m
      BY <1>2, <2>2 DEF Takes, Local
    <3>2. Closed(m) \/ Owed(m)
      BY <3>1 DEF AckInv
    <3> QED BY <1>0, <1>2, <2>2, <3>2, LocalView, ClosedSteps DEF Takes
  <2> QED BY <2>1, <2>2
<1>3. ASSUME NEW d \in Deliveries, Announces(d)
      PROVE  AckInv'
  <2> SUFFICES ASSUME NEW e \in Deliveries, NEW m \in Orders,
                      handler'[e].pc = "ack", handler'[e].msg = m
               PROVE  Closed(m)' \/ Owed(m)'
    BY DEF AckInv
  <2>1. CASE m = handler[d].msg
    BY <1>0, <1>3, <2>1, ClosedSteps DEF Announces
  <2>2. CASE m # handler[d].msg
    <3>1. handler[e].pc = "ack" /\ handler[e].msg = m
      BY <1>3, <2>2 DEF Announces, Local
    <3>2. Closed(m) \/ Owed(m)
      BY <3>1 DEF AckInv
    <3> QED BY <1>0, <1>3, <2>2, <3>2, LocalView, ClosedSteps DEF Announces
  <2> QED BY <2>1, <2>2
<1>4. ASSUME NEW d \in Deliveries, PostPayment(d)
      PROVE  AckInv'
  <2>1. /\ handler'[d].msg = handler[d].msg /\ handler'[d].pc = "reply"
        /\ handler[d].pc = "payment"
        /\ \A e \in Deliveries \ {d} : handler'[e] = handler[e]
        /\ UNCHANGED <<advice, published, gap>>
    BY <1>0, <1>4, HandlerAt DEF PostPayment, HandlerPcs
  <2>2. \A m \in Orders : (Owed(m)' <=> Owed(m)) /\ (Closed(m)' <=> Closed(m))
    BY <1>0, <2>1, ClosedSteps DEF Owed, Advising
  <2> QED BY <2>1, <2>2 DEF AckInv
<1>5. ASSUME NEW d \in Deliveries, NEW o \in Msgs, Deliver(d, o)
      PROVE  AckInv'
  <2>1. /\ handler'[d].msg = o
        /\ handler'[d].pc = IF o \in Junk THEN "ack" ELSE "insert"
        /\ \A e \in Deliveries \ {d} : handler'[e] = handler[e]
    BY <1>0, <1>5 DEF Deliver, Handlers
  <2>2. UNCHANGED <<advice, published, gap>> /\ handler[d].msg = None
    BY <1>5 DEF Deliver, Inv, DeliveryInv, DeliveryInvOf
  <2>3. \A m \in Orders : (Owed(m) => Owed(m)') /\ (Closed(m)' <=> Closed(m))
    BY <1>0, <2>1, <2>2, ClosedSteps, KindAssumption DEF Owed, Advising
  <2> QED BY <2>1, <2>3, KindAssumption DEF AckInv
<1>6. ASSUME UNCHANGED <<handler, advice, published, gap>>
      PROVE  AckInv'
  BY <1>6 DEF AckInv, Closed, Settled, Owed, Advising
<1>7. ASSUME Restart
      PROVE  AckInv'
  <2>1. \A d \in Deliveries : handler'[d].pc # "ack"
    BY <1>0, <1>7 DEF Restart, Finished, Working, Handlers
  <2> QED BY <2>1 DEF AckInv
<1>8. ASSUME NEW d \in Deliveries, AdviceStep(d)
      PROVE  AckInv'
  <2>1. CASE Announces(d)
    BY <1>3, <2>1
  <2>2. CASE Quiet(d)
    <3> SUFFICES ASSUME NEW e \in Deliveries, NEW m \in Orders,
                        handler'[e].pc = "ack", handler'[e].msg = m
                 PROVE  Closed(m)' \/ Owed(m)'
      BY DEF AckInv
    <3>1. handler[e].pc = "ack" /\ handler[e].msg = m
      BY <1>8, AdviceSteps
    <3>2. Closed(m) \/ Owed(m)
      BY <3>1 DEF AckInv
    <3> QED BY <1>0, <2>2, <3>2, LocalView, ClosedSteps DEF Quiet
  <2> QED BY <1>8, <2>1, <2>2, AdviceSteps
<1>9. ASSUME NEW d \in Deliveries, Consume(d)
      PROVE  AckInv'
  BY <1>1, <1>2, <1>3, <1>4, <1>5, <1>9, ConsumeSteps
<1> QED BY <1>6, <1>7, <1>8, <1>9
        DEF Next, Session, Reconnect, StopConsuming, Exit, SessionLost, Shutdown,
            Crash, ProviderDecides, vars

(* Every step is a step of the abstract gateway or changes nothing there. *)
LEMMA GatewayStep ==
    ASSUME Inv, AckInv, [Next]_vars
    PROVE  [Platform!Next]_Platform!vars
<1>0. /\ TypeOK /\ handler \in [Deliveries -> Handlers] /\ Orders \subseteq Msgs
      /\ unacked # None => unacked \in Deliveries
  BY DEF Inv, TypeOK, Msgs
<1>1. ASSUME NEW d \in Deliveries, Quiet(d), UNCHANGED <<ready, unacked>>
      PROVE  UNCHANGED Platform!vars
  BY <1>0, <1>1, LocalView, Stutters DEF Quiet
<1>2. ASSUME NEW d \in Deliveries, Takes(d), UNCHANGED <<ready, unacked>>
      PROVE  Platform!Next
  <2>1. Platform!TakeUp(handler[d].msg)
    BY <1>0, <1>2, LocalView, TakesUp DEF Takes
  <2> QED BY <1>2, <2>1 DEF Takes, Platform!Next
<1>3. ASSUME NEW d \in Deliveries, Announces(d), UNCHANGED <<ready, unacked>>
      PROVE  Platform!Next
  <2>1. Owed(handler[d].msg) /\ (order[d] = "success" => Paid(handler[d].msg))
    BY <1>3 DEF Announces, Owes, Owed, Paid
  <2> QED BY <1>0, <1>3, <2>1, LocalView, Tells DEF Announces
<1>4. ASSUME NEW d \in Deliveries, Ack(d)
      PROVE  Platform!Next
  <2>1. Quiet(d) /\ handler[d].pc = "ack" /\ UNCHANGED <<published, gap>>
        /\ UNCHANGED ready /\ unacked' = IF unacked = d THEN None ELSE unacked
    BY <1>0, <1>4, HandlerAt DEF Ack, Quiet, Local, Owes, Advising, Finished, Handlers
  <2>2. ASSUME NEW m \in Orders
        PROVE  /\ Owed(m)' <=> Owed(m)
               /\ Paid(m)' <=> Paid(m)
               /\ Acked(m) => Acked(m)'
               /\ Acked(m)' => Acked(m) \/ Owed(m) \/ Closed(m)
    <3>1. \A e \in Deliveries : handler'[e].msg = handler[e].msg
      BY <2>1 DEF Quiet, Local
    <3>2. handler[d].msg = m => Closed(m) \/ Owed(m)
      BY <2>1 DEF AckInv
    <3>3. /\ Acked(m) => Acked(m)'
          /\ Acked(m)' /\ ~Acked(m) => handler[d].msg = m
      BY <1>0, <2>1, <3>1 DEF Acked
    <3> QED BY <1>0, <2>1, <3>2, <3>3, LocalView DEF Quiet
  <2> QED BY <1>0, <2>1, <2>2, LetsGo
<1>5. ASSUME NEW d \in Deliveries, PostPayment(d)
      PROVE  UNCHANGED Platform!vars
  <2>1. /\ handler'[d].msg = handler[d].msg /\ handler'[d].pc = "reply"
        /\ handler[d].pc = "payment"
        /\ \A e \in Deliveries \ {d} : handler'[e] = handler[e]
        /\ UNCHANGED <<ready, unacked, advice, published, gap>>
    BY <1>0, <1>5, HandlerAt DEF PostPayment, HandlerPcs
  <2>2. /\ order[d] # "success" /\ order'[d] # "success"
        /\ \A e \in Deliveries \ {d} : order'[e] = order[e]
    BY <1>5, <2>1 DEF PostPayment, Inv, DeliveryInv, DeliveryInvOf, TypeOK
  <2>3. ASSUME NEW m \in Orders
        PROVE  /\ Acked(m)' <=> Acked(m)
               /\ Owed(m)' <=> Owed(m)
               /\ Paid(m)' <=> Paid(m)
    BY <1>0, <2>1, <2>2 DEF Acked, Owed, Advising, Paid
  <2> QED BY <2>1, <2>3, Stutters
<1>6. ASSUME NEW d \in Deliveries, NEW o \in Msgs, Deliver(d, o)
      PROVE  UNCHANGED Platform!vars
  <2>1. /\ handler'[d].msg = o
        /\ handler'[d].pc # "publish"
        /\ \A e \in Deliveries \ {d} : handler'[e] = handler[e]
        /\ UNCHANGED <<order, advice, published, gap>>
    BY <1>0, <1>6 DEF Deliver, Handlers
  <2>2. /\ handler[d].msg = None /\ handler[d].pc = "free"
        /\ ~Advising(d) /\ order[d] = "none"
    BY <1>6 DEF Deliver, Inv, DeliveryInv, DeliveryInvOf, Advising
  <2>3. ASSUME NEW m \in Orders
        PROVE  /\ Acked(m)' <=> Acked(m)
               /\ Owed(m)' <=> Owed(m)
               /\ Paid(m)' <=> Paid(m)
    <3>1. Acked(m)' <=> Acked(m)
      BY <1>0, <1>6, <2>1, DeliveryAssumption DEF Deliver, Acked
    <3> QED BY <1>0, <2>1, <2>2, <3>1, KindAssumption DEF Owed, Advising, Paid
  <2> QED BY <2>1, <2>3, Stutters
<1>7. ASSUME NEW d \in Deliveries, Consume(d)
      PROVE  [Platform!Next]_Platform!vars
  BY <1>1, <1>2, <1>3, <1>4, <1>5, <1>6, <1>7, ConsumeSteps
<1>8. ASSUME NEW d \in Deliveries, AdviceStep(d)
      PROVE  [Platform!Next]_Platform!vars
  BY <1>1, <1>3, <1>8, AdviceSteps
<1>9. ASSUME NEW d \in Deliveries, ProviderDecides(d)
      PROVE  [Platform!Next]_Platform!vars
  <2>1. /\ UNCHANGED <<ready, unacked, handler, advice, published, gap>>
        /\ order[d] \in {"sent", "pending"}
        /\ \A e \in Deliveries \ {d} : order'[e] = order[e]
    BY <1>9 DEF ProviderDecides, Inv, TypeOK
  <2>2. \A m \in Orders : (Acked(m)' <=> Acked(m)) /\ (Owed(m)' <=> Owed(m))
    BY <2>1 DEF Acked, Owed, Advising
  <2>3. CASE order'[d] = "success"
    <3>1. handler[d].msg \in Orders
      BY <2>1 DEF Inv, DeliveryInv, DeliveryInvOf
    <3>2. {m \in Orders : Paid(m)'} = {m \in Orders : Paid(m)} \cup {handler[d].msg}
      BY <2>1, <2>3, <3>1 DEF Paid
    <3>3. Platform!Complete(handler[d].msg)
      BY <2>1, <2>2, <3>2 DEF Platform!Complete
    <3> QED BY <3>1, <3>3 DEF Platform!Next
  <2>4. CASE order'[d] # "success"
    <3>1. \A m \in Orders : Paid(m)' <=> Paid(m)
      BY <2>1, <2>4 DEF Paid
    <3> QED BY <2>1, <2>2, <3>1, Stutters
  <2> QED BY <2>3, <2>4
<1>10. ASSUME UNCHANGED <<ready, unacked, handler, advice, order, published, gap>>
       PROVE  UNCHANGED Platform!vars
  BY <1>10, Stutters DEF Acked, Owed, Advising, Paid
<1>11. ASSUME ready' = Requeued, unacked' = None, NEW m \in Orders,
              \A d \in Deliveries : handler'[d].msg = handler[d].msg
       PROVE  Acked(m)' <=> Acked(m)
  BY <1>0, <1>11 DEF Acked, Requeued
<1>12. CASE SessionLost
  <2>1. /\ ready' = Requeued /\ unacked' = None
        /\ UNCHANGED <<handler, advice, order, published, gap>>
    BY <1>12 DEF SessionLost
  <2>2. \A m \in Orders : /\ Acked(m)' <=> Acked(m)
                          /\ Owed(m)' <=> Owed(m)
                          /\ Paid(m)' <=> Paid(m)
    BY <1>11, <2>1 DEF Owed, Advising, Paid
  <2> QED BY <2>1, <2>2, Stutters
<1>13. CASE Restart
  <2>1. /\ ready' = Requeued /\ unacked' = None
        /\ UNCHANGED <<order, published>>
        /\ \A m \in Msgs : gap'[m] = gap[m] \cup IF Owed(m) THEN {"crash"} ELSE {}
    BY <1>13 DEF Restart
  <2>2. \A d \in Deliveries : /\ handler'[d].msg = handler[d].msg
                              /\ handler'[d].pc # "publish"
    BY <1>0, <1>13 DEF Restart, Finished, Working, Handlers
  <2>3. \A d \in Deliveries : ~Advising(d)'
    BY <1>0, <1>13 DEF Restart, Finished, Advising, TypeOK, Advices
  <2>4. \A m \in Orders : /\ Acked(m)' <=> Acked(m)
                          /\ ~Owed(m)'
                          /\ Paid(m)' <=> Paid(m)
    BY <1>11, <2>1, <2>2, <2>3 DEF Owed, Paid
  <2> QED BY <1>0, <2>1, <2>4, Restarts
<1> QED BY <1>7, <1>8, <1>9, <1>10, <1>12, <1>13
        DEF Next, Session, Reconnect, StopConsuming, Exit, Shutdown, Crash, vars

LEMMA GatewayInit ==
    ASSUME Init
    PROVE  AckInv /\ Platform!Init
<1>1. AckInv
  BY DEF Init, AckInv
<1>2. \A m \in Orders : ~Paid(m) /\ published[m] = {}
  BY DEF Init, Paid, Msgs
<1>3. Platform!Init
  BY <1>2 DEF Platform!Init
<1> QED BY <1>1, <1>3

(* The gateway keeps its promise to the platform in every behaviour: F is  *)
(* only told of a completed payment, and an order is let go of only after  *)
(* a final status was told, or lost in an admitted way at that very step.  *)
THEOREM GatewayImplemented == Spec => ImplementsGateway
<1>1. Init => AckInv /\ Platform!Init
  BY GatewayInit
<1>2. Inv /\ AckInv /\ [Next]_vars => AckInv'
  BY AckStep
<1>3. Inv /\ AckInv /\ [Next]_vars => [Platform!Next]_Platform!vars
  BY GatewayStep
<1>4. Spec => []AckInv
  BY <1>1, <1>2, InvCorrect, PTL DEF Spec
<1> QED BY <1>1, <1>3, <1>4, InvCorrect, PTL
        DEF Spec, ImplementsGateway, Platform!Spec

=============================================================================
