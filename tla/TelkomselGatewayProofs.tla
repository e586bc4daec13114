------------------------ MODULE TelkomselGatewayProofs -----------------------
(***************************************************************************)
(* FinishIsTrue and AckedAccounted hold in every behaviour of              *)
(* TelkomselGateway, and it implements OrderGateway, for all sets of       *)
(* messages and deliveries and all bounds.                                 *)
(***************************************************************************)
EXTENDS TelkomselGateway, TLAPS

(* A delivery's records agree: a free id has no message and has done       *)
(* nothing; nothing was ordered before the call; its status checks start   *)
(* only when the consumer is through with it, and stop at the limit.       *)
HandlerInvOf(t) ==
    /\ handler[t].pc = "free" => handler[t].msg = None
    /\ handler[t].pc # "free" => handler[t].msg \in Msgs
    /\ handler[t].pc \in {"free", "insert", "browse", "call"} => order[t] = "none"
    /\ handler[t].pc \in {"free", "insert", "browse", "call", "wait", "mark",
                          "publish"} => retry[t].pc = "none"
    /\ retry[t].pc \in {"none", "sleep", "query"}
         => retry[t].attempts < MaxAttempts
    /\ handler[t].pc \in {"mark", "publish"} => handler[t].out # "retry"

HandlerInv ==
    /\ unacked # None => handler[unacked].msg \in Msgs
    /\ \A t \in Trx : HandlerInvOf(t)

(* A row names an order placed for its message, and a callback being       *)
(* handled belongs to a decided order of the message it was matched with.  *)
LinkInv ==
    /\ \A m \in Msgs : row[m].trx # None => handler[row[m].trx].msg = m
    /\ \A t \in Trx : callback[t].pc # "idle" =>
            /\ callback[t].msg \in Msgs
            /\ handler[t].msg = callback[t].msg
            /\ order[t] \in {"success", "failed"}

(* Whoever is about to report a success knows of a completed order. *)
ClaimInv ==
    \A t \in Trx :
        /\ handler[t].pc \in {"mark", "publish"} /\ handler[t].out = "F"
             => order[t] = "success"
        /\ retry[t].pc \in {"mark", "publish"} /\ retry[t].out = "F"
             => order[t] = "success"

TruthInv == TypeOK /\ HandlerInv /\ LinkInv /\ ClaimInv /\ FinishIsTrue

(* Somebody who already wrote, or is next to write, a final status of m    *)
(* still has to publish it.  Sleeping and asking goroutines do not count:  *)
(* they give up when they find the row resolved.                           *)
Announcing(m) == \E t \in Trx :
                    \/ HandlerOwes(t, m)
                    \/ handler[t].msg = m /\ retry[t].pc \in {"mark", "publish"}
                    \/ CallbackOwes(t, m)
Closed(m)    == Settled(m) \/ gap[m] # {}
Committed(m) == Closed(m) \/ Announcing(m)
Tracked(m)   == Closed(m) \/ Owed(m)

ResolvedInv == \A m \in Msgs : Resolved(m) => Committed(m)
AckInv      == \A t \in Trx, m \in Orders :
                    handler[t].pc = "ack" /\ handler[t].msg = m => Tracked(m)

AccountInv == TruthInv /\ ResolvedInv /\ AckInv /\ AckedAccounted

-----------------------------------------------------------------------------
(* What the client and the outcome operators can return *)

(* Every outcome is one of the known ones.  Only a completed recharge or   *)
(* a positive check makes a finish; no branch of the consumer leaves its   *)
(* goroutine, because the client turns a missing code into an error.       *)
LEMMA OutcomeFacts ==
    ASSUME NEW a \in BOOLEAN, NEW d \in BOOLEAN
    PROVE  /\ PulsaOutcomes[a][d] \subseteq {"F", "C", "retry"}
           /\ DataOutcomes[a][d] \subseteq {"S", "C", "retry"}
           /\ CheckOutcomes[a][d] \subseteq {"F", "C", "again"}
           /\ "F" \in PulsaOutcomes[a][d] => a
           /\ "F" \in CheckOutcomes[a][d] => a
<1>1. PulsaOutcomes[a][d] =
        {out \in Outcomes : \E rep \in Replies, rc \in RCs :
            /\ Truthful(rep, rc, a, d)
            /\ out = PulsaOutcome(InitiateResult(rep), rc)}
  BY DEF PulsaOutcomes
<1>2. DataOutcomes[a][d] =
        {out \in Outcomes : \E rep \in Replies, rc \in RCs :
            /\ Truthful(rep, rc, a, d)
            /\ out = DataOutcome(OrderDealerResult(rep), rc)}
  BY DEF DataOutcomes
<1>3. CheckOutcomes[a][d] =
        {out \in {"F", "C", "again"} : \E rep \in Replies, rc \in RCs :
            /\ Truthful(rep, rc, a, d)
            /\ out = CheckOutcome(CheckResult(rep), rc)}
  BY DEF CheckOutcomes
<1>4. ASSUME NEW rep \in Replies, NEW rc \in RCs, Truthful(rep, rc, a, d)
      PROVE  /\ PulsaOutcome(InitiateResult(rep), rc) \in {"F", "C", "retry"}
             /\ PulsaOutcome(InitiateResult(rep), rc) = "F" => a
  <2> DEFINE res == InitiateResult(rep)
  <2>1. res.err # "none" \/ res.code = "00000"
    BY DEF InitiateResult, Result, OnHttp200
  <2>2. rc = 0 => a
    BY <1>4 DEF Truthful
  <2> HIDE DEF res
  <2> QED BY <2>1, <2>2 DEF PulsaOutcome, ByRc, res
<1>5. ASSUME NEW rep \in Replies, NEW rc \in RCs
      PROVE  DataOutcome(OrderDealerResult(rep), rc) \in {"S", "C", "retry"}
  <2> DEFINE res == OrderDealerResult(rep)
  <2>1. res.err # "none" \/ res.code = "00000"
    BY DEF OrderDealerResult, Result, OnHttp200
  <2> HIDE DEF res
  <2>2. DataOutcome(res, rc) \in {"S", "C", "retry"}
    BY <2>1 DEF DataOutcome, ByRc
  <2> QED BY <2>2 DEF res
<1>6. ASSUME NEW rep \in Replies, NEW rc \in RCs, Truthful(rep, rc, a, d)
      PROVE  CheckOutcome(CheckResult(rep), rc) = "F" => a
  BY <1>6 DEF Truthful, CheckOutcome, RCs
<1> QED BY <1>1, <1>2, <1>3, <1>4, <1>5, <1>6

-----------------------------------------------------------------------------
(* Type correctness *)

LEMMA OutcomesOf ==
    ASSUME TypeOK, NEW t \in Trx
    PROVE  /\ Accepted(t) \in BOOLEAN
           /\ Denied(t) \in BOOLEAN
           /\ (order[t] = "success") \in BOOLEAN
           /\ CheckAnswers(t) \subseteq {"F", "C", "again"}
           /\ "F" \in CheckAnswers(t) => order[t] = "success"
<1>1. Accepted(t) \in BOOLEAN
  BY Zenon DEF Accepted
<1>2. Denied(t) \in BOOLEAN
  BY SMT DEF Denied
<1>3. (order[t] = "success") \in BOOLEAN
  BY Zenon
<1>4. CASE handler[t].msg \in Pulsa
  BY <1>1, <1>2, <1>3, <1>4, OutcomeFacts, Zenon DEF CheckAnswers
<1>5. CASE handler[t].msg \notin Pulsa
  BY <1>1, <1>2, <1>3, <1>5, OutcomeFacts, Zenon DEF CheckAnswers
<1> QED BY <1>1, <1>2, <1>3, <1>4, <1>5

LEMMA ReplyOutcome ==
    ASSUME TypeOK, NEW t \in Trx, HandleReply(t)
    PROVE  \E out \in {"F", "C", "S", "retry"} :
              /\ Decide(t, out)
              /\ IF out = "retry" THEN StartRetry(t) ELSE UNCHANGED retry
              /\ out = "F" => order[t] = "success"
<1>1. CASE handler[t].msg \in Pulsa
  <2>1. Accepted(t) = (order[t] = "success")
    BY <1>1, MsgAssumption DEF Accepted
  <2> QED BY <1>1, <2>1, OutcomesOf, OutcomeFacts, Zenon DEF HandleReply
<1>2. CASE handler[t].msg \notin Pulsa
  BY <1>2, OutcomesOf, OutcomeFacts, Zenon DEF HandleReply
<1> QED BY <1>1, <1>2

(* Every assignment to a field leaves a record of its type. *)
LEMMA DeliveryFacts ==
    ASSUME NEW g \in Deliveries, NEW pc \in HandlerPcs
    PROVE  /\ [g EXCEPT !.pc = pc] \in Deliveries
           /\ Finished(g, pc) \in Deliveries
           /\ \A out \in Outcomes : [g EXCEPT !.pc = pc, !.out = out] \in Deliveries
           /\ \A m \in Msgs : [g EXCEPT !.msg = m, !.pc = pc] \in Deliveries
BY DEF Deliveries, Finished, Outcomes

LEMMA RetryFacts ==
    ASSUME TypeOK, NEW t \in Trx, NEW pc \in RetryPcs
    PROVE  /\ [retry EXCEPT ![t].pc = pc] \in [Trx -> Retries]
           /\ [retry EXCEPT ![t] = Finished(retry[t], pc)] \in [Trx -> Retries]
           /\ \A out \in {"F", "C"} :
                [retry EXCEPT ![t] = [retry[t] EXCEPT !.pc = pc, !.out = out]]
                    \in [Trx -> Retries]
           /\ \A n \in 0..MaxAttempts :
                [retry EXCEPT ![t] = [retry[t] EXCEPT !.pc = pc, !.attempts = n]]
                    \in [Trx -> Retries]
<1>1. retry \in [Trx -> Retries]
  BY DEF TypeOK
<1>2. [retry[t] EXCEPT !.pc = pc] \in Retries
  BY <1>1 DEF Retries
<1>3. Finished(retry[t], pc) \in Retries
  BY <1>1 DEF Retries, Finished
<1>4. \A out \in {"F", "C"} : [retry[t] EXCEPT !.pc = pc, !.out = out] \in Retries
  BY <1>1 DEF Retries
<1>5. \A n \in 0..MaxAttempts :
        [retry[t] EXCEPT !.pc = pc, !.attempts = n] \in Retries
  BY <1>1 DEF Retries
<1> QED BY <1>1, <1>2, <1>3, <1>4, <1>5

LEMMA StartRetryType ==
    ASSUME TypeOK, NEW t \in Trx, StartRetry(t)
    PROVE  retry' \in [Trx -> Retries]
BY RetryFacts DEF StartRetry, RetryPcs

LEMMA GapFacts ==
    ASSUME TypeOK, NEW m, NEW g \in Gaps
    PROVE  [gap EXCEPT ![m] = gap[m] \cup {g}] \in [Msgs -> SUBSET Gaps]
BY DEF TypeOK

LEMMA CallbackFacts ==
    ASSUME TypeOK, NEW t \in Trx, NEW pc \in CallbackPcs
    PROVE  /\ [callback EXCEPT ![t].pc = pc] \in [Trx -> Callbacks]
           /\ [callback EXCEPT ![t].sent = callback[t].sent + 1] \in [Trx -> Callbacks]
           /\ Answered(callback[t]) \in Callbacks
           /\ [callback EXCEPT ![t] = Answered(callback[t])] \in [Trx -> Callbacks]
           /\ \A m \in Msgs :
                [callback EXCEPT ![t] =
                   [pc |-> pc, msg |-> m, sent |-> callback[t].sent + 1]]
                     \in [Trx -> Callbacks]
<1>1. callback \in [Trx -> Callbacks]
  BY DEF TypeOK
<1>2. callback[t].sent + 1 \in Nat /\ "idle" \in CallbackPcs
  BY <1>1 DEF Callbacks, CallbackPcs
<1>3. [callback[t] EXCEPT !.pc = pc] \in Callbacks
  BY <1>1 DEF Callbacks
<1>4. [callback[t] EXCEPT !.sent = callback[t].sent + 1] \in Callbacks
  BY <1>1, <1>2 DEF Callbacks
<1>5. Answered(callback[t]) \in Callbacks
  BY <1>1, <1>2 DEF Callbacks, Answered
<1>6. \A m \in Msgs :
        [pc |-> pc, msg |-> m, sent |-> callback[t].sent + 1] \in Callbacks
  BY <1>1, <1>2 DEF Callbacks
<1> QED BY <1>1, <1>3, <1>4, <1>5, <1>6

LEMMA RowFacts ==
    ASSUME TypeOK, NEW m, NEW s \in Statuses
    PROVE  /\ [row EXCEPT ![m].status = s] \in [Msgs -> Rows]
           /\ \A t \in Trx : [row EXCEPT ![m] = [status |-> s, trx |-> t]]
                               \in [Msgs -> Rows]
<1>1. row \in [Msgs -> Rows]
  BY DEF TypeOK
<1>2. \A t \in Trx : [status |-> s, trx |-> t] \in Rows
  BY DEF Rows
<1>3. CASE m \in Msgs
  <2>1. [row[m] EXCEPT !.status = s] \in Rows
    BY <1>1, <1>3 DEF Rows
  <2> QED BY <1>1, <1>2, <2>1
<1>4. CASE m \notin Msgs
  BY <1>1, <1>4
<1> QED BY <1>3, <1>4

LEMMA StatusOfType == \A out : StatusOf(out) \in Statuses
BY DEF StatusOf, Statuses

LEMMA StatusUpdate ==
    ASSUME TypeOK, NEW m, NEW s \in Statuses, NEW ok, LogUpdateStatus(m, s, ok)
    PROVE  row' \in [Msgs -> Rows] /\ faults' \in Nat
<1>1. faults' \in Nat
  BY DEF TypeOK, LogUpdateStatus, Swallowed
<1>2. ASSUME UpdateTransactionStatus(m, s)
      PROVE  row' \in [Msgs -> Rows]
  BY <1>2, RowFacts DEF TypeOK, UpdateTransactionStatus
<1> QED BY <1>1, <1>2 DEF LogUpdateStatus, TypeOK

LEMMA PublishUpdate ==
    ASSUME TypeOK, NEW m, NEW s \in {"F", "C", "S"}, PublishToDownstream(m, s)
    PROVE  /\ published' \in [Msgs -> SUBSET {"F", "C", "S"}]
           /\ gap' \in [Msgs -> SUBSET Gaps]
           /\ faults' \in Nat
BY DEF TypeOK, PublishToDownstream, Swallowed, Gaps

LEMMA TypeStep ==
    ASSUME TypeOK, HandlerInv, [Next]_vars
    PROVE  TypeOK'
<1> USE DEF TypeOK
<1>a. Requeued \subseteq Msgs
  BY DEF Requeued, HandlerInv
<1>1. ASSUME NEW t \in Trx, NEW m \in Msgs, Deliver(t, m)
      PROVE  TypeOK'
  BY <1>1, DeliveryFacts DEF Deliver, HandlerPcs
<1>2. ASSUME NEW t \in Trx, InsertTransaction(t)
      PROVE  TypeOK'
  <2>1. handler' \in [Trx -> Deliveries]
    BY <1>2, DeliveryFacts DEF InsertTransaction, Goto, HandlerPcs
  <2>2. row' \in [Msgs -> Rows]
    <3>1. [row EXCEPT ![handler[t].msg] = [status |-> "PROCESSING", trx |-> t]]
            \in [Msgs -> Rows]
      BY RowFacts DEF Statuses
    <3> QED BY <1>2, <3>1 DEF InsertTransaction
  <2>3. faults' \in Nat
    BY <1>2 DEF InsertTransaction, Swallowed
  <2> QED BY <1>2, <2>1, <2>2, <2>3 DEF InsertTransaction
<1>3. ASSUME NEW t \in Trx, BrowseOffer(t)
      PROVE  TypeOK'
  <2>1. handler' \in [Trx -> Deliveries]
    <3>1. CASE Goto(t, "call")
      BY <3>1, DeliveryFacts DEF Goto, HandlerPcs
    <3>2. CASE Decide(t, "C")
      BY <3>2, DeliveryFacts DEF Decide, HandlerPcs, Outcomes
    <3> QED BY <1>3, <3>1, <3>2 DEF BrowseOffer
  <2> QED BY <1>3, <2>1 DEF BrowseOffer
<1>4. ASSUME NEW t \in Trx, CallProvider(t)
      PROVE  TypeOK'
  BY <1>4, DeliveryFacts DEF CallProvider, Goto, HandlerPcs, OrderStates
<1>5. ASSUME NEW t \in Trx, HandleReply(t)
      PROVE  TypeOK'
  <2>1. PICK out \in {"F", "C", "S", "retry"} :
          /\ Decide(t, out)
          /\ IF out = "retry" THEN StartRetry(t) ELSE UNCHANGED retry
    BY <1>5, ReplyOutcome
  <2>2. handler' \in [Trx -> Deliveries]
    BY <2>1, DeliveryFacts DEF Decide, HandlerPcs, Outcomes
  <2>3. retry' \in [Trx -> Retries]
    BY <2>1, StartRetryType
  <2> QED BY <1>5, <2>2, <2>3 DEF HandleReply
<1>6. ASSUME NEW t \in Trx, LogStatus(t)
      PROVE  TypeOK'
  <2>1. handler' \in [Trx -> Deliveries]
    BY <1>6, DeliveryFacts DEF LogStatus, Goto, HandlerPcs
  <2>2. row' \in [Msgs -> Rows] /\ faults' \in Nat
    BY <1>6, StatusUpdate, StatusOfType DEF LogStatus
  <2> QED BY <1>6, <2>1, <2>2 DEF LogStatus
<1>7. ASSUME NEW t \in Trx, Publish(t)
      PROVE  TypeOK'
  <2>1. handler' \in [Trx -> Deliveries]
    BY <1>7, DeliveryFacts DEF Publish, Goto, HandlerPcs
  <2>2. retry' \in [Trx -> Retries]
    BY <1>7, StartRetryType DEF Publish
  <2>3. handler[t].out \in Outcomes \ {"retry"}
    BY <1>7 DEF Deliveries, HandlerInv, HandlerInvOf, Publish
  <2>a. StatusToBe(handler[t].out) \in {"F", "C", "S"}
    BY <2>3 DEF StatusToBe, Outcomes
  <2>4. published' \in [Msgs -> SUBSET {"F", "C", "S"}]
        /\ gap' \in [Msgs -> SUBSET Gaps] /\ faults' \in Nat
    BY <1>7, <2>a, PublishUpdate DEF Publish
  <2> QED BY <1>7, <2>1, <2>2, <2>4 DEF Publish
<1>8. ASSUME NEW t \in Trx, Ack(t)
      PROVE  TypeOK'
  BY <1>8, DeliveryFacts DEF Ack, HandlerPcs
<1>9. ASSUME NEW t \in Trx, RetryWake(t)
      PROVE  TypeOK'
  <2>1. retry' \in [Trx -> Retries]
    <3>1. /\ [retry EXCEPT ![t].pc = "query"] \in [Trx -> Retries]
          /\ [retry EXCEPT ![t] = Finished(retry[t], "done")] \in [Trx -> Retries]
      BY RetryFacts DEF RetryPcs
    <3> QED BY <1>9, <3>1 DEF RetryWake
  <2>2. faults' \in Nat
    BY <1>9 DEF RetryWake, Swallowed
  <2> QED BY <1>9, <2>1, <2>2 DEF RetryWake
<1>10. ASSUME NEW t \in Trx, CheckDecides(t)
       PROVE  TypeOK'
  <2>1. PICK out \in CheckAnswers(t) \ {"again"} :
          retry' = [retry EXCEPT ![t] = [retry[t] EXCEPT !.pc = "mark", !.out = out]]
    BY <1>10 DEF CheckDecides
  <2>2. out \in {"F", "C"} /\ "mark" \in RetryPcs
    BY OutcomesOf DEF RetryPcs
  <2>3. retry' \in [Trx -> Retries]
    BY <2>1, <2>2, RetryFacts
  <2> QED BY <1>10, <2>3 DEF CheckDecides
<1>b. ASSUME NEW t \in Trx, CheckAgain(t)
      PROVE  TypeOK'
  <2>1. retry[t].attempts < MaxAttempts
    BY <1>b DEF CheckAgain, HandlerInv, HandlerInvOf
  <2>2. retry[t].attempts + 1 \in 0..MaxAttempts /\ "sleep" \in RetryPcs
    BY <2>1, RetryAssumption DEF Retries, RetryPcs
  <2>3. retry' \in [Trx -> Retries]
    BY <1>b, <2>2, RetryFacts DEF CheckAgain
  <2> QED BY <1>b, <2>3 DEF CheckAgain
<1>c. ASSUME NEW t \in Trx, CheckExhausted(t)
      PROVE  TypeOK'
  <2>1. MaxAttempts \in 0..MaxAttempts /\ "exhausted" \in RetryPcs \cap Gaps
    BY RetryAssumption DEF RetryPcs, Gaps
  <2>2. retry' \in [Trx -> Retries]
    BY <1>c, <2>1, RetryFacts DEF CheckExhausted
  <2>3. gap' \in [Msgs -> SUBSET Gaps]
    BY <1>c, <2>1, GapFacts DEF CheckExhausted
  <2> QED BY <1>c, <2>2, <2>3 DEF CheckExhausted
<1>11. ASSUME NEW t \in Trx, RetryLogStatus(t)
       PROVE  TypeOK'
  <2>1. retry' \in [Trx -> Retries]
    BY <1>11, RetryFacts DEF RetryLogStatus, RetryPcs
  <2>2. row' \in [Msgs -> Rows] /\ faults' \in Nat
    BY <1>11, StatusUpdate, StatusOfType DEF RetryLogStatus
  <2> QED BY <1>11, <2>1, <2>2 DEF RetryLogStatus
<1>12. ASSUME NEW t \in Trx, RetryPublish(t)
       PROVE  TypeOK'
  <2>1. retry' \in [Trx -> Retries]
    BY <1>12, RetryFacts DEF RetryPublish, RetryPcs
  <2>2. retry[t].out \in {"F", "C"}
    BY DEF Retries
  <2>3. published' \in [Msgs -> SUBSET {"F", "C", "S"}]
        /\ gap' \in [Msgs -> SUBSET Gaps] /\ faults' \in Nat
    BY <1>12, <2>2, PublishUpdate DEF RetryPublish
  <2> QED BY <1>12, <2>1, <2>3 DEF RetryPublish
<1>13. ASSUME NEW t \in Trx, CallbackLookup(t)
       PROVE  TypeOK'
  <2>1. callback' \in [Trx -> Callbacks]
    <3>1. CASE callback' = [callback EXCEPT ![t].sent = callback[t].sent + 1]
      BY <3>1, CallbackFacts DEF CallbackPcs
    <3>2. ASSUME NEW m \in Msgs,
                 callback' = [callback EXCEPT ![t] =
                   [pc |-> "record", msg |-> m, sent |-> callback[t].sent + 1]]
          PROVE  callback' \in [Trx -> Callbacks]
      BY <3>2, CallbackFacts DEF CallbackPcs
    <3> QED BY <1>13, <3>1, <3>2 DEF CallbackLookup
  <2>2. faults' \in Nat
    BY <1>13 DEF CallbackLookup, Swallowed
  <2> QED BY <1>13, <2>1, <2>2 DEF CallbackLookup
<1>14. ASSUME NEW t \in Trx, NEW from, NEW to \in CallbackPcs,
              CallbackWrite(t, from, to)
       PROVE  TypeOK'
  <2>1. callback' \in [Trx -> Callbacks]
    BY <1>14, CallbackFacts DEF CallbackWrite
  <2>2. row' \in [Msgs -> Rows] /\ faults' \in Nat
    BY <1>14, StatusUpdate, StatusOfType DEF CallbackWrite
  <2> QED BY <1>14, <2>1, <2>2 DEF CallbackWrite
<1>15. ASSUME NEW t \in Trx, CallbackPublish(t)
       PROVE  TypeOK'
  <2>1. callback' \in [Trx -> Callbacks]
    BY <1>15, CallbackFacts DEF CallbackPublish, CallbackPcs
  <2>2. CallbackOutcome(t) \in {"F", "C"}
    BY DEF CallbackOutcome
  <2>3. published' \in [Msgs -> SUBSET {"F", "C", "S"}]
        /\ gap' \in [Msgs -> SUBSET Gaps] /\ faults' \in Nat
    BY <1>15, <2>2, PublishUpdate DEF CallbackPublish
  <2> QED BY <1>15, <2>1, <2>3 DEF CallbackPublish
<1>16. ASSUME NEW t \in Trx, ProviderDecides(t)
       PROVE  TypeOK'
  BY <1>16 DEF ProviderDecides, OrderStates
<1>17. CASE SessionLost
  BY <1>17, <1>a DEF SessionLost
<1>18. ASSUME Restart, losses' \in Nat
       PROVE  TypeOK'
  <2>1. handler' \in [Trx -> Deliveries]
    BY <1>18, DeliveryFacts DEF Restart, HandlerPcs
  <2>2. retry' \in [Trx -> Retries]
    <3>1. \A u \in Trx : Finished(retry[u], "dead") \in Retries
      BY DEF Finished, Retries, RetryPcs
    <3> QED BY <1>18, <3>1 DEF Restart
  <2>3. callback' \in [Trx -> Callbacks]
    BY <1>18, CallbackFacts DEF Restart, CallbackPcs
  <2>4. gap' \in [Msgs -> SUBSET Gaps]
    BY <1>18 DEF Restart, Gaps
  <2> QED BY <1>18, <2>1, <2>2, <2>3, <2>4, <1>a DEF Restart
<1>19. CASE Shutdown
  BY <1>19 DEF Shutdown
<1>20. CASE UNCHANGED vars
  BY <1>20 DEF vars
<1> QED BY <1>1, <1>2, <1>3, <1>4, <1>5, <1>6, <1>7, <1>8, <1>9, <1>10, <1>b, <1>c,
           <1>11, <1>12, <1>13, <1>14, <1>15, <1>16, <1>17, <1>18, <1>19, <1>20
        DEF Next, Consume, RetryStep, CallbackStep, Crash, Exit, CallbackPcs

-----------------------------------------------------------------------------
(* How the steps read and write the records *)

LEMMA GotoFacts ==
    ASSUME TypeOK, NEW t \in Trx, NEW pc, Goto(t, pc)
    PROVE  /\ handler'[t].pc = pc
           /\ handler'[t].msg = handler[t].msg
           /\ handler'[t].out = handler[t].out
           /\ \A u \in Trx : u # t => handler'[u] = handler[u]
BY DEF TypeOK, Goto, Deliveries

LEMMA DecideFacts ==
    ASSUME TypeOK, NEW t \in Trx, NEW out, Decide(t, out)
    PROVE  /\ handler'[t].pc = IF out = "retry" THEN "ack" ELSE "mark"
           /\ handler'[t].msg = handler[t].msg
           /\ handler'[t].out = out
           /\ \A u \in Trx : u # t => handler'[u] = handler[u]
BY DEF TypeOK, Decide, Deliveries

LEMMA DeliverFacts ==
    ASSUME TypeOK, NEW t \in Trx, NEW m, Deliver(t, m)
    PROVE  /\ handler'[t].pc = IF m \in Junk THEN "ack" ELSE "insert"
           /\ handler'[t].msg = m
           /\ \A u \in Trx : u # t => handler'[u] = handler[u]
BY DEF TypeOK, Deliver, Deliveries

LEMMA FinishedFacts ==
    ASSUME TypeOK, NEW t \in Trx, NEW pc
    PROVE  /\ Finished(handler[t], pc).pc = pc
           /\ Finished(handler[t], pc).msg = handler[t].msg
           /\ Finished(retry[t], pc).pc = pc
           /\ Finished(retry[t], pc).attempts = retry[t].attempts
           /\ Finished(retry[t], pc).out = "C"
BY DEF TypeOK, Finished, Deliveries, Retries

LEMMA RetryGotoFacts ==
    ASSUME TypeOK, NEW t \in Trx, NEW pc, retry' = [retry EXCEPT ![t].pc = pc]
    PROVE  /\ retry'[t].pc = pc
           /\ retry'[t].attempts = retry[t].attempts
           /\ retry'[t].out = retry[t].out
           /\ \A u \in Trx : u # t => retry'[u] = retry[u]
BY DEF TypeOK, Retries

LEMMA AttemptFacts ==
    ASSUME TypeOK, NEW t \in Trx, NEW pc, NEW n,
           retry' = [retry EXCEPT ![t] = [retry[t] EXCEPT !.pc = pc, !.attempts = n]]
    PROVE  /\ retry'[t].pc = pc
           /\ retry'[t].attempts = n
           /\ \A u \in Trx : u # t => retry'[u] = retry[u]
BY DEF TypeOK, Retries

LEMMA StartRetryFacts ==
    ASSUME TypeOK, NEW t \in Trx, StartRetry(t)
    PROVE  /\ retry'[t].pc = "sleep"
           /\ \A u \in Trx : u # t => retry'[u] = retry[u]
BY RetryGotoFacts DEF StartRetry

LEMMA RetryWakeFacts ==
    ASSUME TypeOK, NEW t \in Trx, RetryWake(t)
    PROVE  /\ retry[t].pc = "sleep"
           /\ \/ retry'[t].pc = "query"
              \/ retry'[t].pc = "done" /\ Resolved(handler[t].msg)
           /\ \A u \in Trx : u # t => retry'[u] = retry[u]
           /\ UNCHANGED <<ready, unacked, handler, row, callback, published, gap>>
<1>1. CASE retry' = [retry EXCEPT ![t].pc = "query"]
  BY <1>1, RetryGotoFacts DEF RetryWake
<1>2. CASE retry' = [retry EXCEPT ![t] = Finished(retry[t], "done")]
           /\ Resolved(handler[t].msg)
  BY <1>2, FinishedFacts DEF RetryWake, TypeOK
<1> QED BY <1>1, <1>2 DEF RetryWake

LEMMA CheckDecidesFacts ==
    ASSUME TypeOK, NEW t \in Trx, CheckDecides(t)
    PROVE  /\ retry[t].pc = "query" /\ retry'[t].pc = "mark"
           /\ retry'[t].out = "F" => order[t] = "success"
           /\ \A u \in Trx : u # t => retry'[u] = retry[u]
           /\ UNCHANGED <<ready, unacked, handler, row, callback, published, gap>>
<1>1. PICK out \in CheckAnswers(t) :
        retry' = [retry EXCEPT ![t] = [retry[t] EXCEPT !.pc = "mark", !.out = out]]
  BY DEF CheckDecides
<1>2. out = "F" => order[t] = "success"
  BY <1>1, OutcomesOf, Zenon
<1>3. /\ retry'[t].pc = "mark" /\ retry'[t].out = out
      /\ \A u \in Trx : u # t => retry'[u] = retry[u]
  BY <1>1 DEF TypeOK, Retries
<1> QED BY <1>2, <1>3 DEF CheckDecides

LEMMA CheckAgainFacts ==
    ASSUME TypeOK, NEW t \in Trx, CheckAgain(t)
    PROVE  /\ retry[t].pc = "query" /\ retry'[t].pc = "sleep"
           /\ retry'[t].attempts = retry[t].attempts + 1
           /\ \A u \in Trx : u # t => retry'[u] = retry[u]
           /\ UNCHANGED <<ready, unacked, handler, row, callback, order, published, gap>>
BY AttemptFacts DEF CheckAgain

LEMMA CheckExhaustedFacts ==
    ASSUME TypeOK, NEW t \in Trx, CheckExhausted(t)
    PROVE  /\ retry[t].pc = "query" /\ retry'[t].pc = "exhausted"
           /\ \A u \in Trx : u # t => retry'[u] = retry[u]
           /\ UNCHANGED <<ready, unacked, handler, row, callback, order, published>>
BY AttemptFacts DEF CheckExhausted

LEMMA ExhaustedGap ==
    ASSUME TypeOK, NEW t \in Trx, CheckExhausted(t), NEW m \in Msgs
    PROVE  /\ gap[m] \subseteq gap'[m]
           /\ m = handler[t].msg => gap'[m] # {}
BY DEF CheckExhausted, TypeOK

LEMMA CallbackGotoFacts ==
    ASSUME TypeOK, NEW t \in Trx, NEW pc,
           callback' = [callback EXCEPT ![t].pc = pc]
    PROVE  /\ callback'[t].pc = pc
           /\ callback'[t].msg = callback[t].msg
           /\ \A u \in Trx : u # t => callback'[u] = callback[u]
BY DEF TypeOK, Callbacks

LEMMA CallbackLookupFacts ==
    ASSUME TypeOK, NEW t \in Trx, CallbackLookup(t)
    PROVE  /\ callback[t].pc = "idle"
           /\ callback'[t].pc # "idle"
                => callback'[t].msg \in Msgs /\ row[callback'[t].msg].trx = t
           /\ \A u \in Trx : u # t => callback'[u] = callback[u]
<1>1. CASE callback' = [callback EXCEPT ![t].sent = callback[t].sent + 1]
  BY <1>1 DEF CallbackLookup, TypeOK, Callbacks
<1>2. ASSUME NEW m \in Msgs, row[m].trx = t,
             callback' = [callback EXCEPT ![t] =
               [pc |-> "record", msg |-> m, sent |-> callback[t].sent + 1]]
      PROVE  /\ callback'[t].msg = m
             /\ \A u \in Trx : u # t => callback'[u] = callback[u]
  BY <1>2 DEF TypeOK
<1> QED BY <1>1, <1>2 DEF CallbackLookup

LEMMA AnsweredFacts ==
    ASSUME TypeOK, NEW t \in Trx
    PROVE  Answered(callback[t]).pc = "idle"
BY DEF TypeOK, Callbacks, Answered

LEMMA WriteFacts ==
    ASSUME TypeOK, NEW m, NEW s, NEW ok, LogUpdateStatus(m, s, ok), NEW n \in Msgs
    PROVE  /\ row'[n].trx = row[n].trx
           /\ row'[n].status # row[n].status => n = m /\ row'[n].status = s
BY DEF TypeOK, LogUpdateStatus, UpdateTransactionStatus, Rows

LEMMA PublishFacts ==
    ASSUME TypeOK, NEW m, NEW s, PublishToDownstream(m, s), NEW n \in Msgs
    PROVE  /\ published[n] \subseteq published'[n]
           /\ gap[n] \subseteq gap'[n]
           /\ \A x \in published'[n] : x \in published[n] \/ (n = m /\ x = s)
           /\ n = m /\ s # "S" => s \in published'[n] \/ gap'[n] # {}
BY DEF TypeOK, PublishToDownstream

-----------------------------------------------------------------------------
(* What never changes *)

(* A delivery keeps its message, a decided order its decision. *)
LEMMA Monotone ==
    ASSUME TypeOK, HandlerInv, [Next]_vars, NEW t \in Trx
    PROVE  /\ handler[t].pc # "free" => handler'[t].msg = handler[t].msg
           /\ order[t] \in {"success", "failed"} => order'[t] = order[t]
<1> DEFINE Kept == /\ handler[t].pc # "free" => handler'[t].msg = handler[t].msg
                   /\ order[t] \in {"success", "failed"} => order'[t] = order[t]
<1>1. ASSUME NEW u \in Trx, NEW m \in Msgs, Deliver(u, m)
      PROVE  Kept
  BY <1>1, DeliverFacts DEF Deliver
<1>2. ASSUME NEW u \in Trx, NEW pc, Goto(u, pc), UNCHANGED order
      PROVE  Kept
  BY <1>2, GotoFacts
<1>3. ASSUME NEW u \in Trx, NEW out, Decide(u, out), UNCHANGED order
      PROVE  Kept
  BY <1>3, DecideFacts
<1>4. ASSUME UNCHANGED <<handler, order>>
      PROVE  Kept
  BY <1>4
<1>5. ASSUME NEW u \in Trx, InsertTransaction(u) \/ BrowseOffer(u) \/ HandleReply(u)
                              \/ LogStatus(u) \/ Publish(u)
      PROVE  Kept
  BY <1>2, <1>3, <1>5 DEF InsertTransaction, BrowseOffer, HandleReply, LogStatus,
     Publish
<1>6. ASSUME NEW u \in Trx, CallProvider(u)
      PROVE  Kept
  BY <1>6, GotoFacts DEF CallProvider, HandlerInv, HandlerInvOf, TypeOK
<1>7. ASSUME NEW u \in Trx, Ack(u)
      PROVE  Kept
  BY <1>7, FinishedFacts DEF Ack, TypeOK
<1>8. ASSUME NEW u \in Trx, RetryStep(u) \/ CallbackLookup(u) \/ CallbackStep(u)
      PROVE  Kept
  BY <1>4, <1>8 DEF RetryStep, RetryWake, CheckDecides, CheckAgain,
     CheckExhausted, RetryLogStatus, RetryPublish, CallbackLookup, CallbackStep, CallbackWrite, CallbackPublish
<1>9. ASSUME NEW u \in Trx, ProviderDecides(u)
      PROVE  Kept
  BY <1>9 DEF ProviderDecides, TypeOK
<1>10. CASE SessionLost \/ Shutdown
  BY <1>4, <1>10 DEF SessionLost, Shutdown
<1>11. CASE Restart
  BY <1>11, FinishedFacts DEF Restart, TypeOK
<1>12. CASE UNCHANGED vars
  BY <1>4, <1>12 DEF vars
<1>13. ASSUME NEW u \in Trx, Consume(u)
       PROVE  Kept
  BY <1>1, <1>5, <1>6, <1>7, <1>13 DEF Consume
<1>14. CASE Crash \/ Exit
  BY <1>11, <1>14 DEF Crash, Exit
<1> QED BY <1>8, <1>9, <1>10, <1>12, <1>13, <1>14 DEF Next

LEMMA DeliveredStable ==
    ASSUME TypeOK, HandlerInv, [Next]_vars, NEW m \in Msgs, Delivered(m)
    PROVE  Delivered(m)'
<1>1. PICK t \in Trx : handler[t].msg = m /\ order[t] = "success"
  BY DEF Delivered
<1>2. handler[t].pc # "free"
  BY <1>1, MsgAssumption DEF HandlerInv, HandlerInvOf
<1>3. handler'[t].msg = m /\ order'[t] = "success"
  BY <1>1, <1>2, Monotone
<1> QED BY <1>3 DEF Delivered

-----------------------------------------------------------------------------
(* HandlerInv *)

LEMMA HandlerStep ==
    ASSUME TypeOK, HandlerInv, [Next]_vars
    PROVE  HandlerInv'
<1>1. ASSUME NEW u \in Trx, NEW t \in Trx,
             (\E m \in Msgs : Deliver(u, m)) \/ InsertTransaction(u) \/ BrowseOffer(u)
             \/ CallProvider(u) \/ LogStatus(u)
      PROVE  HandlerInvOf(t)'
  <2>a. HandlerInvOf(t) /\ HandlerInvOf(u)
    BY DEF HandlerInv
  <2>1. ASSUME NEW m \in Msgs, Deliver(u, m)
        PROVE  HandlerInvOf(t)'
    <3>1. CASE t = u
      <4>1. handler[u].pc = "free" /\ UNCHANGED <<order, retry>>
        BY <2>1 DEF Deliver
      <4>2. handler'[u].msg = m /\ handler'[u].pc \in {"ack", "insert"}
        BY <2>1, DeliverFacts
      <4> QED BY <2>a, <3>1, <4>1, <4>2 DEF HandlerInvOf
    <3>2. CASE t # u
      BY <2>1, <2>a, <3>2, DeliverFacts DEF Deliver, HandlerInvOf
    <3> QED BY <3>1, <3>2
  <2>2. CASE InsertTransaction(u)
    BY <2>2, <2>a, GotoFacts DEF InsertTransaction, HandlerInvOf
  <2>3. CASE BrowseOffer(u)
    BY <2>3, <2>a, GotoFacts, DecideFacts DEF BrowseOffer, HandlerInvOf
  <2>4. CASE CallProvider(u)
    <3>1. \A v \in Trx : v # u => order'[v] = order[v]
      BY <2>4 DEF CallProvider, TypeOK
    <3> QED BY <2>4, <2>a, <3>1, GotoFacts DEF CallProvider, HandlerInvOf
  <2>5. CASE LogStatus(u)
    BY <2>5, <2>a, GotoFacts DEF LogStatus, HandlerInvOf
  <2> QED BY <1>1, <2>1, <2>2, <2>3, <2>4, <2>5
<1>2. ASSUME NEW u \in Trx, NEW t \in Trx,
             HandleReply(u) \/ Publish(u) \/ Ack(u)
      PROVE  HandlerInvOf(t)'
  <2>a. HandlerInvOf(t) /\ HandlerInvOf(u)
    BY DEF HandlerInv
  <2>1. CASE HandleReply(u)
    BY <2>1, <2>a, DecideFacts, RetryGotoFacts
       DEF HandleReply, StartRetry, HandlerInvOf
  <2>2. CASE Publish(u)
    BY <2>2, <2>a, GotoFacts, RetryGotoFacts DEF Publish, StartRetry, HandlerInvOf
  <2>3. CASE Ack(u)
    BY <2>3, <2>a, FinishedFacts DEF Ack, HandlerInvOf, TypeOK
  <2> QED BY <1>2, <2>1, <2>2, <2>3
<1>3. ASSUME NEW u \in Trx, NEW t \in Trx, RetryStep(u)
      PROVE  HandlerInvOf(t)'
  <2>a. HandlerInvOf(t) /\ HandlerInvOf(u)
    BY DEF HandlerInv
  <2>1. CASE RetryWake(u)
    BY SMTT(30), <2>1, <2>a, RetryGotoFacts, FinishedFacts DEF RetryWake, HandlerInvOf, TypeOK
  <2>2. CASE CheckDecides(u)
    <3>1. /\ retry'[u].pc = "mark"
          /\ \A v \in Trx : v # u => retry'[v] = retry[v]
          /\ UNCHANGED <<handler, order>>
      BY <2>2, CheckDecidesFacts DEF CheckDecides
    <3>2. retry[u].pc = "query"
      BY <2>2 DEF CheckDecides
    <3> QED BY <2>a, <3>1, <3>2 DEF HandlerInvOf
  <2>5. CASE CheckAgain(u)
    <3>1. /\ retry'[u].attempts = retry[u].attempts + 1
          /\ \A v \in Trx : v # u => retry'[v] = retry[v]
          /\ UNCHANGED <<handler, order>>
      BY <2>5, CheckAgainFacts
    <3>2. /\ retry[u].attempts < MaxAttempts
          /\ retry[u].attempts \in 0..MaxAttempts
          /\ retry[u].attempts + 1 # MaxAttempts
          /\ retry[u].pc = "query"
      BY <2>5, <2>a DEF CheckAgain, LastAttempt, HandlerInvOf, TypeOK, Retries
    <3>3. retry'[u].attempts < MaxAttempts
      BY <3>1, <3>2, RetryAssumption
    <3> QED BY <2>a, <3>1, <3>2, <3>3 DEF HandlerInvOf
  <2>6. CASE CheckExhausted(u)
    BY <2>6, <2>a, CheckExhaustedFacts DEF CheckExhausted, HandlerInvOf
  <2>3. CASE RetryLogStatus(u)
    BY <2>3, <2>a, RetryGotoFacts DEF RetryLogStatus, HandlerInvOf
  <2>4. CASE RetryPublish(u)
    BY <2>4, <2>a, FinishedFacts DEF RetryPublish, HandlerInvOf, TypeOK
  <2> QED BY <1>3, <2>1, <2>2, <2>3, <2>4, <2>5, <2>6 DEF RetryStep
<1>4. ASSUME NEW u \in Trx, NEW t \in Trx,
             CallbackLookup(u) \/ CallbackStep(u) \/ ProviderDecides(u)
      PROVE  HandlerInvOf(t)'
  <2>a. HandlerInvOf(t) /\ HandlerInvOf(u)
    BY DEF HandlerInv
  <2>1. CASE CallbackLookup(u) \/ CallbackStep(u)
    BY <2>1, <2>a DEF CallbackLookup, CallbackStep, CallbackWrite, CallbackPublish,
       HandlerInvOf
  <2>2. CASE ProviderDecides(u)
    BY <2>2, <2>a DEF ProviderDecides, HandlerInvOf, TypeOK
  <2> QED BY <1>4, <2>1, <2>2
<1>5. ASSUME NEW t \in Trx, Restart
      PROVE  HandlerInvOf(t)'
  <2>a. HandlerInvOf(t)
    BY DEF HandlerInv
  <2> QED BY <1>5, <2>a, FinishedFacts DEF Restart, HandlerInvOf, TypeOK, Working,
             Retrying
<1>6. ASSUME NEW t \in Trx, SessionLost \/ Shutdown \/ UNCHANGED vars
      PROVE  HandlerInvOf(t)'
  <2>a. HandlerInvOf(t)
    BY DEF HandlerInv
  <2> QED BY <1>6, <2>a DEF SessionLost, Shutdown, vars, HandlerInvOf
<1>7. ASSUME NEW t \in Trx
      PROVE  HandlerInvOf(t)'
  BY <1>1, <1>2, <1>3, <1>4, <1>5, <1>6 DEF Next, Consume, Crash, Exit
<1>8. unacked' # None => handler'[unacked'].msg \in Msgs
  <2>1. CASE \E u \in Trx, m \in Msgs : Deliver(u, m)
    <3>1. PICK u \in Trx, m \in Msgs : Deliver(u, m)
      BY <2>1
    <3>2. unacked' = u
      BY <3>1 DEF Deliver
    <3> QED BY <3>1, <3>2, DeliverFacts
  <2>2. CASE unacked' = unacked \/ unacked' = None
    BY <2>2, Monotone, MsgAssumption DEF HandlerInv, HandlerInvOf, TypeOK
  <2>3. (\E u \in Trx, m \in Msgs : Deliver(u, m))
        \/ unacked' = unacked \/ unacked' = None
    <3>1. ASSUME NEW u \in Trx, Consume(u), ~ \E m \in Msgs : Deliver(u, m)
          PROVE  unacked' = unacked \/ unacked' = None
      BY <3>1 DEF Consume, InsertTransaction, BrowseOffer, CallProvider,
         HandleReply, LogStatus, Publish, Ack
    <3>2. ASSUME NEW u \in Trx, RetryStep(u)
          PROVE  unacked' = unacked
      BY <3>2 DEF RetryStep, RetryWake, CheckDecides, CheckAgain, CheckExhausted,
         RetryLogStatus, RetryPublish
    <3>3. ASSUME NEW u \in Trx,
                 CallbackLookup(u) \/ CallbackStep(u) \/ ProviderDecides(u)
          PROVE  unacked' = unacked
      BY <3>3 DEF CallbackLookup, CallbackStep, CallbackWrite, CallbackPublish,
         ProviderDecides
    <3>4. CASE SessionLost \/ Shutdown \/ Crash \/ Exit \/ UNCHANGED vars
      BY <3>4 DEF SessionLost, Shutdown, Crash, Exit, Restart, vars
    <3> QED BY <3>1, <3>2, <3>3, <3>4 DEF Next
  <2> QED BY <2>1, <2>2, <2>3
<1> QED BY <1>7, <1>8 DEF HandlerInv

-----------------------------------------------------------------------------
(* The truth of what is reported *)

(* A status written, or sent downstream, as a success was earned. *)
LEMMA FinishStep ==
    ASSUME TruthInv, [Next]_vars, NEW m \in Msgs
    PROVE  /\ row'[m].status = "SUCCESS" => row[m].status = "SUCCESS" \/ Delivered(m)
           /\ "F" \in published'[m] => "F" \in published[m] \/ Delivered(m)
<1> DEFINE True == /\ row'[m].status = "SUCCESS"
                        => row[m].status = "SUCCESS" \/ Delivered(m)
                   /\ "F" \in published'[m] => "F" \in published[m] \/ Delivered(m)
<1>a. TypeOK /\ HandlerInv /\ LinkInv /\ ClaimInv
  BY DEF TruthInv
<1>b. \A out : StatusOf(out) = "SUCCESS" => out = "F"
  BY DEF StatusOf
<1>c. \A out : StatusToBe(out) = "F" => out = "F"
  BY DEF StatusToBe
<1>1. ASSUME UNCHANGED <<row, published>>
      PROVE  True
  BY <1>1
<1>2. ASSUME NEW u \in Trx, InsertTransaction(u)
      PROVE  True
  <2>1. row'[m].status = "SUCCESS" => row[m].status = "SUCCESS"
    BY <1>a, <1>2 DEF InsertTransaction, TypeOK, Rows
  <2> QED BY <1>2, <2>1 DEF InsertTransaction
<1>3. ASSUME NEW u \in Trx, LogStatus(u)
      PROVE  True
  BY <1>a, <1>b, <1>3, WriteFacts DEF LogStatus, ClaimInv, Delivered
<1>4. ASSUME NEW u \in Trx, Publish(u)
      PROVE  True
  BY <1>a, <1>c, <1>4, PublishFacts DEF Publish, ClaimInv, Delivered
<1>5. ASSUME NEW u \in Trx, RetryLogStatus(u)
      PROVE  True
  <2>1. row'[m].status = "SUCCESS" /\ row[m].status # "SUCCESS"
          => m = handler[u].msg /\ StatusOf(retry[u].out) = "SUCCESS"
    <3>1. LogUpdateStatus(handler[u].msg, StatusOf(retry[u].out), TRUE)
      BY <1>5 DEF RetryLogStatus
    <3>2. row'[m].status # row[m].status
            => m = handler[u].msg /\ row'[m].status = StatusOf(retry[u].out)
      BY ZenonT(60), <1>a, <3>1, WriteFacts
    <3> QED BY <3>2
  <2>2. retry[u].pc = "mark" /\ UNCHANGED published
    BY <1>5 DEF RetryLogStatus
  <2> QED BY <1>a, <1>b, <2>1, <2>2 DEF ClaimInv, Delivered
<1>6. ASSUME NEW u \in Trx, RetryPublish(u)
      PROVE  True
  BY <1>a, <1>6, PublishFacts DEF RetryPublish, ClaimInv, Delivered
<1>7. ASSUME NEW u \in Trx, NEW from \in {"record", "update"}, NEW to,
             CallbackWrite(u, from, to)
      PROVE  True
  <2>1. handler[u].msg = callback[u].msg
    BY <1>a, <1>7 DEF CallbackWrite, LinkInv
  <2>2. row'[m].status = "SUCCESS" /\ row[m].status # "SUCCESS"
          => m = callback[u].msg /\ StatusOf(CallbackOutcome(u)) = "SUCCESS"
    <3>1. LogUpdateStatus(callback[u].msg, StatusOf(CallbackOutcome(u)), TRUE)
      BY <1>7 DEF CallbackWrite
    <3>2. row'[m].status # row[m].status
            => m = callback[u].msg /\ row'[m].status = StatusOf(CallbackOutcome(u))
      BY <1>a, <3>1 DEF TypeOK, LogUpdateStatus, UpdateTransactionStatus, Rows
    <3> QED BY <3>2
  <2>3. UNCHANGED published
    BY <1>7 DEF CallbackWrite
  <2> QED BY <1>b, <2>1, <2>2, <2>3 DEF CallbackOutcome, Delivered
<1>8. ASSUME NEW u \in Trx, CallbackPublish(u)
      PROVE  True
  <2>1. handler[u].msg = callback[u].msg
    BY <1>a, <1>8 DEF CallbackPublish, LinkInv
  <2> QED BY <1>a, <1>8, <2>1, PublishFacts
          DEF CallbackPublish, CallbackOutcome, Delivered
<1>9. ASSUME NEW u \in Trx, Consume(u)
      PROVE  True
  BY <1>1, <1>2, <1>3, <1>4, <1>9
     DEF Consume, Deliver, BrowseOffer, CallProvider, HandleReply, Ack
<1>10. ASSUME NEW u \in Trx, RetryStep(u)
       PROVE  True
  BY <1>1, <1>5, <1>6, <1>10
     DEF RetryStep, RetryWake, CheckDecides, CheckAgain, CheckExhausted
<1>11. ASSUME NEW u \in Trx, CallbackLookup(u) \/ CallbackStep(u) \/ ProviderDecides(u)
       PROVE  True
  BY <1>1, <1>7, <1>8, <1>11 DEF CallbackLookup, CallbackStep, ProviderDecides
<1>12. CASE SessionLost \/ Shutdown \/ Crash \/ Exit \/ UNCHANGED vars
  BY <1>1, <1>12 DEF SessionLost, Shutdown, Crash, Exit, Restart, vars
<1> QED BY <1>9, <1>10, <1>11, <1>12 DEF Next

LEMMA LinkStep ==
    ASSUME TruthInv, [Next]_vars
    PROVE  LinkInv'
<1>a. TypeOK /\ HandlerInv /\ LinkInv
  BY DEF TruthInv
<1>b. None \notin Msgs /\ None \notin Trx
  BY MsgAssumption, TrxAssumption
<1>1. ASSUME NEW m \in Msgs, row'[m].trx # None
      PROVE  handler'[row'[m].trx].msg = m
  <2>1. CASE row'[m].trx = row[m].trx
    <3>1. row[m].trx \in Trx /\ handler[row[m].trx].msg = m
      BY <1>a, <1>1, <2>1 DEF TypeOK, Rows, LinkInv
    <3> QED BY <1>a, <1>b, <2>1, <3>1, Monotone DEF HandlerInv, HandlerInvOf
  <2>2. CASE row'[m].trx # row[m].trx
    <3>1. PICK u \in Trx : InsertTransaction(u)
      <4>1. ~(UNCHANGED row)
        BY <2>2
      <4>2. ASSUME NEW u \in Trx, LogStatus(u) \/ RetryLogStatus(u)
            PROVE  row'[m].trx = row[m].trx
        BY <1>a, <4>2, WriteFacts DEF LogStatus, RetryLogStatus
      <4>3. ASSUME NEW u \in Trx, CallbackStep(u)
            PROVE  row'[m].trx = row[m].trx
        BY <1>a, <4>3, WriteFacts DEF CallbackStep, CallbackWrite, CallbackPublish
      <4>4. ASSUME NEW u \in Trx, Consume(u)
            PROVE  InsertTransaction(u)
        BY <2>2, <4>1, <4>2, <4>4 DEF Consume, Deliver, BrowseOffer, CallProvider,
           HandleReply, Publish, Ack
      <4>5. ASSUME NEW u \in Trx, RetryStep(u) \/ CallbackLookup(u) \/ ProviderDecides(u)
            PROVE  FALSE
        BY <2>2, <4>1, <4>2, <4>5 DEF RetryStep, RetryWake, CheckDecides, CheckAgain,
           CheckExhausted, RetryPublish, CallbackLookup, ProviderDecides
      <4>6. ~(SessionLost \/ Shutdown \/ Crash \/ Exit \/ UNCHANGED vars)
        BY <4>1 DEF SessionLost, Shutdown, Crash, Exit, Restart, vars
      <4> QED BY <2>2, <4>3, <4>4, <4>5, <4>6 DEF Next
    <3>2. row'[m].trx = u /\ m = handler[u].msg
      BY <1>a, <2>2, <3>1 DEF InsertTransaction, TypeOK
    <3> QED BY <1>a, <3>1, <3>2, GotoFacts DEF InsertTransaction
  <2> QED BY <2>1, <2>2
<1>2. ASSUME NEW t \in Trx, callback'[t].pc # "idle"
      PROVE  /\ callback'[t].msg \in Msgs
             /\ handler'[t].msg = callback'[t].msg
             /\ order'[t] \in {"success", "failed"}
  <2>1. CASE callback'[t].msg = callback[t].msg /\ callback[t].pc # "idle"
    <3>1. /\ callback[t].msg \in Msgs
          /\ handler[t].msg = callback[t].msg
          /\ order[t] \in {"success", "failed"}
      BY <1>a, <2>1 DEF LinkInv
    <3> QED BY <1>a, <1>b, <2>1, <3>1, Monotone DEF HandlerInv, HandlerInvOf
  <2>2. CASE CallbackLookup(t)
    <3>1. row[callback'[t].msg].trx = t /\ callback'[t].msg \in Msgs
      BY <1>a, <1>2, <2>2, CallbackLookupFacts
    <3>2. handler[t].msg = callback'[t].msg
      BY <1>a, <1>b, <3>1 DEF LinkInv
    <3> QED BY <2>2, <3>1, <3>2 DEF CallbackLookup
  <2>3. \/ callback'[t].msg = callback[t].msg /\ callback[t].pc # "idle"
        \/ CallbackLookup(t)
    <3>1. ASSUME NEW u \in Trx, CallbackStep(u)
          PROVE  callback'[t].msg = callback[t].msg /\ callback[t].pc # "idle"
      <4>1. ASSUME NEW from \in {"record", "update"}, NEW to, CallbackWrite(u, from, to)
            PROVE  callback'[t].msg = callback[t].msg /\ callback[t].pc # "idle"
        BY <1>a, <1>2, <4>1, CallbackGotoFacts DEF CallbackWrite
      <4>2. CASE CallbackPublish(u)
        BY <1>a, <1>2, <4>2, AnsweredFacts DEF CallbackPublish, TypeOK
      <4> QED BY <3>1, <4>1, <4>2 DEF CallbackStep
    <3>2. ASSUME NEW u \in Trx, CallbackLookup(u), u # t
          PROVE  callback'[t] = callback[t]
      BY <1>a, <3>2, CallbackLookupFacts
    <3>3. ASSUME NEW u \in Trx, Consume(u) \/ RetryStep(u) \/ ProviderDecides(u)
          PROVE  callback'[t] = callback[t]
      BY <3>3 DEF Consume, Deliver, InsertTransaction, BrowseOffer, CallProvider,
         HandleReply, LogStatus, Publish, Ack, RetryStep, RetryWake, CheckDecides,
         CheckAgain, CheckExhausted, RetryLogStatus, RetryPublish, ProviderDecides
    <3>4. ~Restart
      BY <1>a, <1>2, AnsweredFacts DEF Restart
    <3>5. CASE SessionLost \/ Shutdown \/ UNCHANGED vars
      BY <1>2, <3>5 DEF SessionLost, Shutdown, vars
    <3> QED BY <1>2, <3>1, <3>2, <3>3, <3>4, <3>5 DEF Next, Crash, Exit
  <2> QED BY <2>1, <2>2, <2>3
<1> QED BY <1>1, <1>2 DEF LinkInv

LEMMA ClaimStep ==
    ASSUME TruthInv, [Next]_vars
    PROVE  ClaimInv'
<1> DEFINE Claims(t) ==
      /\ handler[t].pc \in {"mark", "publish"} /\ handler[t].out = "F"
           => order[t] = "success"
      /\ retry[t].pc \in {"mark", "publish"} /\ retry[t].out = "F"
           => order[t] = "success"
<1>a. TypeOK /\ HandlerInv /\ \A t \in Trx : Claims(t)
  BY DEF TruthInv, ClaimInv
<1>b. \A t \in Trx : order[t] = "success" => order'[t] = "success"
  BY <1>a, Monotone
<1> SUFFICES ASSUME NEW t \in Trx
             PROVE  Claims(t)'
  BY DEF ClaimInv
<1>1. ASSUME UNCHANGED <<handler, retry>>
      PROVE  Claims(t)'
  BY <1>a, <1>b, <1>1
<1>2. ASSUME NEW u \in Trx, NEW pc, Goto(u, pc), pc \in {"mark", "publish"} =>
                handler[u].pc \in {"mark", "publish"}, UNCHANGED retry
      PROVE  Claims(t)'
  BY <1>a, <1>b, <1>2, GotoFacts
<1>3. ASSUME NEW u \in Trx, Consume(u)
      PROVE  Claims(t)'
  <2>1. ASSUME NEW m \in Msgs, Deliver(u, m)
        PROVE  Claims(t)'
    <3>1. handler'[t] = handler[t] \/ handler'[t].pc \in {"ack", "insert"}
      BY <1>a, <2>1, DeliverFacts
    <3> QED BY <1>a, <1>b, <2>1, <3>1 DEF Deliver
  <2>2. CASE InsertTransaction(u) \/ CallProvider(u) \/ LogStatus(u)
    BY <1>2, <2>2 DEF InsertTransaction, CallProvider, LogStatus
  <2>3. CASE BrowseOffer(u)
    BY <1>a, <1>b, <1>2, <2>3, DecideFacts DEF BrowseOffer
  <2>4. CASE HandleReply(u)
    <3>1. PICK out \in {"F", "C", "S", "retry"} :
            /\ Decide(u, out)
            /\ IF out = "retry" THEN StartRetry(u) ELSE UNCHANGED retry
            /\ out = "F" => order[u] = "success"
      BY <1>a, <2>4, ReplyOutcome
    <3>2. \A v \in Trx : retry'[v] = retry[v] \/ retry'[v].pc = "sleep"
      BY <1>a, <3>1, StartRetryFacts
    <3> QED BY <1>a, <1>b, <3>1, <3>2, DecideFacts
  <2>5. CASE Publish(u)
    <3>1. \A v \in Trx : retry'[v] = retry[v] \/ retry'[v].pc = "sleep"
      BY <1>a, <2>5, StartRetryFacts DEF Publish
    <3> QED BY <1>a, <1>b, <2>5, <3>1, GotoFacts DEF Publish
  <2>6. CASE Ack(u)
    BY <1>a, <1>b, <2>6, FinishedFacts DEF Ack, TypeOK
  <2> QED BY <1>3, <2>1, <2>2, <2>3, <2>4, <2>5, <2>6 DEF Consume
<1>4. ASSUME NEW u \in Trx, RetryStep(u)
      PROVE  Claims(t)'
  <2>1. CASE RetryWake(u)
    <3>1. /\ retry'[t] = retry[t] \/ retry'[t].pc \in {"done", "query"}
          /\ UNCHANGED handler
      BY <1>a, <2>1, RetryWakeFacts
    <3> QED BY <1>a, <1>b, <3>1
  <2>2. CASE CheckDecides(u)
    <3>1. /\ retry'[t] = retry[t] \/ (retry'[t].out = "F" => order[t] = "success")
          /\ UNCHANGED handler
      BY <1>a, <2>2, CheckDecidesFacts
    <3> QED BY <1>a, <1>b, <3>1
  <2>3. CASE CheckAgain(u) \/ CheckExhausted(u)
    <3>1. /\ retry'[t] = retry[t] \/ retry'[t].pc \in {"sleep", "exhausted"}
          /\ UNCHANGED handler
      BY <1>a, <2>3, CheckAgainFacts, CheckExhaustedFacts
    <3> QED BY <1>a, <1>b, <3>1
  <2>5. CASE RetryLogStatus(u)
    BY <1>a, <1>b, <2>5, RetryGotoFacts DEF RetryLogStatus
  <2>6. CASE RetryPublish(u)
    BY <1>a, <1>b, <2>6, FinishedFacts DEF RetryPublish, TypeOK
  <2> QED BY <1>4, <2>1, <2>2, <2>3, <2>5, <2>6 DEF RetryStep
<1>5. ASSUME NEW u \in Trx, CallbackLookup(u) \/ CallbackStep(u) \/ ProviderDecides(u)
      PROVE  Claims(t)'
  BY <1>1, <1>5 DEF CallbackLookup, CallbackStep, CallbackWrite, CallbackPublish,
     ProviderDecides
<1>6. ASSUME Restart
      PROVE  Claims(t)'
  BY <1>a, <1>b, <1>6, FinishedFacts DEF Restart, TypeOK
<1>7. CASE SessionLost \/ Shutdown \/ UNCHANGED vars
  BY <1>1, <1>7 DEF SessionLost, Shutdown, vars
<1> QED BY <1>3, <1>4, <1>5, <1>6, <1>7 DEF Next, Crash, Exit

(* The invariant holds initially and every step keeps it. *)
LEMMA TruthInit == Init => TruthInv
<1> SUFFICES ASSUME Init PROVE TruthInv
  OBVIOUS
<1>1. TypeOK
  <2>1. handler \in [Trx -> Deliveries]
    BY DEF Init, Deliveries, HandlerPcs, Outcomes
  <2>2. row \in [Msgs -> Rows]
    BY DEF Init, Rows, Statuses
  <2>3. retry \in [Trx -> Retries]
    BY RetryAssumption DEF Init, Retries, RetryPcs
  <2>4. callback \in [Trx -> Callbacks]
    BY DEF Init, Callbacks, CallbackPcs
  <2>5. order \in [Trx -> OrderStates]
    BY DEF Init, OrderStates
  <2> QED BY <2>1, <2>2, <2>3, <2>4, <2>5 DEF Init, TypeOK
<1>2. HandlerInv
  BY RetryAssumption DEF Init, HandlerInv, HandlerInvOf
<1>3. LinkInv /\ ClaimInv /\ FinishIsTrue
  BY DEF Init, LinkInv, ClaimInv, FinishIsTrue
<1> QED BY <1>1, <1>2, <1>3 DEF TruthInv

LEMMA TruthStep ==
    ASSUME TruthInv, [Next]_vars
    PROVE  TruthInv'
<1>1. TypeOK' /\ HandlerInv'
  BY TypeStep, HandlerStep DEF TruthInv
<1>2. LinkInv' /\ ClaimInv'
  BY LinkStep, ClaimStep
<1>3. FinishIsTrue'
  <2> SUFFICES ASSUME NEW m \in Msgs
               PROVE  "F" \in published'[m] \/ row'[m].status = "SUCCESS"
                        => Delivered(m)'
    BY DEF FinishIsTrue
  <2>1. "F" \in published'[m] \/ row'[m].status = "SUCCESS" => Delivered(m)
    BY FinishStep DEF TruthInv, FinishIsTrue
  <2> QED BY <2>1, DeliveredStable DEF TruthInv
<1> QED BY <1>1, <1>2, <1>3 DEF TruthInv

(* Every variable keeps its type, for all messages, deliveries and bounds. *)
THEOREM TypeCorrect == Spec => []TypeOK
<1>1. TruthInv => TypeOK
  BY DEF TruthInv
<1> QED BY <1>1, TruthInit, TruthStep, PTL DEF Spec

(* No success is ever reported, downstream or in the table, for an order   *)
(* message the provider has not completed an order for: however many       *)
(* redeliveries, restarts, retries and callbacks there are.                *)
THEOREM FinishCorrect == Spec => []FinishIsTrue
<1>1. TruthInv => FinishIsTrue
  BY DEF TruthInv
<1> QED BY <1>1, TruthInit, TruthStep, PTL DEF Spec

-----------------------------------------------------------------------------
(* Every acknowledged order message is accounted for *)

(* Which steps touch a delivery's records. *)
LEMMA Frame ==
    ASSUME TypeOK, [Next]_vars, NEW t \in Trx
    PROVE  /\ handler'[t] = handler[t] \/ Consume(t) \/ Restart
           /\ \/ retry'[t] = retry[t]
              \/ RetryStep(t) \/ HandleReply(t) \/ Publish(t) \/ Restart
           /\ \/ callback'[t] = callback[t]
              \/ CallbackLookup(t) \/ CallbackStep(t) \/ Restart
<1>1. ASSUME NEW u \in Trx, Consume(u), u # t
      PROVE  handler'[t] = handler[t] /\ retry'[t] = retry[t]
  <2>1. ASSUME NEW m \in Msgs, Deliver(u, m)
        PROVE  handler'[t] = handler[t] /\ retry'[t] = retry[t]
    BY <1>1, <2>1, DeliverFacts DEF Deliver
  <2>2. CASE InsertTransaction(u) \/ CallProvider(u) \/ LogStatus(u)
    BY <1>1, <2>2, GotoFacts DEF InsertTransaction, CallProvider, LogStatus
  <2>3. CASE BrowseOffer(u)
    BY <1>1, <2>3, GotoFacts, DecideFacts DEF BrowseOffer
  <2>4. CASE HandleReply(u)
    BY <1>1, <2>4, DecideFacts, StartRetryFacts DEF HandleReply
  <2>5. CASE Publish(u)
    BY <1>1, <2>5, GotoFacts, StartRetryFacts DEF Publish
  <2>6. CASE Ack(u)
    BY <1>1, <2>6 DEF Ack, TypeOK
  <2> QED BY <1>1, <2>1, <2>2, <2>3, <2>4, <2>5, <2>6 DEF Consume
<1>2. ASSUME NEW u \in Trx, RetryStep(u)
      PROVE  /\ UNCHANGED <<handler, callback>>
             /\ u # t => retry'[t] = retry[t]
  BY ZenonT(60), <1>2, RetryWakeFacts, CheckDecidesFacts, CheckAgainFacts, CheckExhaustedFacts,
     RetryGotoFacts DEF RetryStep, RetryLogStatus, RetryPublish, TypeOK
<1>3. ASSUME NEW u \in Trx, CallbackLookup(u)
      PROVE  /\ UNCHANGED <<handler, retry>>
             /\ u # t => callback'[t] = callback[t]
  BY <1>3, CallbackLookupFacts DEF CallbackLookup
<1>4. ASSUME NEW u \in Trx, CallbackStep(u)
      PROVE  /\ UNCHANGED <<handler, retry>>
             /\ u # t => callback'[t] = callback[t]
  BY <1>4, CallbackGotoFacts DEF CallbackStep, CallbackWrite, CallbackPublish, TypeOK
<1>5. ASSUME Consume(t), ~HandleReply(t), ~Publish(t)
      PROVE  UNCHANGED retry
  BY <1>5 DEF Consume, Deliver, InsertTransaction, BrowseOffer, CallProvider,
     LogStatus, Ack
<1>6. ASSUME NEW u \in Trx, Consume(u)
      PROVE  UNCHANGED callback
  BY <1>6 DEF Consume, Deliver, InsertTransaction, BrowseOffer, CallProvider,
     HandleReply, LogStatus, Publish, Ack
<1>7. ASSUME NEW u \in Trx, ProviderDecides(u)
      PROVE  UNCHANGED <<handler, retry, callback>>
  BY <1>7 DEF ProviderDecides
<1>8. CASE SessionLost \/ Shutdown \/ UNCHANGED vars
  BY <1>8 DEF SessionLost, Shutdown, vars
<1>9. CASE Crash \/ Exit
  BY <1>9 DEF Crash, Exit
<1>10. CASE \E u \in Trx : Consume(u)
  BY <1>1, <1>5, <1>6, <1>10
<1>11. CASE \E u \in Trx : RetryStep(u)
  BY <1>2, <1>11
<1>12. CASE \E u \in Trx : CallbackLookup(u) \/ CallbackStep(u) \/ ProviderDecides(u)
  BY <1>3, <1>4, <1>7, <1>12
<1> QED BY <1>8, <1>9, <1>10, <1>11, <1>12 DEF Next

(* What went downstream stays there, and so do the known holes. *)
LEMMA Growing ==
    ASSUME TypeOK, [Next]_vars, NEW m \in Msgs
    PROVE  published[m] \subseteq published'[m] /\ gap[m] \subseteq gap'[m]
<1> DEFINE Grown == published[m] \subseteq published'[m] /\ gap[m] \subseteq gap'[m]
<1>1. ASSUME NEW u \in Trx, Publish(u) \/ RetryPublish(u) \/ CallbackPublish(u)
      PROVE  Grown
  <2>1. ASSUME NEW n, NEW x, PublishToDownstream(n, x)
        PROVE  Grown
    BY <2>1, PublishFacts
  <2> QED BY <1>1, <2>1 DEF Publish, RetryPublish, CallbackPublish
<1>2. ASSUME NEW u \in Trx, CheckExhausted(u)
      PROVE  Grown
  BY <1>2, ExhaustedGap DEF CheckExhausted
<1>3. CASE Restart
  BY <1>3 DEF Restart
<1>4. CASE UNCHANGED <<published, gap>>
  BY <1>4
<1>5. ASSUME NEW u \in Trx, Consume(u)
      PROVE  Grown
  BY <1>1, <1>4, <1>5 DEF Consume, Deliver, InsertTransaction, BrowseOffer,
     CallProvider, HandleReply, LogStatus, Ack
<1>6. ASSUME NEW u \in Trx, RetryStep(u)
      PROVE  Grown
  BY <1>1, <1>2, <1>4, <1>6 DEF RetryStep, RetryWake, CheckDecides, CheckAgain,
     RetryLogStatus
<1>7. ASSUME NEW u \in Trx, CallbackLookup(u) \/ CallbackStep(u) \/ ProviderDecides(u)
      PROVE  Grown
  BY <1>1, <1>4, <1>7 DEF CallbackLookup, CallbackStep, CallbackWrite, ProviderDecides
<1>8. CASE SessionLost \/ Shutdown \/ UNCHANGED vars
  BY <1>4, <1>8 DEF SessionLost, Shutdown, vars
<1> QED BY <1>3, <1>5, <1>6, <1>7, <1>8 DEF Next, Crash, Exit

LEMMA ClosedStable ==
    ASSUME TypeOK, [Next]_vars, NEW m \in Msgs, Closed(m)
    PROVE  Closed(m)'
BY Growing DEF Closed, Settled

(* A restart makes a hole of every debt. *)
LEMMA RestartFacts ==
    ASSUME TypeOK, Restart, NEW m \in Msgs, Owed(m)
    PROVE  Closed(m)'
BY DEF Restart, Closed, TypeOK

(* A final status that leaves for downstream closes the message. *)
LEMMA PublishCloses ==
    ASSUME TypeOK, NEW m \in Msgs, NEW s \in {"F", "C"}, PublishToDownstream(m, s)
    PROVE  Closed(m)'
BY PublishFacts DEF Closed, Settled

(* Debts are kept or settled. *)
LEMMA HandlerOwesStep ==
    ASSUME TruthInv, [Next]_vars, NEW m \in Msgs, NEW t \in Trx, HandlerOwes(t, m)
    PROVE  HandlerOwes(t, m)' \/ Closed(m)'
<1>a. TypeOK /\ HandlerInvOf(t)
  BY DEF TruthInv, HandlerInv
<1>1. CASE handler'[t] = handler[t]
  BY <1>1 DEF HandlerOwes
<1>2. CASE Consume(t)
  <2>1. Publish(t)
    BY <1>2 DEF HandlerOwes, Consume, Deliver, InsertTransaction, BrowseOffer,
       CallProvider, HandleReply, LogStatus, Ack
  <2>2. StatusToBe(handler[t].out) \in {"F", "C"}
    <3>1. handler[t].out \in {"F", "C", "return"}
      BY <1>a DEF HandlerOwes, HandlerInvOf, TypeOK, Deliveries, Outcomes
    <3> QED BY <3>1 DEF StatusToBe
  <2> QED BY <1>a, <2>1, <2>2, PublishCloses DEF Publish, HandlerOwes
<1>3. CASE Restart
  BY <1>a, <1>3, RestartFacts DEF Owed
<1> QED BY <1>a, <1>1, <1>2, <1>3, Frame

LEMMA RetryOwesStep ==
    ASSUME TruthInv, [Next]_vars, NEW m \in Msgs, NEW t \in Trx, RetryOwes(t, m)
    PROVE  \/ /\ RetryOwes(t, m)'
              /\ retry[t].pc \in {"mark", "publish"}
                   => retry'[t].pc \in {"mark", "publish"}
           \/ Closed(m)'
           \/ RetryWake(t) /\ Resolved(m)
<1>a. TypeOK /\ HandlerInvOf(t) /\ HandlerInv
  BY DEF TruthInv, HandlerInv
<1>b. handler[t].msg = m /\ handler'[t].msg = m
  BY <1>a, Monotone, MsgAssumption DEF RetryOwes, HandlerInvOf
<1>1. CASE retry'[t] = retry[t]
  BY <1>b, <1>1 DEF RetryOwes, Retrying
<1>2. CASE RetryStep(t)
  <2>1. CASE RetryWake(t)
    BY <1>a, <1>b, <2>1, RetryWakeFacts DEF RetryOwes, Retrying
  <2>2. CASE CheckDecides(t)
    BY <1>a, <1>b, <2>2, CheckDecidesFacts DEF RetryOwes, Retrying
  <2>3. CASE CheckAgain(t)
    <3>1. retry[t].pc = "query" /\ retry'[t].pc = "sleep"
      BY <1>a, <2>3, CheckAgainFacts
    <3> QED BY <1>b, <3>1 DEF RetryOwes, Retrying
  <2>4. CASE CheckExhausted(t)
    BY <1>a, <1>b, <2>4, ExhaustedGap DEF Closed
  <2>5. CASE RetryLogStatus(t)
    BY <1>a, <1>b, <2>5, RetryGotoFacts DEF RetryLogStatus, RetryOwes, Retrying
  <2>6. CASE RetryPublish(t)
    BY <1>a, <1>b, <2>6, PublishCloses DEF RetryPublish, TypeOK, Retries
  <2> QED BY <1>2, <2>1, <2>2, <2>3, <2>4, <2>5, <2>6 DEF RetryStep
<1>3. ~(HandleReply(t) \/ Publish(t))
  BY <1>a DEF HandleReply, Publish, HandlerInvOf, RetryOwes, Retrying
<1>4. CASE Restart
  BY <1>a, <1>4, RestartFacts DEF Owed
<1> QED BY <1>a, <1>1, <1>2, <1>3, <1>4, Frame

LEMMA CallbackOwesStep ==
    ASSUME TruthInv, [Next]_vars, NEW m \in Msgs, NEW t \in Trx, CallbackOwes(t, m)
    PROVE  CallbackOwes(t, m)' \/ Closed(m)'
<1>a. TypeOK
  BY DEF TruthInv
<1>1. CASE callback'[t] = callback[t]
  BY <1>1 DEF CallbackOwes
<1>2. CASE CallbackLookup(t)
  BY <1>a, <1>2, CallbackLookupFacts DEF CallbackOwes
<1>3. CASE CallbackStep(t)
  <2>1. CASE CallbackPublish(t)
    BY <1>a, <2>1, PublishCloses DEF CallbackPublish, CallbackOutcome, CallbackOwes
  <2>2. ASSUME NEW from, NEW to \in {"update", "publish"}, CallbackWrite(t, from, to)
        PROVE  CallbackOwes(t, m)'
    BY <1>a, <2>2, CallbackGotoFacts DEF CallbackWrite, CallbackOwes
  <2> QED BY <1>3, <2>1, <2>2 DEF CallbackStep
<1>4. CASE Restart
  BY <1>a, <1>4, RestartFacts DEF Owed
<1> QED BY <1>a, <1>1, <1>2, <1>3, <1>4, Frame

LEMMA CommittedStable ==
    ASSUME TruthInv, [Next]_vars, NEW m \in Msgs, Committed(m)
    PROVE  Committed(m)'
<1>a. TypeOK /\ HandlerInv
  BY DEF TruthInv
<1>1. CASE Closed(m)
  BY <1>a, <1>1, ClosedStable DEF Committed
<1>2. ASSUME NEW t \in Trx, HandlerOwes(t, m)
      PROVE  Committed(m)'
  BY <1>2, HandlerOwesStep DEF Committed, Announcing
<1>3. ASSUME NEW t \in Trx, handler[t].msg = m, retry[t].pc \in {"mark", "publish"}
      PROVE  Committed(m)'
  <2>1. RetryOwes(t, m)
    BY <1>3 DEF RetryOwes, Retrying
  <2>2. ~RetryWake(t)
    BY <1>3 DEF RetryWake
  <2>3. RetryOwes(t, m)' => handler'[t].msg = m
    BY DEF RetryOwes
  <2> QED BY <1>3, <2>1, <2>2, <2>3, RetryOwesStep DEF Committed, Announcing
<1>4. ASSUME NEW t \in Trx, CallbackOwes(t, m)
      PROVE  Committed(m)'
  BY <1>4, CallbackOwesStep DEF Committed, Announcing
<1> QED BY <1>1, <1>2, <1>3, <1>4 DEF Committed, Announcing

LEMMA CommittedTracked ==
    ASSUME NEW m \in Msgs, Committed(m)'
    PROVE  Tracked(m)'
BY DEF Committed, Tracked, Announcing, Owed, RetryOwes, Retrying

(* The data loop's early stop is the one way a debt is dropped, and it is  *)
(* taken only when somebody else is committed to the message.              *)
LEMMA TrackedStable ==
    ASSUME TruthInv, ResolvedInv, [Next]_vars, NEW m \in Msgs, Tracked(m)
    PROVE  Tracked(m)'
<1>a. TypeOK /\ HandlerInv
  BY DEF TruthInv
<1>1. CASE Closed(m)
  BY <1>a, <1>1, ClosedStable DEF Tracked
<1>2. ASSUME NEW t \in Trx, HandlerOwes(t, m)
      PROVE  Tracked(m)'
  BY <1>2, HandlerOwesStep DEF Tracked, Owed
<1>3. ASSUME NEW t \in Trx, RetryOwes(t, m)
      PROVE  Tracked(m)'
  <2>1. CASE Resolved(m)
    BY <2>1, CommittedStable, CommittedTracked DEF ResolvedInv
  <2>2. CASE ~Resolved(m)
    BY <1>3, <2>2, RetryOwesStep DEF Tracked, Owed
  <2> QED BY <2>1, <2>2
<1>4. ASSUME NEW t \in Trx, CallbackOwes(t, m)
      PROVE  Tracked(m)'
  BY <1>4, CallbackOwesStep DEF Tracked, Owed
<1> QED BY <1>1, <1>2, <1>3, <1>4 DEF Tracked, Owed

LEMMA ResolvedStep ==
    ASSUME TruthInv, ResolvedInv, [Next]_vars
    PROVE  ResolvedInv'
<1>a. TypeOK
  BY DEF TruthInv
<1> SUFFICES ASSUME NEW m \in Msgs, Resolved(m)'
             PROVE  Committed(m)'
  BY DEF ResolvedInv
<1>1. CASE Resolved(m)
  BY <1>1, CommittedStable DEF ResolvedInv
<1>2. CASE ~Resolved(m)
  <2>a. row'[m].status # row[m].status /\ row'[m].status \in {"SUCCESS", "FAILED"}
    BY <1>2 DEF Resolved
  <2>1. ASSUME NEW u \in Trx, LogStatus(u)
        PROVE  Committed(m)'
    <3>1. m = handler[u].msg /\ row'[m].status = StatusOf(handler[u].out)
      BY <1>a, <2>a, <2>1, WriteFacts DEF LogStatus
    <3>2. handler[u].out # "S"
      BY <2>a, <3>1 DEF StatusOf
    <3>3. HandlerOwes(u, m)'
      BY <1>a, <2>1, <3>1, <3>2, GotoFacts DEF LogStatus, HandlerOwes
    <3> QED BY <3>3 DEF Committed, Announcing
  <2>2. ASSUME NEW u \in Trx, RetryLogStatus(u)
        PROVE  Committed(m)'
    <3>1. m = handler[u].msg
      BY <1>a, <2>a, <2>2 DEF RetryLogStatus, TypeOK, LogUpdateStatus,
         UpdateTransactionStatus, Rows
    <3>2. retry'[u].pc = "publish" /\ UNCHANGED handler
      BY <1>a, <2>2, RetryGotoFacts DEF RetryLogStatus
    <3> QED BY <3>1, <3>2 DEF Committed, Announcing
  <2>3. ASSUME NEW u \in Trx, NEW from, NEW to \in {"update", "publish"},
               CallbackWrite(u, from, to)
        PROVE  Committed(m)'
    <3>1. m = callback[u].msg
      BY <1>a, <2>a, <2>3 DEF CallbackWrite, TypeOK, LogUpdateStatus,
         UpdateTransactionStatus, Rows
    <3>2. CallbackOwes(u, m)'
      BY <1>a, <2>3, <3>1, CallbackGotoFacts DEF CallbackWrite, CallbackOwes
    <3> QED BY <3>2 DEF Committed, Announcing
  <2>4. ~UNCHANGED row
    BY <2>a
  <2>5. ASSUME NEW u \in Trx, InsertTransaction(u)
        PROVE  FALSE
    BY <1>a, <2>a, <2>5 DEF InsertTransaction, TypeOK, Rows
  <2>6. ASSUME NEW u \in Trx, Consume(u)
        PROVE  Committed(m)'
    BY <2>1, <2>4, <2>5, <2>6 DEF Consume, Deliver, BrowseOffer, CallProvider,
       HandleReply, Publish, Ack
  <2>7. ASSUME NEW u \in Trx, RetryStep(u)
        PROVE  Committed(m)'
    BY <2>2, <2>4, <2>7 DEF RetryStep, RetryWake, CheckDecides, CheckAgain,
       CheckExhausted, RetryPublish
  <2>8. ASSUME NEW u \in Trx, CallbackLookup(u) \/ CallbackStep(u) \/ ProviderDecides(u)
        PROVE  Committed(m)'
    BY <2>3, <2>4, <2>8 DEF CallbackLookup, CallbackStep, CallbackPublish,
       ProviderDecides
  <2>9. ~(SessionLost \/ Shutdown \/ Crash \/ Exit \/ UNCHANGED vars)
    BY <2>4 DEF SessionLost, Shutdown, Crash, Exit, Restart, vars
  <2> QED BY <2>6, <2>7, <2>8, <2>9 DEF Next
<1> QED BY <1>1, <1>2

LEMMA AckStep ==
    ASSUME TruthInv, ResolvedInv, AckInv, [Next]_vars
    PROVE  AckInv'
<1>a. TypeOK /\ HandlerInv
  BY DEF TruthInv
<1> SUFFICES ASSUME NEW t \in Trx, NEW m \in Orders,
                    handler'[t].pc = "ack", handler'[t].msg = m
             PROVE  Tracked(m)'
  BY DEF AckInv
<1>b. m \in Msgs /\ m \notin Junk
  BY MsgAssumption DEF Msgs
<1>1. CASE handler[t].pc = "ack"
  <2>1. handler[t].msg = m
    BY <1>a, <1>1, Monotone
  <2>2. Tracked(m)
    BY <1>1, <2>1 DEF AckInv
  <2> QED BY <1>b, <2>2, TrackedStable
<1>2. CASE handler[t].pc # "ack"
  <2>1. Consume(t)
    <3>1. ~Restart
      BY <1>a, <1>2, FinishedFacts DEF Restart, TypeOK
    <3> QED BY <1>a, <1>2, <3>1, Frame
  <2>2. CASE HandleReply(t)
    <3>1. retry'[t].pc = "sleep"
      BY <1>a, <2>2, DecideFacts, StartRetryFacts DEF HandleReply
    <3>2. RetryOwes(t, m)'
      BY <3>1 DEF RetryOwes, Retrying
    <3> QED BY <3>2 DEF Tracked, Owed
  <2>3. CASE Publish(t)
    <3>1. handler[t].msg = m /\ handler[t].out # "return"
      BY <1>a, <2>3, GotoFacts DEF Publish
    <3>2. CASE handler[t].out = "S"
      <4>1. RetryOwes(t, m)'
        BY <1>a, <2>3, <3>2, StartRetryFacts DEF Publish, RetryOwes, Retrying
      <4> QED BY <4>1 DEF Tracked, Owed
    <3>3. CASE handler[t].out # "S"
      <4>1. StatusToBe(handler[t].out) \in {"F", "C"}
        BY <1>a, <2>3, <3>1, <3>3 DEF Publish, HandlerInv, HandlerInvOf, TypeOK,
           Deliveries, Outcomes, StatusToBe
      <4> QED BY <1>a, <1>b, <2>3, <3>1, <4>1, PublishCloses DEF Publish, Tracked
    <3> QED BY <3>2, <3>3
  <2>4. ~(HandleReply(t) \/ Publish(t)) => FALSE
    <3>1. ASSUME NEW n \in Msgs, Deliver(t, n)
          PROVE  FALSE
      BY <1>a, <1>b, <3>1, DeliverFacts
    <3>2. ~(InsertTransaction(t) \/ CallProvider(t) \/ LogStatus(t))
      BY <1>a, GotoFacts DEF InsertTransaction, CallProvider, LogStatus
    <3>3. ~BrowseOffer(t)
      BY <1>a, GotoFacts, DecideFacts DEF BrowseOffer
    <3>4. ~Ack(t)
      BY <1>2 DEF Ack
    <3> QED BY <2>1, <3>1, <3>2, <3>3, <3>4 DEF Consume
  <2> QED BY <2>2, <2>3, <2>4
<1> QED BY <1>1, <1>2

(* A message becomes acknowledged only by the Ack of its delivery: every   *)
(* other end of a delivery requeues it.                                    *)
LEMMA NewlyAcked ==
    ASSUME TruthInv, [Next]_vars, NEW m \in Orders, Acked(m)', ~Acked(m)
    PROVE  \E t \in Trx : handler[t].pc = "ack" /\ handler[t].msg = m
<1>a. TypeOK /\ HandlerInv
  BY DEF TruthInv
<1>b. m \in Msgs /\ None \notin Msgs /\ None \notin Trx
  BY MsgAssumption, TrxAssumption DEF Msgs
<1> SUFFICES ASSUME \A t \in Trx : ~(handler[t].pc = "ack" /\ handler[t].msg = m)
             PROVE  FALSE
  OBVIOUS
<1> DEFINE InHand == unacked # None /\ handler[unacked].msg = m
<1>c. (m \in ready \/ InHand) /\ m \notin ready'
      /\ (unacked' = None \/ handler'[unacked'].msg # m)
  BY DEF Acked
<1>1. ASSUME ready' = ready, unacked' = unacked
      PROVE  FALSE
  <2>1. InHand
    BY <1>c, <1>1
  <2>2. unacked \in Trx /\ handler[unacked].pc # "free"
    BY <1>a, <1>b, <2>1 DEF TypeOK, HandlerInv, HandlerInvOf
  <2> QED BY <1>a, <1>c, <1>1, <2>1, <2>2, Monotone
<1>2. ASSUME ready' = Requeued
      PROVE  FALSE
  BY <1>c, <1>2 DEF Requeued
<1>3. ASSUME NEW u \in Trx, NEW n \in Msgs, Deliver(u, n)
      PROVE  FALSE
  <2>1. unacked = None /\ unacked' = u /\ ready' = ready \ {n}
    BY <1>3 DEF Deliver
  <2>2. m = n
    BY <1>c, <2>1
  <2> QED BY <1>a, <1>b, <1>c, <1>3, <2>1, <2>2, DeliverFacts
<1>4. ASSUME NEW u \in Trx, Ack(u)
      PROVE  FALSE
  <2>1. CASE unacked = u
    BY <1>c, <1>4, <2>1 DEF Ack
  <2>2. CASE unacked # u
    BY <1>1, <1>4, <2>2 DEF Ack
  <2> QED BY <2>1, <2>2
<1>5. ASSUME NEW u \in Trx, Consume(u)
      PROVE  FALSE
  BY <1>1, <1>3, <1>4, <1>5 DEF Consume, InsertTransaction, BrowseOffer,
     CallProvider, HandleReply, LogStatus, Publish
<1>6. ASSUME NEW u \in Trx, RetryStep(u)
      PROVE  FALSE
  BY <1>1, <1>6 DEF RetryStep, RetryWake, CheckDecides, CheckAgain, CheckExhausted,
     RetryLogStatus, RetryPublish
<1>7. ASSUME NEW u \in Trx, CallbackLookup(u) \/ CallbackStep(u) \/ ProviderDecides(u)
      PROVE  FALSE
  BY <1>1, <1>7 DEF CallbackLookup, CallbackStep, CallbackWrite, CallbackPublish,
     ProviderDecides
<1>8. CASE SessionLost \/ Crash \/ Exit
  BY <1>2, <1>8 DEF SessionLost, Crash, Exit, Restart
<1>9. CASE Shutdown \/ UNCHANGED vars
  BY <1>1, <1>9 DEF Shutdown, vars
<1> QED BY <1>5, <1>6, <1>7, <1>8, <1>9 DEF Next

LEMMA AccountInit == Init => AccountInv
<1> SUFFICES ASSUME Init PROVE AccountInv
  OBVIOUS
<1>1. TruthInv
  BY TruthInit
<1>2. ResolvedInv /\ AckInv /\ AckedAccounted
  BY DEF Init, ResolvedInv, Resolved, AckInv, AckedAccounted, Acked, Msgs
<1> QED BY <1>1, <1>2 DEF AccountInv

LEMMA AccountStep ==
    ASSUME AccountInv, [Next]_vars
    PROVE  AccountInv'
<1>a. TruthInv /\ ResolvedInv /\ AckInv /\ AckedAccounted
  BY DEF AccountInv
<1>1. TruthInv' /\ ResolvedInv' /\ AckInv'
  BY <1>a, TruthStep, ResolvedStep, AckStep
<1>2. ASSUME NEW m \in Orders, Acked(m)'
      PROVE  Tracked(m)'
  <2>1. Tracked(m)
    <3>1. CASE Acked(m)
      BY <1>a, <3>1 DEF AckedAccounted, Tracked, Closed
    <3>2. CASE ~Acked(m)
      BY <1>a, <1>2, <3>2, NewlyAcked DEF AckInv
    <3> QED BY <3>1, <3>2
  <2> QED BY <1>a, <2>1, TrackedStable DEF Msgs
<1>3. AckedAccounted'
  BY <1>2 DEF AckedAccounted, Tracked, Closed
<1> QED BY <1>1, <1>3 DEF AccountInv

(* No order message disappears: once it has left the queue for good, a     *)
(* final status is downstream, or a goroutine still owes one, or a         *)
(* swallowed error, a death or the last attempt explains its absence.      *)
THEOREM AccountCorrect == Spec => []AckedAccounted
<1>1. AccountInv => AckedAccounted
  BY DEF AccountInv
<1> QED BY <1>1, AccountInit, AccountStep, PTL DEF Spec

-----------------------------------------------------------------------------
(* What the platform sees of a step *)

Held(m) == ~Acked(m) \/ Owed(m)

(* As every acknowledged order is accounted for, whatever a step lets go   *)
(* of is settled or in a known hole.                                       *)
LEMMA Released ==
    ASSUME AckedAccounted'
    PROVE  Platform!LetGo
BY DEF AckedAccounted, Platform!LetGo, Platform!Final, Settled

(* A step that tells nothing changes the view of one order at most: the    *)
(* order is taken up, or let go of, or nothing is seen.                    *)
LEMMA Quiet ==
    ASSUME AckedAccounted', UNCHANGED <<published, gap>>, NEW o,
           \A m \in Orders : Delivered(m)' <=> Delivered(m),
           \A m \in Orders \ {o} : Held(m)' <=> Held(m)
    PROVE  [Platform!Next]_Platform!vars
<1>1. CASE \A m \in Orders : Held(m)' <=> Held(m)
  BY <1>1 DEF Platform!vars, Held
<1>2. CASE o \in Orders /\ Held(o)'
  <2>1. Platform!TakeUp(o)
    BY <1>2 DEF Platform!TakeUp, Held
  <2> QED BY <1>2, <2>1 DEF Platform!Next
<1>3. CASE o \in Orders /\ ~Held(o)'
  <2>1. Platform!Lose({})
    BY <1>3, Released DEF Platform!Lose, Held
  <2> QED BY <2>1 DEF Platform!Next
<1> QED BY <1>1, <1>2, <1>3

(* Whoever owes a final status publishes it, or fails to and leaves a hole.*)
LEMMA Tells ==
    ASSUME AckedAccounted', TypeOK, NEW o \in Msgs, NEW s \in {"F", "C", "S"},
           PublishToDownstream(o, s), s # "S" => Held(o), s = "F" => Delivered(o),
           \A m \in Orders : Delivered(m)' <=> Delivered(m),
           \A m \in Orders \ {o} : Held(m)' <=> Held(m)
    PROVE  [Platform!Next]_Platform!vars
<1> DEFINE Live == {m \in Orders : ~Acked(m) \/ Owed(m)}
           Excused == {m \in Orders : gap[m] # {}}
<1>0. /\ published \in [Msgs -> SUBSET {"F", "C", "S"}]
      /\ gap \in [Msgs -> SUBSET Gaps] /\ Orders \subseteq Msgs
  BY DEF TypeOK, Msgs
<1>1. {m \in Orders : Delivered(m)'} = {m \in Orders : Delivered(m)}
  OBVIOUS
<1>2. CASE published' = [published EXCEPT ![o] = @ \cup {s}] /\ UNCHANGED gap
  <2>1. CASE o \in Orders
    <3>1. /\ Live' \in {Live \ {o}, Live, Live \cup {o}}
          /\ s \in {"F", "C"} => o \in Live
      BY <2>1 DEF Held
    <3>2. [m \in Orders |-> published'[m]]
            = [[m \in Orders |-> published[m]] EXCEPT ![o] = @ \cup {s}]
      BY <1>0, <1>2, <2>1
    <3>3. Platform!Tell(o, s)
      BY <1>1, <1>2, <2>1, <3>1, <3>2, Released DEF Platform!Tell, Platform!Final
    <3> QED BY <2>1, <3>3 DEF Platform!Next
  <2>2. CASE o \notin Orders
    <3>1. [m \in Orders |-> published'[m]] = [m \in Orders |-> published[m]]
      BY <1>0, <1>2, <2>2
    <3> QED BY <1>1, <1>2, <2>2, <3>1 DEF Platform!vars, Held
  <2> QED BY <2>1, <2>2
<1>3. CASE UNCHANGED <<published, gap>>
  BY <1>3, Quiet
<1>4. CASE s # "S" /\ gap' = [gap EXCEPT ![o] = @ \cup {"publish"}] /\ UNCHANGED published
  <2>1. CASE o \in Orders
    <3>1. Excused' = Excused \cup {o}
      BY <1>0, <1>4, <2>1
    <3>2. o \in Live /\ Live' \in SUBSET Live
      BY <1>4, <2>1 DEF Held
    <3>3. Platform!Lose({o})
      BY <1>1, <1>4, <3>1, <3>2, Released DEF Platform!Lose
    <3> QED BY <3>2, <3>3 DEF Platform!Next
  <2>2. CASE o \notin Orders
    <3>1. Excused' = Excused
      BY <1>0, <1>4, <2>2
    <3> QED BY <1>1, <1>4, <2>2, <3>1 DEF Platform!vars, Held
  <2> QED BY <2>1, <2>2
<1>5. \/ published' = [published EXCEPT ![o] = @ \cup {s}] /\ UNCHANGED gap
      \/ UNCHANGED <<published, gap>>
      \/ s # "S" /\ gap' = [gap EXCEPT ![o] = @ \cup {"publish"}] /\ UNCHANGED published
  <2>1. [gap EXCEPT ![o] = @] = gap
    BY <1>0
  <2> QED BY <2>1 DEF PublishToDownstream
<1> QED BY <1>2, <1>3, <1>4, <1>5

(* Goroutines end without a word and leave holes in what they owed.        *)
LEMMA Loses ==
    ASSUME AckedAccounted', UNCHANGED published, NEW Lost \in SUBSET Orders,
           \A m \in Orders : /\ Held(m)' => Held(m)
                             /\ m \in Lost => Held(m) /\ gap'[m] # {}
                             /\ m \notin Lost => gap'[m] = gap[m]
                             /\ Delivered(m)' <=> Delivered(m)
    PROVE  Platform!Next
<1> DEFINE Live == {m \in Orders : ~Acked(m) \/ Owed(m)}
<1>1. Lost \in SUBSET Live /\ Live' \in SUBSET Live
  BY DEF Held
<1>2. {m \in Orders : gap'[m] # {}} = {m \in Orders : gap[m] # {}} \cup Lost
  OBVIOUS
<1>3. {m \in Orders : Delivered(m)'} = {m \in Orders : Delivered(m)}
  OBVIOUS
<1>4. Platform!Lose(Lost)
  BY <1>1, <1>2, <1>3, Released DEF Platform!Lose
<1> QED BY <1>1, <1>4 DEF Platform!Next

(* The provider completes an order.                                        *)
LEMMA Completes ==
    ASSUME UNCHANGED <<published, gap>>, NEW o,
           Delivered(o) => Delivered(o)',
           \A m \in Orders : Held(m)' <=> Held(m),
           \A m \in Orders \ {o} : Delivered(m)' <=> Delivered(m)
    PROVE  [Platform!Next]_Platform!vars
<1>1. CASE \A m \in Orders : Delivered(m)' <=> Delivered(m)
  BY <1>1 DEF Platform!vars, Held
<1>2. CASE o \in Orders /\ Delivered(o)'
  <2>1. Platform!Complete(o)
    BY <1>2 DEF Platform!Complete, Held
  <2> QED BY <1>2, <2>1 DEF Platform!Next
<1> QED BY <1>1, <1>2

-----------------------------------------------------------------------------
(* The refinement *)

(* A callback being handled is for the order of its delivery, so whatever  *)
(* a delivery's goroutines owe is owed for the delivery's message.         *)
Owes(t) == \/ handler[t].pc = "publish" /\ handler[t].out # "S"
           \/ Retrying(t)
           \/ callback[t].pc \in {"update", "publish"}

LEMMA OwedOwes ==
    ASSUME LinkInv, NEW m
    PROVE  Owed(m) <=> \E t \in Trx : handler[t].msg = m /\ Owes(t)
BY DEF LinkInv, Owed, Owes, HandlerOwes, RetryOwes, CallbackOwes

(* Steps of the goroutines of one delivery. *)
Local(t) ==
    /\ ready' = ready
    /\ unacked' = unacked \/ (unacked = t /\ unacked' = None)
    /\ \A u \in Trx : handler'[u].msg = handler[u].msg
    /\ \A u \in Trx \ {t} : /\ handler'[u] = handler[u]
                            /\ retry'[u] = retry[u]
                            /\ callback'[u] = callback[u]

LEMMA LocalView ==
    ASSUME TypeOK, LinkInv, LinkInv', NEW t \in Trx, Local(t), NEW m \in Msgs
    PROVE  /\ m # handler[t].msg => (Held(m)' <=> Held(m))
           /\ unacked' = unacked /\ (Owes(t)' <=> Owes(t)) => (Held(m)' <=> Held(m))
           /\ m = handler[t].msg /\ Owes(t) => Held(m)
<1>1. /\ Owed(m) <=> \E u \in Trx : handler[u].msg = m /\ Owes(u)
      /\ Owed(m)' <=> \E u \in Trx : handler'[u].msg = m /\ Owes(u)'
  <2>1. Owed(m) <=> \E u \in Trx : handler[u].msg = m /\ Owes(u)
    BY OwedOwes
  <2>2. Owed(m)' <=> \E u \in Trx : handler'[u].msg = m /\ Owes(u)'
    BY DEF LinkInv, Owed, Owes, HandlerOwes, RetryOwes, CallbackOwes
  <2> QED BY <2>1, <2>2
<1>2. \A u \in Trx \ {t} : Owes(u)' <=> Owes(u)
  BY DEF Local, Owes, Retrying
<1>3. m # handler[t].msg \/ unacked' = unacked => (Acked(m)' <=> Acked(m))
  BY TrxAssumption DEF Acked, Local, TypeOK
<1>4. \A u \in Trx : handler'[u].msg = handler[u].msg
  BY DEF Local
<1> QED BY <1>1, <1>2, <1>3, <1>4 DEF Held

LEMMA LocalDelivered ==
    ASSUME NEW t \in Trx, Local(t), UNCHANGED order
    PROVE  \A m : Delivered(m)' <=> Delivered(m)
BY DEF Local, Delivered

LEMMA ConsumeLocal ==
    ASSUME TypeOK, NEW t \in Trx, Consume(t), \A m \in Msgs : ~Deliver(t, m)
    PROVE  Local(t)
<1>1. UNCHANGED callback /\ ready' = ready
  BY DEF Consume, InsertTransaction, BrowseOffer, CallProvider, HandleReply,
     LogStatus, Publish, Ack
<1>2. unacked' = unacked \/ (unacked = t /\ unacked' = None)
  BY DEF Consume, InsertTransaction, BrowseOffer, CallProvider, HandleReply,
     LogStatus, Publish, Ack
<1>3. \A u \in Trx \ {t} : retry'[u] = retry[u]
  BY StartRetryFacts DEF Consume, InsertTransaction, BrowseOffer, CallProvider,
     HandleReply, LogStatus, Publish, Ack
<1>4. ASSUME NEW pc, Goto(t, pc)
      PROVE  /\ handler'[t].msg = handler[t].msg
             /\ \A u \in Trx \ {t} : handler'[u] = handler[u]
  BY <1>4, GotoFacts
<1>5. ASSUME NEW out, Decide(t, out)
      PROVE  /\ handler'[t].msg = handler[t].msg
             /\ \A u \in Trx \ {t} : handler'[u] = handler[u]
  BY <1>5, DecideFacts
<1>6. CASE Ack(t)
  <2>1. /\ handler'[t].msg = handler[t].msg
        /\ \A u \in Trx \ {t} : handler'[u] = handler[u]
    BY <1>6, FinishedFacts DEF Ack, TypeOK
  <2> QED BY <1>1, <1>2, <1>3, <2>1 DEF Local
<1>7. CASE ~Ack(t)
  <2>1. /\ handler'[t].msg = handler[t].msg
        /\ \A u \in Trx \ {t} : handler'[u] = handler[u]
    BY <1>4, <1>5, <1>7 DEF Consume, InsertTransaction, BrowseOffer, CallProvider,
       HandleReply, LogStatus, Publish
  <2> QED BY <1>1, <1>2, <1>3, <2>1 DEF Local
<1> QED BY <1>6, <1>7

LEMMA RetryLocal ==
    ASSUME TypeOK, NEW t \in Trx, RetryStep(t)
    PROVE  Local(t) /\ UNCHANGED order
<1>1. UNCHANGED <<ready, unacked, handler, callback, order>>
  BY DEF RetryStep, RetryWake, CheckDecides, CheckAgain, CheckExhausted,
     RetryLogStatus, RetryPublish
<1>2. \A u \in Trx \ {t} : retry'[u] = retry[u]
  <2>1. CASE RetryPublish(t)
    BY <2>1 DEF RetryPublish, TypeOK
  <2>2. CASE RetryLogStatus(t)
    BY <2>2, RetryGotoFacts DEF RetryLogStatus
  <2> QED BY <2>1, <2>2, RetryWakeFacts, CheckDecidesFacts, CheckAgainFacts,
             CheckExhaustedFacts DEF RetryStep
<1> QED BY <1>1, <1>2 DEF Local

LEMMA CallbackLocal ==
    ASSUME TypeOK, NEW t \in Trx, CallbackLookup(t) \/ CallbackStep(t)
    PROVE  Local(t) /\ UNCHANGED order
<1>1. UNCHANGED <<ready, unacked, handler, retry, order>>
  BY DEF CallbackLookup, CallbackStep, CallbackWrite, CallbackPublish
<1>2. \A u \in Trx \ {t} : callback'[u] = callback[u]
  <2>1. CASE CallbackPublish(t)
    BY <2>1 DEF CallbackPublish, TypeOK
  <2>2. ASSUME NEW from, NEW to, CallbackWrite(t, from, to)
        PROVE  \A u \in Trx \ {t} : callback'[u] = callback[u]
    BY <2>2, CallbackGotoFacts DEF CallbackWrite
  <2> QED BY <2>1, <2>2, CallbackLookupFacts DEF CallbackStep
<1> QED BY <1>1, <1>2 DEF Local

LEMMA RefineConsume ==
    ASSUME AccountInv, AccountInv', NEW t \in Trx, Consume(t)
    PROVE  [Platform!Next]_Platform!vars
<1>0. /\ TypeOK /\ HandlerInvOf(t) /\ LinkInv /\ ClaimInv /\ LinkInv'
      /\ AckedAccounted'
      /\ Orders \subseteq Msgs /\ None \notin Msgs
  BY MsgAssumption DEF AccountInv, TruthInv, HandlerInv, Msgs
<1>1. ASSUME NEW o \in Msgs, Deliver(t, o)
      PROVE  [Platform!Next]_Platform!vars
  <2>1. /\ handler[t].pc = "free" /\ handler[t].msg = None
        /\ order[t] = "none" /\ retry[t].pc = "none" /\ callback[t].pc = "idle"
    BY <1>0, <1>1 DEF Deliver, HandlerInvOf, LinkInv
  <2>2. /\ handler'[t].pc \in {"ack", "insert"} /\ handler'[t].msg = o
        /\ \A u \in Trx \ {t} : handler'[u] = handler[u]
        /\ UNCHANGED <<retry, callback, order, published, gap>>
        /\ unacked = None /\ unacked' = t /\ t # None
        /\ o \in ready /\ ready' = ready \ {o}
    BY <1>0, <1>1, DeliverFacts, TrxAssumption DEF Deliver
  <2>3. ~Owes(t) /\ ~Owes(t)' /\ \A u \in Trx \ {t} : Owes(u)' <=> Owes(u)
    BY <2>1, <2>2 DEF Owes, Retrying
  <2>4. ASSUME NEW m \in Msgs
        PROVE  Held(m)' <=> Held(m)
    <3>1. Owed(m) <=> \E u \in Trx : handler[u].msg = m /\ Owes(u)
      BY <1>0, OwedOwes
    <3>2. Owed(m)' <=> \E u \in Trx : handler'[u].msg = m /\ Owes(u)'
      BY <1>0 DEF LinkInv, Owed, Owes, HandlerOwes, RetryOwes, CallbackOwes
    <3>3. Owed(m)' <=> Owed(m)
      BY <2>2, <2>3, <3>1, <3>2
    <3>4. Acked(m)' <=> Acked(m)
      BY <2>2 DEF Acked
    <3> QED BY <3>3, <3>4 DEF Held
  <2>5. \A m \in Msgs : Delivered(m)' <=> Delivered(m)
    BY <2>1, <2>2 DEF Delivered
  <2> QED BY <1>0, <2>2, <2>4, <2>5, Quiet
<1>2. CASE \A m \in Msgs : ~Deliver(t, m)
  <2>1. Local(t)
    BY <1>0, <1>2, ConsumeLocal
  <2>2. PICK o \in Msgs : o = handler[t].msg
    <3>1. handler[t].pc # "free"
      BY <1>2 DEF Consume, InsertTransaction, BrowseOffer, CallProvider,
         HandleReply, LogStatus, Publish, Ack
    <3> QED BY <1>0, <3>1 DEF HandlerInvOf
  <2>3. \A m \in Orders \ {o} : Held(m)' <=> Held(m)
    BY <1>0, <2>1, <2>2, LocalView
  <2>4. CASE CallProvider(t)
    <3>1. handler[t].pc = "call" /\ handler'[t].pc = "wait" /\ order[t] = "none"
          /\ UNCHANGED <<unacked, retry, callback, published, gap>>
          /\ \A u \in Trx \ {t} : order'[u] = order[u]
      BY <1>0, <2>4, GotoFacts DEF CallProvider, HandlerInvOf, TypeOK
    <3>2. Owes(t)' <=> Owes(t)
      BY <3>1 DEF Owes, Retrying
    <3>3. \A m \in Orders : Held(m)' <=> Held(m)
      BY <1>0, <2>1, <3>1, <3>2, LocalView
    <3>4. \A m : /\ Delivered(m) => Delivered(m)'
                 /\ m # o => (Delivered(m)' <=> Delivered(m))
      BY <2>1, <2>2, <3>1 DEF Delivered, Local
    <3> QED BY <3>1, <3>3, <3>4, Completes
  <2>5. CASE Publish(t)
    <3>1. \A m : Delivered(m)' <=> Delivered(m)
      BY <2>1, <2>5, LocalDelivered DEF Publish
    <3>2. PICK s \in {"F", "C", "S"} : s = StatusToBe(handler[t].out)
      BY <1>0, <2>5 DEF Publish, HandlerInvOf, TypeOK, Deliveries, Outcomes, StatusToBe
    <3>3. PublishToDownstream(o, s)
      BY <2>2, <2>5, <3>2 DEF Publish
    <3>4. s # "S" => Held(o)
      <4>1. s # "S" => Owes(t)
        BY <2>5, <3>2 DEF Publish, Owes, StatusToBe
      <4> QED BY <1>0, <2>1, <2>2, <4>1, LocalView
    <3>5. s = "F" => Delivered(o)
      BY <1>0, <2>2, <2>5, <3>2 DEF Publish, StatusToBe, ClaimInv, Delivered
    <3> QED BY <1>0, <2>3, <3>1, <3>3, <3>4, <3>5, Tells
  <2>6. CASE ~CallProvider(t) /\ ~Publish(t)
    <3>1. UNCHANGED <<order, published, gap>>
      BY <1>2, <2>6 DEF Consume, InsertTransaction, BrowseOffer, HandleReply, LogStatus, Ack
    <3>2. \A m : Delivered(m)' <=> Delivered(m)
      BY <2>1, <3>1, LocalDelivered
    <3> QED BY <1>0, <2>3, <3>1, <3>2, Quiet
  <2> QED BY <2>4, <2>5, <2>6
<1> QED BY <1>1, <1>2

LEMMA RefineRetry ==
    ASSUME AccountInv, AccountInv', NEW t \in Trx, RetryStep(t)
    PROVE  [Platform!Next]_Platform!vars
<1>0. /\ TypeOK /\ HandlerInvOf(t) /\ LinkInv /\ ClaimInv /\ LinkInv'
      /\ AckedAccounted'
      /\ Orders \subseteq Msgs /\ None \notin Msgs
  BY MsgAssumption DEF AccountInv, TruthInv, HandlerInv, Msgs
<1>1. Local(t) /\ \A m : Delivered(m)' <=> Delivered(m)
  BY <1>0, RetryLocal, LocalDelivered
<1>2. Retrying(t)
  BY DEF RetryStep, RetryWake, CheckDecides, CheckAgain, CheckExhausted,
     RetryLogStatus, RetryPublish, Retrying
<1>3. PICK o \in Msgs : o = handler[t].msg
  <2>1. handler[t].pc # "free"
    BY <1>0, <1>2 DEF HandlerInvOf, Retrying
  <2> QED BY <1>0, <2>1 DEF HandlerInvOf
<1>4. Held(o) /\ \A m \in Orders \ {o} : Held(m)' <=> Held(m)
  BY <1>0, <1>1, <1>2, <1>3, LocalView DEF Owes
<1>5. CASE RetryPublish(t)
  <2>1. PICK s \in {"F", "C", "S"} : s = retry[t].out
    BY <1>0 DEF TypeOK, Retries
  <2>2. PublishToDownstream(o, s)
    BY <1>3, <1>5, <2>1 DEF RetryPublish
  <2>3. s = "F" => Delivered(o)
    BY <1>0, <1>3, <1>5, <2>1 DEF RetryPublish, ClaimInv, Delivered
  <2> QED BY <1>0, <1>1, <1>4, <2>2, <2>3, Tells
<1>6. CASE CheckExhausted(t)
  <2>1. /\ UNCHANGED published /\ gap'[o] # {}
        /\ \A m \in Msgs \ {o} : gap'[m] = gap[m]
    BY <1>0, <1>3, <1>6 DEF CheckExhausted, TypeOK
  <2>2. PICK Lost \in SUBSET Orders : Lost = {o} \cap Orders
    OBVIOUS
  <2> QED BY <1>0, <1>1, <1>4, <2>1, <2>2, Loses
<1>7. CASE ~RetryPublish(t) /\ ~CheckExhausted(t)
  <2>1. UNCHANGED <<published, gap>>
    BY <1>7 DEF RetryStep, RetryWake, CheckDecides, CheckAgain, RetryLogStatus
  <2> QED BY <1>0, <1>1, <1>4, <2>1, Quiet
<1> QED BY <1>5, <1>6, <1>7

LEMMA RefineCallback ==
    ASSUME AccountInv, AccountInv', NEW t \in Trx, CallbackLookup(t) \/ CallbackStep(t)
    PROVE  [Platform!Next]_Platform!vars
<1>0. TypeOK /\ LinkInv /\ LinkInv' /\ AckedAccounted' /\ Orders \subseteq Msgs
  BY DEF AccountInv, TruthInv, Msgs
<1>1. Local(t) /\ \A m : Delivered(m)' <=> Delivered(m)
  BY <1>0, CallbackLocal, LocalDelivered
<1>2. \A m \in Orders \ {handler[t].msg} : Held(m)' <=> Held(m)
  BY <1>0, <1>1, LocalView
<1>3. CASE CallbackPublish(t)
  <2>1. PICK o \in Msgs : o = callback[t].msg /\ o = handler[t].msg
    BY <1>0, <1>3 DEF CallbackPublish, LinkInv
  <2>2. PICK s \in {"F", "C", "S"} : s = CallbackOutcome(t)
    BY DEF CallbackOutcome
  <2>3. PublishToDownstream(o, s)
    BY <1>3, <2>1, <2>2 DEF CallbackPublish
  <2>4. Held(o)
    <3>1. Owes(t)
      BY <1>3 DEF CallbackPublish, Owes
    <3> QED BY <1>0, <1>1, <2>1, <3>1, LocalView
  <2>5. s = "F" => Delivered(o)
    BY <2>1, <2>2 DEF CallbackOutcome, Delivered
  <2> QED BY <1>0, <1>1, <1>2, <2>1, <2>3, <2>4, <2>5, Tells
<1>4. CASE ~CallbackPublish(t)
  <2>1. UNCHANGED <<published, gap>>
    BY <1>4 DEF CallbackLookup, CallbackStep, CallbackWrite
  <2> QED BY <1>0, <1>1, <1>2, <2>1, Quiet
<1> QED BY <1>3, <1>4

LEMMA RefineStep ==
    ASSUME AccountInv, AccountInv', [Next]_vars
    PROVE  [Platform!Next]_Platform!vars
<1>0. /\ TypeOK /\ HandlerInv /\ AckedAccounted'
      /\ Orders \subseteq Msgs /\ None \notin Trx
  BY TrxAssumption DEF AccountInv, TruthInv, Msgs
<1>1. ASSUME NEW t \in Trx, ProviderDecides(t)
      PROVE  [Platform!Next]_Platform!vars
  <2>1. /\ UNCHANGED <<ready, unacked, handler, retry, callback, published, gap>>
        /\ order[t] = "pending"
        /\ \A u \in Trx \ {t} : order'[u] = order[u]
    BY <1>0, <1>1 DEF ProviderDecides, TypeOK
  <2>2. \A m \in Orders : Held(m)' <=> Held(m)
    BY <2>1 DEF Held, Acked, Owed, HandlerOwes, RetryOwes, CallbackOwes, Retrying
  <2>3. PICK o : o = handler[t].msg
    OBVIOUS
  <2>4. \A m : /\ Delivered(m) => Delivered(m)'
               /\ m # o => (Delivered(m)' <=> Delivered(m))
    BY <2>1, <2>3 DEF Delivered
  <2> QED BY <2>1, <2>2, <2>4, Completes
<1>2. ASSUME ready' = Requeued, unacked' = None, NEW m \in Msgs,
             \A t \in Trx : handler'[t].msg = handler[t].msg
      PROVE  Acked(m)' <=> Acked(m)
  BY <1>0, <1>2 DEF Acked, Requeued
<1>3. CASE SessionLost
  <2>1. /\ ready' = Requeued /\ unacked' = None
        /\ UNCHANGED <<handler, retry, callback, order, published, gap>>
    BY <1>3 DEF SessionLost
  <2>2. \A m \in Msgs : /\ Held(m)' <=> Held(m)
                        /\ Delivered(m)' <=> Delivered(m)
    BY <1>2, <2>1
       DEF Held, Owed, HandlerOwes, RetryOwes, CallbackOwes, Retrying, Delivered
  <2> QED BY <1>0, <2>1, <2>2, Quiet
<1>4. CASE Restart
  <2>1. /\ ready' = Requeued /\ unacked' = None
        /\ UNCHANGED <<order, published>>
        /\ \A m \in Msgs : gap'[m] = gap[m] \cup IF Owed(m) THEN {"crash"} ELSE {}
    BY <1>4 DEF Restart
  <2>2. \A t \in Trx : /\ handler'[t].msg = handler[t].msg
                       /\ handler'[t].pc # "publish"
                       /\ ~Retrying(t)' /\ callback'[t].pc = "idle"
    <3>1. \A t \in Trx : /\ handler'[t] = IF Working(t) THEN Finished(handler[t], "dead")
                                                       ELSE handler[t]
                         /\ retry'[t] = IF Retrying(t) THEN Finished(retry[t], "dead")
                                                       ELSE retry[t]
                         /\ callback'[t] = Answered(callback[t])
      BY <1>4 DEF Restart
    <3> QED BY <1>0, <3>1, FinishedFacts, AnsweredFacts DEF Working, Retrying
  <2>3. \A m \in Msgs : (Acked(m)' <=> Acked(m)) /\ ~Owed(m)'
    BY <1>2, <2>1, <2>2 DEF Owed, HandlerOwes, RetryOwes, CallbackOwes
  <2>4. PICK Lost \in SUBSET Orders : Lost = {m \in Orders : Owed(m)}
    OBVIOUS
  <2>5. \A m \in Orders : /\ Held(m)' => Held(m)
                          /\ m \in Lost => Held(m) /\ gap'[m] # {}
                          /\ m \notin Lost => gap'[m] = gap[m]
                          /\ Delivered(m)' <=> Delivered(m)
    BY <1>0, <2>1, <2>2, <2>3, <2>4 DEF Held, Delivered
  <2> QED BY <1>0, <2>1, <2>5, Loses
<1>5. CASE UNCHANGED <<ready, unacked, handler, retry, callback, order, published, gap>>
  <2>1. \A m \in Orders : /\ Held(m)' <=> Held(m)
                          /\ Delivered(m)' <=> Delivered(m)
    BY <1>5 DEF Held, Acked, Owed, HandlerOwes, RetryOwes, CallbackOwes, Retrying, Delivered
  <2> QED BY <1>0, <1>5, <2>1, Quiet
<1>6. Crash \/ Exit => Restart
  BY DEF Crash, Exit
<1>7. Shutdown \/ UNCHANGED vars
        => UNCHANGED <<ready, unacked, handler, retry, callback, order, published, gap>>
  BY DEF Shutdown, vars
<1> QED BY <1>1, <1>3, <1>4, <1>5, <1>6, <1>7, RefineConsume, RefineRetry, RefineCallback
        DEF Next

LEMMA RefineInit ==
    ASSUME Init
    PROVE  Platform!Init
<1>1. \A m \in Msgs : published[m] = {}
  BY DEF Init
<1>2. \A t \in Trx : order[t] = "none"
  BY DEF Init
<1>3. [m \in Orders |-> published[m]] = [m \in Orders |-> {}]
  BY <1>1 DEF Msgs
<1>4. {m \in Orders : Delivered(m)} = {}
  BY <1>2 DEF Delivered
<1> QED BY <1>3, <1>4 DEF Platform!Init

(* The gateway keeps its promise to the platform in every behaviour: F is  *)
(* only told of an order the provider completed, and an order is let go of *)
(* only after a final status was told, or lost in an admitted way by then. *)
THEOREM GatewayImplemented == Spec => ImplementsGateway
<1>1. Init => Platform!Init
  BY RefineInit
<1>2. AccountInv /\ AccountInv' /\ [Next]_vars => [Platform!Next]_Platform!vars
  BY RefineStep
<1>3. Spec => []AccountInv
  BY AccountInit, AccountStep, PTL DEF Spec
<1> QED BY <1>1, <1>2, <1>3, PTL DEF Spec, ImplementsGateway, Platform!Spec

=============================================================================
