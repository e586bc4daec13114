------------------------------- MODULE Payment -------------------------------
(***************************************************************************)
(* pps-services-tokopedia: the payment endpoint.  Concurrent HTTP requests *)
(* run paymentUsecaseImpl.Payment against one PostgreSQL database, the     *)
(* Oracle preorder procedures and a RabbitMQ queue.  Each database call is *)
(* an atomic step; between two of them any other request may run.          *)
(*                                                                         *)
(* ref_id is UNIQUE in payment_requests, partner_inquiry_id is not.        *)
(***************************************************************************)
EXTENDS Naturals, FiniteSets

CONSTANTS
    Reqs,           \* HTTP requests the partner sends
    Refs,           \* the partner's ref_ids
    Inquiries,      \* partner_inquiry_ids
    refOf,          \* the ref_id of a request
    inquiryOf,      \* its partner_inquiry_id
    flaw,           \* what is wrong with it, if anything: see Flaws
    None,
    MaxFaults,      \* bound: database, Oracle and publish errors
    MaxCrashes      \* bound: crashes of an instance

Flaws == {"none", "unknown", "data", "amount"}

ASSUME RequestAssumption == /\ refOf \in [Reqs -> Refs]
                            /\ inquiryOf \in [Reqs -> Inquiries]
                            /\ flaw \in [Reqs -> Flaws]
                            /\ None \notin Reqs
ASSUME LimitAssumption   == {MaxFaults, MaxCrashes} \subseteq Nat

VARIABLES
    call,       \* per request: its goroutine's place in Payment, its code
    rows,       \* payment_requests: per ref_id, the request that inserted it
    response,   \* payment_responses: per ref_id, the response_code, or "none"
    preorders,  \* requests with a preorder in Oracle
    marked,     \* requests whose preorder has FLAG_SUCCESS_PUBLISH
    sent,       \* per request: its messages on the payment queue
    inflight,   \* requests whose publish timed out and still may happen
    settled,    \* per request: the outcome of its order, or "none" (external)
    missed,     \* history: requests for which a failed query was ignored
    met,        \* history, per request: those in progress when it arrived
    faults, crashes

vars == <<call, rows, response, preorders, marked, sent, inflight, settled,
          missed, met, faults, crashes>>

Pcs   == {"idle", "ref", "inquiry", "paid", "audit", "insert", "valid",
          "price", "preorder", "mark", "publish", "success", "bills",
          "respond", "done", "dead"}
(* "20" also for 52, the product mismatch; "51" for any product status;    *)
(* "mapped" for whatever an Oracle error is mapped to.                     *)
Refusals == {"12", "13", "20", "42", "44", "51", "61", "mapped"}
FlawCode(x) == CASE x = "unknown" -> "12" [] x = "data" -> "20" [] OTHER -> "44"
Finals   == {"00", "02"}
Codes    == Refusals \cup Finals \cup {"none", "01", "62"}

Init ==
    /\ call = [r \in Reqs |-> [pc |-> "idle", code |-> "none"]]
    /\ rows = [f \in Refs |-> None]
    /\ response = [f \in Refs |-> "none"]
    /\ preorders = {}
    /\ marked = {}
    /\ sent = [r \in Reqs |-> 0]
    /\ inflight = {}
    /\ settled = [r \in Reqs |-> "none"]
    /\ missed = {}
    /\ met = [r \in Reqs |-> {}]
    /\ faults = 0
    /\ crashes = 0

-----------------------------------------------------------------------------
(* Helpers *)

InProgress == {r \in Reqs : call[r].pc \notin {"idle", "done", "dead"}}
Go(r, pc, code) == call' = [call EXCEPT ![r] = [pc |-> pc, code |-> code]]
Fault == faults < MaxFaults /\ faults' = faults + 1
(* An error the code logs before it goes on as if nothing had happened.    *)
Missed(r) == Fault /\ missed' = missed \cup {r}
NoFault == UNCHANGED <<faults, missed>>

(* paymentRequestID # 0: this request inserted the row of its ref_id.      *)
Recorded(r) == rows[refOf[r]] = r

RefUsed(r) == rows[refOf[r]] # None

(* Mutation: only an inquiry with an accepted payment counts as paid. *)
MutInquiryUsed(r) ==
    \E f \in Refs : /\ rows[f] # None
                    /\ inquiryOf[rows[f]] = inquiryOf[r]
                    /\ response[f] \in {"01", "00"}

(* Any row that names the inquiry counts, whatever became of the payment.  *)
InquiryUsed(r) == \E f \in Refs : /\ rows[f] # None
                                  /\ inquiryOf[rows[f]] = inquiryOf[r]

InsertRow(r) == rows' = IF RefUsed(r) THEN rows
                                      ELSE [rows EXCEPT ![refOf[r]] = r]

(* A response is stored only under the id of a row of one's own. *)
StoreResponse(r, code) ==
    response' = IF Recorded(r) THEN [response EXCEPT ![refOf[r]] = code]
                               ELSE response

-----------------------------------------------------------------------------
(* Payment, before anything is sold *)

(* Cut-off windows and mandatory parameters: refused without a trace. *)
Receive(r) ==
    /\ call[r].pc = "idle"
    /\ \/ Go(r, "ref", "none")
       \/ \E code \in {"42", "61", "62"} : Go(r, "done", code)
    /\ met' = [met EXCEPT ![r] = InProgress]
    /\ UNCHANGED <<rows, response, preorders, marked, sent, inflight, settled,
                   missed, faults, crashes>>

(* validateDuplicateRefIDBeforeInsert *)
CheckRef(r) ==
    /\ call[r].pc = "ref"
    /\ \/ RefUsed(r) /\ Go(r, "audit", "13") /\ NoFault
       \/ ~RefUsed(r) /\ Go(r, "inquiry", "none") /\ NoFault
       \/ Missed(r) /\ Go(r, "inquiry", "none")
    /\ UNCHANGED <<rows, response, preorders, marked, sent, inflight, settled,
                   met, crashes>>

(* validatePartnerInquiryIDBeforeInsert, validatePaymentDataMatchesInquiry *)
CheckInquiry(r) ==
    /\ call[r].pc = "inquiry"
    /\ \/ flaw[r] # "none" /\ Go(r, "audit", FlawCode(flaw[r])) /\ NoFault
       \/ flaw[r] = "none" /\ Go(r, "paid", "none") /\ NoFault
       \/ flaw[r] # "none" /\ Missed(r) /\ Go(r, "paid", "none")
    /\ UNCHANGED <<rows, response, preorders, marked, sent, inflight, settled,
                   met, crashes>>

(* validateInquiryNotPaidBeforeInsert *)
CheckPaid(r) ==
    /\ call[r].pc = "paid"
    /\ \/ InquiryUsed(r) /\ Go(r, "audit", "12") /\ NoFault
       \/ ~InquiryUsed(r) /\ Go(r, "insert", "none") /\ NoFault
       \/ Missed(r) /\ Go(r, "insert", "none")
    /\ UNCHANGED <<rows, response, preorders, marked, sent, inflight, settled,
                   met, crashes>>

AfterInsert(r) == IF call[r].pc = "audit" THEN "respond" ELSE "valid"

(* insertPaymentRequest, for the sale or for the audit trail of a refusal. *)
(* The procedure turns its own errors, the duplicate ref_id included, into *)
(* a NULL id and a nil error; only a failed query stops the request, with  *)
(* or without the row in place.                                            *)
InsertRequest(r) ==
    /\ call[r].pc \in {"audit", "insert"}
    /\ \/ InsertRow(r) /\ Go(r, AfterInsert(r), call[r].code) /\ NoFault
       \/ Missed(r) /\ UNCHANGED rows /\ Go(r, AfterInsert(r), call[r].code)
       \/ /\ Fault
          /\ InsertRow(r) \/ UNCHANGED rows
          /\ Go(r, "done", "62")
          /\ UNCHANGED missed
    /\ UNCHANGED <<response, preorders, marked, sent, inflight, settled, met,
                   crashes>>

(* ValidateInquiryId: a failed query answers 62 and stores no response. *)
ValidateInquiry(r) ==
    /\ call[r].pc = "valid"
    /\ \/ flaw[r] \in {"unknown", "data"} /\ Go(r, "respond", "12") /\ NoFault
       \/ flaw[r] \in {"none", "amount"} /\ Go(r, "price", "none") /\ NoFault
       \/ Fault /\ Go(r, "done", "62") /\ UNCHANGED missed
    /\ UNCHANGED <<rows, response, preorders, marked, sent, inflight, settled,
                   met, crashes>>

(* validateAmountMatchesPrice against a price cached for 24 hours. *)
ValidatePrice(r) ==
    /\ call[r].pc = "price"
    /\ \/ Go(r, "preorder", "none")
       \/ \E code \in {"44", "51", "62"} : Go(r, "respond", code)
    /\ UNCHANGED <<rows, response, preorders, marked, sent, inflight, settled,
                   missed, met, faults, crashes>>

-----------------------------------------------------------------------------
(* Payment: preorder, mark, publish, answer *)

(* request2JualPreOrder: Oracle refuses, or the call fails, before or      *)
(* after the preorder was made; both are mapped to a response code.        *)
Preorder(r) ==
    /\ call[r].pc = "preorder"
    /\ \/ /\ preorders' = preorders \cup {r}
          /\ Go(r, "mark", "none")
          /\ UNCHANGED faults
       \/ /\ Go(r, "respond", "mapped")
          /\ UNCHANGED <<preorders, faults>>
       \/ /\ Fault
          /\ preorders' = preorders \cup {r}
          /\ Go(r, "respond", "mapped")
    /\ UNCHANGED <<rows, response, marked, sent, inflight, settled, missed,
                   met, crashes>>

(* Mutation: a failed status update is logged and the sale goes on. *)
MutMark(r) ==
    /\ call[r].pc = "mark"
    /\ \/ marked' = marked \cup {r} /\ UNCHANGED faults
       \/ Fault /\ UNCHANGED marked
    /\ Go(r, "publish", "none")
    /\ UNCHANGED <<rows, response, preorders, sent, inflight, settled, missed,
                   met, crashes>>

(* updPreOrderPublish: the preorder is marked published before it is. *)
Mark(r) ==
    /\ call[r].pc = "mark"
    /\ \/ /\ marked' = marked \cup {r}
          /\ Go(r, "publish", "none")
          /\ UNCHANGED faults
       \/ /\ Fault
          /\ marked' = marked \cup {r} \/ UNCHANGED marked
          /\ Go(r, "respond", "mapped")
    /\ UNCHANGED <<rows, response, preorders, sent, inflight, settled, missed,
                   met, crashes>>

(* A publish on a connection found closed is repeated once. *)
MutCopies == 1..3
Copies == 1..2

(* Mutation: a failed publish is mapped like an Oracle error. *)
MutPublishError(r) == Go(r, "respond", "mapped")
(* Mutation: a failed publish is logged and the request goes on. *)
MutPublishIgnored(r) == Go(r, "success", "none")

PublishError(r) == Go(r, "respond", "62")

(* rabbitMQService.Publish.  No confirm is awaited.  A context that ends   *)
(* first is an error, while the publishing goroutine may still succeed.    *)
Publish(r) ==
    /\ call[r].pc = "publish"
    /\ \/ /\ sent' = [sent EXCEPT ![r] = 1]
          /\ Go(r, "success", "none")
          /\ UNCHANGED <<inflight, faults>>
       \/ /\ Fault
          /\ \E n \in Copies : sent' = [sent EXCEPT ![r] = n]
          /\ Go(r, "success", "none")
          /\ UNCHANGED inflight
       \/ /\ Fault
          /\ inflight' = inflight \cup {r} \/ UNCHANGED inflight
          /\ PublishError(r)
          /\ UNCHANGED sent
    /\ UNCHANGED <<rows, response, preorders, marked, settled, missed, met,
                   crashes>>

(* A publish reported as failed reached the broker after all, as may have  *)
(* its repetition.                                                         *)
LatePublish(r) ==
    /\ r \in inflight
    /\ inflight' = inflight \ {r}
    /\ \E n \in Copies : sent' = [sent EXCEPT ![r] = n]
    /\ UNCHANGED <<call, rows, response, preorders, marked, settled, missed,
                   met, faults, crashes>>

(* insertErrorResponse: skipped without a row; a failed query answers 62,  *)
(* the procedure's own error does not.                                     *)
Respond(r) ==
    /\ call[r].pc = "respond"
    /\ \/ /\ StoreResponse(r, call[r].code)
          /\ Go(r, "done", call[r].code)
          /\ UNCHANGED faults
       \/ /\ Fault
          /\ Recorded(r)
          /\ StoreResponse(r, call[r].code) \/ UNCHANGED response
          /\ \E code \in {call[r].code, "62"} : Go(r, "done", code)
    /\ UNCHANGED <<rows, preorders, marked, sent, inflight, settled, missed,
                   met, crashes>>

(* insertSuccessResponse: its failure answers 62 for a published order. *)
StoreSuccess(r) ==
    /\ call[r].pc = "success"
    /\ \/ /\ StoreResponse(r, "01")
          /\ Go(r, "bills", "01")
          /\ UNCHANGED faults
       \/ /\ Fault
          /\ Recorded(r)
          /\ StoreResponse(r, "01") \/ UNCHANGED response
          /\ Go(r, "bills", "01") \/ Go(r, "done", "62")
    /\ UNCHANGED <<rows, preorders, marked, sent, inflight, settled, missed,
                   met, crashes>>

(* copyBillDetailsFromInquiry *)
CopyBills(r) ==
    /\ call[r].pc = "bills"
    /\ \/ Go(r, "done", "01") /\ UNCHANGED faults
       \/ Go(r, "done", "62") /\ Fault
    /\ UNCHANGED <<rows, response, preorders, marked, sent, inflight, settled,
                   missed, met, crashes>>

-----------------------------------------------------------------------------
(* The rest of the platform, and the process *)

(* Mutation: the status is written to every payment of the inquiry. *)
MutPaymentStatusOnUpdate(r, code) ==
    response' = [f \in Refs |->
        IF /\ response[f] # "none"
           /\ rows[f] # None /\ inquiryOf[rows[f]] = inquiryOf[r]
        THEN code ELSE response[f]]

(* payment_status_onupdate: an UPDATE by ref_id, 'Payment not found' when  *)
(* the ref_id has no response row (yet).                                   *)
PaymentStatusOnUpdate(r, code) ==
    response' = IF response[refOf[r]] = "none" THEN response
                ELSE [response EXCEPT ![refOf[r]] = code]

(* A consumer of the queue carries the order out and reports its status.   *)
Settle(r) ==
    /\ sent[r] > 0
    /\ settled[r] = "none"
    /\ \E code \in Finals :
         /\ settled' = [settled EXCEPT ![r] = code]
         /\ PaymentStatusOnUpdate(r, code)
    /\ UNCHANGED <<call, rows, preorders, marked, sent, inflight, missed, met,
                   faults, crashes>>

(* An instance dies with the requests it was serving. *)
Crash ==
    /\ crashes < MaxCrashes
    /\ crashes' = crashes + 1
    /\ \E S \in SUBSET InProgress :
         /\ S # {}
         /\ call' = [r \in Reqs |-> IF r \in S THEN [pc |-> "dead", code |-> "none"]
                                               ELSE call[r]]
         /\ inflight' = inflight \ S
    /\ UNCHANGED <<rows, response, preorders, marked, sent, settled, missed,
                   met, faults>>

Serve(r) == \/ Receive(r)
            \/ CheckRef(r)
            \/ CheckInquiry(r)
            \/ CheckPaid(r)
            \/ InsertRequest(r)
            \/ ValidateInquiry(r)
            \/ ValidatePrice(r)
            \/ Preorder(r)
            \/ Mark(r)
            \/ Publish(r)
            \/ Respond(r)
            \/ StoreSuccess(r)
            \/ CopyBills(r)

Next == \/ \E r \in Reqs : Serve(r) \/ LatePublish(r) \/ Settle(r)
        \/ Crash

Spec == Init /\ [][Next]_vars

-----------------------------------------------------------------------------
(* Properties *)

(* Types of the tables and of the requests' local state; no message is     *)
(* published more often than once and its one repetition.                  *)
TypeOK ==
    /\ call \in [Reqs -> [pc : Pcs, code : Codes]]
    /\ rows \in [Refs -> Reqs \cup {None}]
    /\ response \in [Refs -> Codes]
    /\ preorders \subseteq Reqs
    /\ marked \subseteq Reqs
    /\ sent \in [Reqs -> 0..2]
    /\ inflight \subseteq Reqs
    /\ settled \in [Reqs -> Finals \cup {"none"}]
    /\ missed \subseteq Reqs
    /\ met \in [Reqs -> SUBSET Reqs]
    /\ faults \in Nat
    /\ crashes \in Nat

OnQueue(r)  == sent[r] > 0 \/ r \in inflight
Answer(r)   == IF call[r].pc = "done" THEN call[r].code ELSE "none"
Met(r, s)   == r \in met[s] \/ s \in met[r]
(* A request whose ref_id was taken while it ran, or that ignored an error.*)
Raced(r)    == \/ r \in missed
               \/ \E q \in Reqs \ {r} : refOf[q] = refOf[r] /\ Met(q, r)

(* A message on the payment queue, or a publish that may still put one     *)
(* there, belongs to a preorder that Oracle has and shows as published.    *)
PublishedIsBacked ==
    \A r \in Reqs : OnQueue(r) => r \in preorders \cap marked

(* A partner told that a payment is refused, by the answer or by the       *)
(* stored response that check-status returns, never has it carried out:    *)
(* not even by a publish that is still under way.  62 is no such answer.   *)
RefusedIsNotPublished ==
    \A r \in Reqs :
        (\/ Answer(r) \in Refusals
         \/ Recorded(r) /\ response[refOf[r]] \in Refusals)
        => ~OnQueue(r)

(* "01 On process" is only answered or stored for an order that is on the  *)
(* queue; a partner that polls it is not waiting for nothing.              *)
InProcessIsPublished ==
    \A r \in Reqs :
        (\/ Answer(r) = "01"
         \/ Recorded(r) /\ response[refOf[r]] = "01")
        => sent[r] > 0

(* The check-then-insert of Payment sells an inquiry twice only in a race: *)
(* two preorders for one inquiry mean that the two requests were served at *)
(* the same time, or one of them ignored a database error, or was served   *)
(* at the same time as another request with its ref_id and so left no row. *)
(* Crashes, retries and refusals between the two do not sell it again.     *)
ResaleNeedsRace ==
    \A r, s \in preorders :
        r # s /\ inquiryOf[r] = inquiryOf[s]
            => Met(r, s) \/ Raced(r) \/ Raced(s)

(* The final status stored for a payment is the outcome of its own order,  *)
(* unless a second request with the same ref_id reached the queue.         *)
StatusIsOwn ==
    \A r \in Reqs :
        Recorded(r) /\ response[refOf[r]] \in Finals
            => \/ settled[r] = response[refOf[r]]
               \/ \E s \in Reqs \ {r} : refOf[s] = refOf[r] /\ sent[s] > 0

(* payment_usecase.go:134: "one inquiry can only be paid once". *)
OneSalePerInquiry ==
    \A r, s \in Reqs :
        r # s /\ inquiryOf[r] = inquiryOf[s] => sent[r] = 0 \/ sent[s] = 0

(* mapping_response_code_utils.go:18: "01" says the transaction is still   *)
(* in progress.  A finished order of an answered request is not shown so.  *)
InProcessIsUnsettled ==
    \A r \in Reqs :
        Recorded(r) /\ Answer(r) = "01" /\ response[refOf[r]] = "01"
            => settled[r] = "none"
=============================================================================
