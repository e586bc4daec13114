---------------------------- MODULE PaymentProofs ----------------------------
(***************************************************************************)
(* The safety of Payment for any set of requests, whatever ref_ids and     *)
(* inquiries they share, and any number of errors and crashes.             *)
(***************************************************************************)
EXTENDS Payment, TLAPS

(* Where a request is in Payment says what was done for it. *)
Unsold == {"idle", "ref", "inquiry", "paid", "audit", "insert", "valid",
           "price", "preorder", "mark", "publish"}

StageInvOf(r) ==
    /\ call[r].pc \in Unsold => ~OnQueue(r)
    /\ call[r].pc = "mark" => r \in preorders
    /\ call[r].pc = "publish" => r \in preorders \cap marked
    /\ call[r].pc \in {"success", "bills"} => sent[r] > 0
    /\ OnQueue(r) => r \in preorders \cap marked

StageInv == \A r \in Reqs : StageInvOf(r)

(* The code a request carries is the refusal it is about to answer, "62"   *)
(* included, and "01" only once its order was sent.                        *)
CodeInvOf(r) ==
    /\ call[r].pc \in {"audit", "respond"} => call[r].code \in Refusals \cup {"62"}
    /\ call[r].pc \in {"respond", "done"} /\ call[r].code \in Refusals
         => ~OnQueue(r)
    /\ call[r].pc = "done" /\ call[r].code = "01" => sent[r] > 0

CodeInv == \A r \in Reqs : CodeInvOf(r)

(* A row names the ref_id of the request that inserted it, and a response  *)
(* needs a row.                                                            *)
RowInv == \A f \in Refs : /\ rows[f] # None => refOf[rows[f]] = f
                          /\ rows[f] = None => response[f] = "none"

(* The response of a recorded request appears with its answer. *)
StoredInvOf(r) ==
    Recorded(r) =>
        /\ call[r].pc \notin {"bills", "done", "dead"}
             => response[refOf[r]] = "none"
        /\ response[refOf[r]] = "01" => sent[r] > 0
        /\ response[refOf[r]] \in Refusals => ~OnQueue(r)

StoredInv == \A r \in Reqs : StoredInvOf(r)

AnswerInv == TypeOK /\ StageInv /\ CodeInv /\ RowInv /\ StoredInv

(* Requests in progress together have met. *)
MetInv == /\ \A r \in Reqs : call[r].pc = "idle" => met[r] = {}
          /\ \A r, s \in InProgress : r # s => Met(r, s)

(* A request on its way to the insert found its ref_id unused; if it no    *)
(* longer is, then somebody raced it.  Past the insert it has its own row, *)
(* or lost a race.                                                         *)
ClearedInv == \A r \in Reqs :
    call[r].pc \in {"inquiry", "paid", "insert"} /\ RefUsed(r) => Raced(r)

Buying(r) == \/ r \in preorders
             \/ call[r].pc \in {"valid", "price", "preorder"}

BuyerInv == \A r \in Reqs : Buying(r) => Recorded(r) \/ Raced(r)

(* Of two requests for one inquiry that both passed the "already paid"     *)
(* check, the later one ran while the earlier one still did, or the        *)
(* earlier one left no row.                                                *)
Passed(r) == call[r].pc = "insert" \/ Buying(r)

PairInv == \A r, s \in Reqs :
    Passed(r) /\ Passed(s) /\ r # s /\ inquiryOf[r] = inquiryOf[s]
        => Met(r, s) \/ Raced(r) \/ Raced(s)

RaceInv == TypeOK /\ RowInv /\ MetInv /\ ClearedInv /\ BuyerInv /\ PairInv

-----------------------------------------------------------------------------
(* Single steps *)

(* Go moves one request and no other. *)
LEMMA GoFacts ==
    ASSUME TypeOK, NEW r \in Reqs, NEW pc \in Pcs, NEW code \in Codes,
           Go(r, pc, code)
    PROVE  /\ call' \in [Reqs -> [pc : Pcs, code : Codes]]
           /\ call'[r].pc = pc /\ call'[r].code = code
           /\ \A s \in Reqs \ {r} : call'[s] = call[s]
BY DEF Go, TypeOK

LEMMA InsertFacts ==
    ASSUME TypeOK, NEW r \in Reqs, InsertRow(r)
    PROVE  /\ rows' \in [Refs -> Reqs \cup {None}]
           /\ rows[refOf[r]] = None => rows'[refOf[r]] = r
           /\ \A f \in Refs : f # refOf[r] \/ rows[f] # None => rows'[f] = rows[f]
BY RequestAssumption DEF InsertRow, RefUsed, TypeOK

LEMMA StoreFacts ==
    ASSUME TypeOK, NEW r \in Reqs, NEW code \in Codes, StoreResponse(r, code)
    PROVE  /\ response' \in [Refs -> Codes]
           /\ Recorded(r) => response'[refOf[r]] = code
           /\ \A f \in Refs : f # refOf[r] \/ ~Recorded(r)
                                => response'[f] = response[f]
BY RequestAssumption DEF StoreResponse, Recorded, TypeOK

LEMMA UpdateFacts ==
    ASSUME TypeOK, NEW r \in Reqs, NEW code \in Finals,
           PaymentStatusOnUpdate(r, code)
    PROVE  /\ response' \in [Refs -> Codes]
           /\ \A f \in Refs : \/ response'[f] = response[f]
                              \/ response[f] # "none" /\ response'[f] = code
BY RequestAssumption DEF PaymentStatusOnUpdate, Finals, Codes, TypeOK

LEMMA InsertMoves ==
    ASSUME TypeOK, NEW r \in Reqs, InsertRequest(r)
    PROVE  \/ call'[r].pc = AfterInsert(r) /\ call'[r].code = call[r].code
           \/ call'[r].pc = "done" /\ call'[r].code = "62"
<1>1. AfterInsert(r) \in Pcs /\ "done" \in Pcs
  BY DEF AfterInsert, Pcs
<1>2. call[r].code \in Codes /\ "62" \in Codes
  BY DEF TypeOK, Codes
<1> QED BY <1>1, <1>2, GoFacts DEF InsertRequest

LEMMA RespondMoves ==
    ASSUME TypeOK, NEW r \in Reqs, Respond(r)
    PROVE  call'[r].pc = "done" /\ call'[r].code \in {call[r].code, "62"}
<1>1. "done" \in Pcs
  BY DEF Pcs
<1>2. call[r].code \in Codes /\ "62" \in Codes
  BY DEF TypeOK, Codes
<1>3. \E code \in {call[r].code, "62"} : Go(r, "done", code)
  BY DEF Respond
<1> QED BY <1>1, <1>2, <1>3, GoFacts

LEMMA PublishFacts ==
    ASSUME TypeOK, NEW r \in Reqs, Publish(r)
    PROVE  /\ call' \in [Reqs -> [pc : Pcs, code : Codes]]
           /\ sent' \in [Reqs -> 0..2]
           /\ \A s \in Reqs \ {r} : call'[s] = call[s] /\ sent'[s] = sent[s]
           /\ \/ /\ call'[r].pc = "success" /\ call'[r].code = "none"
                 /\ sent'[r] > 0 /\ inflight' = inflight
              \/ /\ call'[r].pc = "respond" /\ call'[r].code = "62"
                 /\ sent' = sent /\ inflight' \in {inflight, inflight \cup {r}}
<1> USE DEF Pcs, Codes, Refusals, Finals
<1>1. CASE \E n \in 1..2 : /\ sent' = [sent EXCEPT ![r] = n]
                           /\ Go(r, "success", "none") /\ UNCHANGED inflight
  <2>1. PICK n \in 1..2 : sent' = [sent EXCEPT ![r] = n]
    BY <1>1
  <2>2. /\ sent' \in [Reqs -> 0..2] /\ sent'[r] > 0
        /\ \A s \in Reqs \ {r} : sent'[s] = sent[s]
    BY <2>1 DEF TypeOK
  <2>3. Go(r, "success", "none") /\ inflight' = inflight
    BY <1>1
  <2>4. "success" \in Pcs /\ "none" \in Codes
    OBVIOUS
  <2>5. /\ call' \in [Reqs -> [pc : Pcs, code : Codes]]
        /\ call'[r].pc = "success" /\ call'[r].code = "none"
        /\ \A s \in Reqs \ {r} : call'[s] = call[s]
    BY <2>3, <2>4, GoFacts
  <2> QED BY <2>2, <2>3, <2>5
<1>2. CASE /\ PublishError(r) /\ UNCHANGED sent
           /\ inflight' \in {inflight, inflight \cup {r}}
  BY ZenonT(60), <1>2, GoFacts DEF TypeOK, PublishError
<1> QED BY <1>1, <1>2 DEF Publish, Copies

-----------------------------------------------------------------------------
(* Types *)

LEMMA TypeInit == Init => TypeOK
BY LimitAssumption DEF Init, TypeOK, Pcs, Codes, Finals

LEMMA FaultType == TypeOK /\ Fault => faults' \in Nat
BY DEF TypeOK, Fault

LEMMA TypeStep == TypeOK /\ [Next]_vars => TypeOK'
<1> SUFFICES ASSUME TypeOK, [Next]_vars PROVE TypeOK'
  OBVIOUS
<1> USE DEF Pcs, Codes, Refusals, Finals, Missed, NoFault
<1>1. ASSUME NEW r \in Reqs, Receive(r) PROVE TypeOK'
  <2>1. InProgress \subseteq Reqs
    BY DEF InProgress
  <2> QED BY <1>1, <2>1, GoFacts DEF Receive, TypeOK
<1>2. ASSUME NEW r \in Reqs, CheckRef(r) PROVE TypeOK'
  BY ZenonT(60), <1>2, GoFacts, FaultType DEF CheckRef, TypeOK
<1>3. ASSUME NEW r \in Reqs, CheckInquiry(r) PROVE TypeOK'
  <2>1. FlawCode(flaw[r]) \in Codes
    BY DEF FlawCode
  <2> QED BY ZenonT(60), <1>3, <2>1, GoFacts, FaultType DEF CheckInquiry, TypeOK
<1>4. ASSUME NEW r \in Reqs, CheckPaid(r) PROVE TypeOK'
  BY ZenonT(60), <1>4, GoFacts, FaultType DEF CheckPaid, TypeOK
<1>5. ASSUME NEW r \in Reqs, InsertRequest(r) PROVE TypeOK'
  <2>1. AfterInsert(r) \in Pcs /\ call[r].code \in Codes
    BY DEF AfterInsert, TypeOK
  <2>2. call' \in [Reqs -> [pc : Pcs, code : Codes]]
    BY <1>5, <2>1, GoFacts DEF InsertRequest
  <2>3. rows' \in [Refs -> Reqs \cup {None}]
    BY <1>5, InsertFacts DEF InsertRequest, TypeOK
  <2>4. faults' \in Nat /\ missed' \subseteq Reqs
    BY <1>5, FaultType DEF InsertRequest, TypeOK
  <2> QED BY <1>5, <2>2, <2>3, <2>4 DEF InsertRequest, TypeOK
<1>6. ASSUME NEW r \in Reqs, ValidateInquiry(r) PROVE TypeOK'
  BY <1>6, GoFacts, FaultType DEF ValidateInquiry, TypeOK
<1>7. ASSUME NEW r \in Reqs, ValidatePrice(r) PROVE TypeOK'
  BY <1>7, GoFacts DEF ValidatePrice, TypeOK
<1>8. ASSUME NEW r \in Reqs, Preorder(r) PROVE TypeOK'
  BY <1>8, GoFacts, FaultType DEF Preorder, TypeOK
<1>9. ASSUME NEW r \in Reqs, Mark(r) PROVE TypeOK'
  BY <1>9, GoFacts, FaultType DEF Mark, TypeOK
<1>10. ASSUME NEW r \in Reqs, Publish(r) PROVE TypeOK'
  <2>1. faults' \in Nat /\ inflight' \subseteq Reqs
    BY <1>10, FaultType DEF Publish, TypeOK
  <2> QED BY <1>10, <2>1, PublishFacts DEF Publish, TypeOK
<1>11. ASSUME NEW r \in Reqs, Respond(r) PROVE TypeOK'
  BY ZenonT(60), <1>11, GoFacts, StoreFacts, FaultType DEF Respond, TypeOK
<1>12. ASSUME NEW r \in Reqs, StoreSuccess(r) PROVE TypeOK'
  BY <1>12, GoFacts, StoreFacts, FaultType DEF StoreSuccess, TypeOK
<1>13. ASSUME NEW r \in Reqs, CopyBills(r) PROVE TypeOK'
  BY <1>13, GoFacts, FaultType DEF CopyBills, TypeOK
<1>14. ASSUME NEW r \in Reqs, LatePublish(r) PROVE TypeOK'
  BY <1>14 DEF LatePublish, Copies, TypeOK
<1>15. ASSUME NEW r \in Reqs, Settle(r) PROVE TypeOK'
  BY <1>15, UpdateFacts DEF Settle, TypeOK
<1>16. CASE Crash
  BY <1>16 DEF Crash, TypeOK
<1>17. CASE UNCHANGED vars
  BY <1>17 DEF vars, TypeOK
<1> QED BY <1>1, <1>2, <1>3, <1>4, <1>5, <1>6, <1>7, <1>8, <1>9, <1>10, <1>11,
           <1>12, <1>13, <1>14, <1>15, <1>16, <1>17 DEF Next, Serve

(* The tables and the requests' local state have their types, and no       *)
(* request's message is published more than twice.                         *)
THEOREM TypeCorrect == Spec => []TypeOK
<1> QED BY TypeInit, TypeStep, PTL DEF Spec

-----------------------------------------------------------------------------
(* What the answers and the stored responses say *)

(* A request's step leaves the other requests' state alone, their row and  *)
(* the response stored for it included.                                    *)
LEMMA OtherFrame ==
    ASSUME TypeOK, NEW r \in Reqs, NEW s \in Reqs \ {r}, Serve(r)
    PROVE  /\ call'[s] = call[s]
           /\ sent'[s] = sent[s]
           /\ s \in inflight' <=> s \in inflight
           /\ preorders \subseteq preorders' /\ marked \subseteq marked'
           /\ Recorded(s)' <=> Recorded(s)
           /\ Recorded(s) => response'[refOf[s]] = response[refOf[s]]
<1> USE DEF Pcs, Codes, Refusals, Finals, Missed, NoFault
<1>a. refOf[r] \in Refs /\ refOf[s] \in Refs
  BY RequestAssumption
<1>1. CASE Receive(r)
  BY <1>1, GoFacts DEF Receive, Recorded
<1>2. CASE CheckRef(r)
  BY <1>2, GoFacts DEF CheckRef, Recorded
<1>3. CASE CheckInquiry(r)
  <2>1. FlawCode(flaw[r]) \in Codes
    BY DEF FlawCode
  <2> QED BY <1>3, <2>1, GoFacts DEF CheckInquiry, Recorded
<1>4. CASE CheckPaid(r)
  BY <1>4, GoFacts DEF CheckPaid, Recorded
<1>5. CASE InsertRequest(r)
  <2>1. AfterInsert(r) \in Pcs /\ call[r].code \in Codes
    BY DEF AfterInsert, TypeOK
  <2>2. call'[s] = call[s]
    BY <1>5, <2>1, GoFacts DEF InsertRequest
  <2>3. InsertRow(r) \/ UNCHANGED rows
    BY <1>5 DEF InsertRequest
  <2>4. Recorded(s)' <=> Recorded(s)
    BY <1>a, <2>3, InsertFacts, RequestAssumption DEF Recorded
  <2> QED BY <1>5, <2>2, <2>4 DEF InsertRequest
<1>6. CASE ValidateInquiry(r)
  BY <1>6, GoFacts DEF ValidateInquiry, Recorded
<1>7. CASE ValidatePrice(r)
  BY <1>7, GoFacts DEF ValidatePrice, Recorded
<1>8. CASE Preorder(r)
  BY <1>8, GoFacts DEF Preorder, Recorded
<1>9. CASE Mark(r)
  BY <1>9, GoFacts DEF Mark, Recorded
<1>10. CASE Publish(r)
  BY <1>10, PublishFacts DEF Publish, Recorded
<1>11. CASE Respond(r)
  <2>1. call[r].code \in Codes
    BY DEF TypeOK
  <2>2. call'[s] = call[s]
    BY ZenonT(60), <1>11, <2>1, GoFacts DEF Respond
  <2>3. StoreResponse(r, call[r].code) \/ UNCHANGED response
    BY <1>11 DEF Respond
  <2>4. Recorded(s) => response'[refOf[s]] = response[refOf[s]]
    BY <1>a, <2>1, <2>3, StoreFacts DEF Recorded
  <2> QED BY <1>11, <2>2, <2>4 DEF Respond, Recorded
<1>12. CASE StoreSuccess(r)
  <2>2. call'[s] = call[s]
    BY <1>12, GoFacts DEF StoreSuccess
  <2>3. StoreResponse(r, "01") \/ UNCHANGED response
    BY <1>12 DEF StoreSuccess
  <2>4. Recorded(s) => response'[refOf[s]] = response[refOf[s]]
    BY <1>a, <2>3, StoreFacts DEF Recorded
  <2> QED BY <1>12, <2>2, <2>4 DEF StoreSuccess, Recorded
<1>13. CASE CopyBills(r)
  BY <1>13, GoFacts DEF CopyBills, Recorded
<1> QED BY <1>1, <1>2, <1>3, <1>4, <1>5, <1>6, <1>7, <1>8, <1>9, <1>10, <1>11,
           <1>12, <1>13 DEF Serve

LEMMA AnswerInit == Init => AnswerInv
<1> SUFFICES ASSUME Init PROVE AnswerInv
  OBVIOUS
<1>1. StageInv
  BY DEF Init, StageInv, StageInvOf, OnQueue
<1>2. CodeInv
  BY DEF Init, CodeInv, CodeInvOf, Refusals
<1>3. RowInv
  BY DEF Init, RowInv
<1>4. StoredInv
  BY RequestAssumption DEF Init, StoredInv, StoredInvOf, Recorded, Refusals
<1> QED BY <1>1, <1>2, <1>3, <1>4, TypeInit DEF AnswerInv

(* A request's own step keeps its stage, its code and its stored response  *)
(* in line with each other.                                                *)
OwnInv(r) == StageInvOf(r) /\ CodeInvOf(r) /\ StoredInvOf(r)

LEMMA OwnStep ==
    ASSUME AnswerInv, NEW r \in Reqs, Serve(r)
    PROVE  OwnInv(r)'
<1> USE DEF Pcs, Codes, Refusals, Finals, Missed, NoFault, OwnInv, StageInvOf,
            CodeInvOf, StoredInvOf, OnQueue, Unsold
<1>a. TypeOK /\ OwnInv(r) /\ refOf[r] \in Refs
  BY RequestAssumption DEF AnswerInv, StageInv, CodeInv, StoredInv
<1>b. TypeOK
  BY DEF AnswerInv
<1>1. CASE Receive(r)
  <2>1. \/ call'[r].pc = "ref"
        \/ call'[r].pc = "done" /\ call'[r].code \in {"42", "61", "62"}
    BY <1>1, <1>b, GoFacts DEF Receive
  <2>2. /\ call[r].pc = "idle"
        /\ UNCHANGED <<rows, response, sent, inflight, preorders, marked>>
    BY <1>1 DEF Receive
  <2> QED BY <1>a, <2>1, <2>2 DEF Recorded
<1>2. CASE CheckRef(r)
  BY <1>2, <1>a, GoFacts DEF CheckRef, Recorded
<1>3. CASE CheckInquiry(r)
  <2>1. FlawCode(flaw[r]) \in Refusals
    BY DEF FlawCode
  <2> QED BY ZenonT(60), <1>3, <1>a, <2>1, GoFacts DEF CheckInquiry, Recorded
<1>4. CASE CheckPaid(r)
  BY <1>4, <1>a, GoFacts DEF CheckPaid, Recorded
<1>5. CASE InsertRequest(r)
  <2>1. AfterInsert(r) \in Pcs /\ call[r].code \in Codes
    BY <1>a DEF AfterInsert, TypeOK
  <2>2. /\ call[r].pc \in {"audit", "insert"}
        /\ \/ call'[r].pc = AfterInsert(r) /\ call'[r].code = call[r].code
           \/ call'[r].pc = "done" /\ call'[r].code = "62"
    BY <1>5, <1>b, InsertMoves DEF InsertRequest
  <2>3. InsertRow(r) \/ UNCHANGED rows
    BY <1>5 DEF InsertRequest
  <2>4. response[refOf[r]] = "none" \/ ~Recorded(r)'
    BY <1>a, <2>2, <2>3, InsertFacts, RequestAssumption
       DEF AnswerInv, RowInv, Recorded
  <2>5. UNCHANGED <<response, sent, inflight, preorders, marked>>
    BY <1>5 DEF InsertRequest
  <2>6. StageInvOf(r)'
    BY <1>a, <2>2, <2>5 DEF AfterInsert
  <2>7. CodeInvOf(r)'
    BY <1>a, <2>2, <2>5 DEF AfterInsert
  <2>8. StoredInvOf(r)'
    BY <1>a, <2>4, <2>5 DEF Recorded
  <2> QED BY <2>6, <2>7, <2>8
<1>6. CASE ValidateInquiry(r)
  <2>1. \/ call'[r].pc = "price"
        \/ call'[r].pc = "respond" /\ call'[r].code = "12"
        \/ call'[r].pc = "done" /\ call'[r].code = "62"
    BY <1>6, <1>b, GoFacts DEF ValidateInquiry
  <2>2. /\ call[r].pc = "valid"
        /\ UNCHANGED <<rows, response, sent, inflight, preorders, marked>>
    BY <1>6 DEF ValidateInquiry
  <2> QED BY <1>a, <2>1, <2>2 DEF Recorded
<1>7. CASE ValidatePrice(r)
  BY ZenonT(60), <1>7, <1>a, GoFacts DEF ValidatePrice, Recorded
<1>8. CASE Preorder(r)
  BY <1>8, <1>a, GoFacts DEF Preorder, Recorded
<1>9. CASE Mark(r)
  BY <1>9, <1>a, GoFacts DEF Mark, Recorded
<1>10. CASE Publish(r)
  BY <1>10, <1>a, PublishFacts DEF Publish, Recorded
<1>11. CASE Respond(r)
  <2>1. call[r].code \in Refusals \cup {"62"}
    BY <1>11, <1>a DEF Respond
  <2>2. call'[r].pc = "done" /\ call'[r].code \in {call[r].code, "62"}
    BY <1>11, <1>b, RespondMoves
  <2>3. StoreResponse(r, call[r].code) \/ UNCHANGED response
    BY <1>11 DEF Respond
  <2>4. Recorded(r) => response'[refOf[r]] \in {call[r].code, response[refOf[r]]}
    BY <1>a, <2>1, <2>3, StoreFacts
  <2>5. UNCHANGED <<rows, sent, inflight, preorders, marked>>
    BY <1>11 DEF Respond
  <2>6. StageInvOf(r)' /\ CodeInvOf(r)'
    BY <1>11, <1>a, <2>1, <2>2, <2>5 DEF Respond
  <2>7. StoredInvOf(r)'
    BY <1>11, <1>a, <2>1, <2>2, <2>4, <2>5 DEF Respond, Recorded
  <2> QED BY <2>6, <2>7
<1>12. CASE StoreSuccess(r)
  <2>2. \/ call'[r].pc = "bills"
        \/ call'[r].pc = "done" /\ call'[r].code = "62"
    BY <1>12, <1>a, GoFacts DEF StoreSuccess
  <2>3. StoreResponse(r, "01") \/ UNCHANGED response
    BY <1>12 DEF StoreSuccess
  <2>4. Recorded(r) => response'[refOf[r]] \in {"01", response[refOf[r]]}
    BY <1>a, <2>3, StoreFacts
  <2>5. UNCHANGED <<rows, sent, inflight, preorders, marked>>
    BY <1>12 DEF StoreSuccess
  <2>6. StageInvOf(r)' /\ CodeInvOf(r)'
    BY <1>12, <1>a, <2>2, <2>5 DEF StoreSuccess
  <2>7. StoredInvOf(r)'
    BY <1>12, <1>a, <2>2, <2>4, <2>5 DEF StoreSuccess, Recorded
  <2> QED BY <2>6, <2>7
<1>13. CASE CopyBills(r)
  <2>1. call'[r].pc = "done" /\ call'[r].code \in {"01", "62"}
    BY <1>13, <1>b, GoFacts DEF CopyBills
  <2>2. /\ call[r].pc = "bills"
        /\ UNCHANGED <<rows, response, sent, inflight, preorders, marked>>
    BY <1>13 DEF CopyBills
  <2> QED BY <1>a, <2>1, <2>2 DEF Recorded
<1> QED BY <1>1, <1>2, <1>3, <1>4, <1>5, <1>6, <1>7, <1>8, <1>9, <1>10, <1>11,
           <1>12, <1>13 DEF Serve

LEMMA RowStep ==
    ASSUME AnswerInv, [Next]_vars
    PROVE  RowInv'
<1> USE RequestAssumption DEF Codes, Refusals, Finals
<1>a. TypeOK /\ RowInv
  BY DEF AnswerInv
<1>1. ASSUME NEW r \in Reqs, InsertRequest(r) PROVE RowInv'
  <2>1. InsertRow(r) \/ UNCHANGED rows
    BY <1>1 DEF InsertRequest
  <2>2. UNCHANGED response
    BY <1>1 DEF InsertRequest
  <2> QED BY <1>a, <2>1, <2>2, InsertFacts DEF RowInv
<1>2. ASSUME NEW r \in Reqs, Respond(r) \/ StoreSuccess(r) PROVE RowInv'
  <2>1. call[r].code \in Codes
    BY <1>a DEF TypeOK
  <2>2. \E code \in Codes : StoreResponse(r, code) \/ UNCHANGED response
    BY <1>2, <2>1 DEF Respond, StoreSuccess
  <2>3. UNCHANGED rows
    BY <1>2 DEF Respond, StoreSuccess
  <2> QED BY <1>a, <2>2, <2>3, StoreFacts DEF RowInv, Recorded
<1>3. ASSUME NEW r \in Reqs, Settle(r) PROVE RowInv'
  BY <1>3, <1>a, UpdateFacts DEF Settle, RowInv
<1>4. ASSUME NEW r \in Reqs,
             Serve(r) \/ LatePublish(r),
             ~InsertRequest(r), ~Respond(r), ~StoreSuccess(r)
      PROVE  UNCHANGED <<rows, response>>
  BY <1>4 DEF Serve, Receive, CheckRef, CheckInquiry, CheckPaid,
     ValidateInquiry, ValidatePrice, Preorder, Mark, Publish, CopyBills,
     LatePublish
<1>5. CASE Crash \/ UNCHANGED vars
  BY <1>5, <1>a DEF Crash, vars, RowInv
<1>6. CASE UNCHANGED <<rows, response>>
  BY <1>6, <1>a DEF RowInv
<1> QED BY <1>1, <1>2, <1>3, <1>4, <1>5, <1>6 DEF Next, Serve

LEMMA OtherStep ==
    ASSUME AnswerInv, NEW r \in Reqs, NEW s \in Reqs \ {r}, Serve(r)
    PROVE  OwnInv(s)'
<1>1. TypeOK /\ OwnInv(s)
  BY DEF AnswerInv, StageInv, CodeInv, StoredInv, OwnInv
<1>2. /\ call'[s] = call[s] /\ sent'[s] = sent[s]
      /\ s \in inflight' <=> s \in inflight
      /\ preorders \subseteq preorders' /\ marked \subseteq marked'
      /\ Recorded(s)' <=> Recorded(s)
      /\ Recorded(s) => response'[refOf[s]] = response[refOf[s]]
  BY <1>1, OtherFrame
<1> QED BY <1>1, <1>2 DEF OwnInv, StageInvOf, CodeInvOf, StoredInvOf, OnQueue

LEMMA AnswerStep == AnswerInv /\ [Next]_vars => AnswerInv'
<1> SUFFICES ASSUME AnswerInv, [Next]_vars PROVE AnswerInv'
  OBVIOUS
<1>a. TypeOK /\ \A r \in Reqs : OwnInv(r)
  BY DEF AnswerInv, StageInv, CodeInv, StoredInv, OwnInv
<1>1. ASSUME NEW r \in Reqs, Serve(r) PROVE \A s \in Reqs : OwnInv(s)'
  BY <1>1, OwnStep, OtherStep
<1>2. ASSUME NEW r \in Reqs, LatePublish(r) PROVE \A s \in Reqs : OwnInv(s)'
  <2>1. /\ UNCHANGED <<call, rows, response, preorders, marked>>
        /\ \A s \in Reqs : OnQueue(s)' <=> OnQueue(s)
        /\ \A s \in Reqs : sent[s] > 0 => sent'[s] > 0
    BY <1>2, <1>a DEF LatePublish, Copies, OnQueue, TypeOK
  <2> QED BY <2>1, <1>a DEF OwnInv, StageInvOf, CodeInvOf, StoredInvOf, Recorded
<1>3. ASSUME NEW r \in Reqs, Settle(r) PROVE \A s \in Reqs : OwnInv(s)'
  <2>1. UNCHANGED <<call, rows, preorders, marked, sent, inflight>>
    BY <1>3 DEF Settle
  <2>2. \A f \in Refs : \/ response'[f] = response[f]
                        \/ response[f] # "none" /\ response'[f] \in Finals
    BY <1>3, <1>a, UpdateFacts DEF Settle
  <2> QED BY <2>1, <2>2, <1>a, RequestAssumption
          DEF OwnInv, StageInvOf, CodeInvOf, StoredInvOf, Recorded, OnQueue,
              Finals, Refusals
<1>4. ASSUME Crash PROVE \A s \in Reqs : OwnInv(s)'
  <2>1. \A s \in Reqs : \/ call'[s] = call[s]
                        \/ call'[s] = [pc |-> "dead", code |-> "none"]
    BY <1>4 DEF Crash
  <2>2. \A s \in Reqs : OnQueue(s)' => OnQueue(s)
    BY <1>4 DEF Crash, OnQueue
  <2>3. UNCHANGED <<rows, response, preorders, marked, sent>>
    BY <1>4 DEF Crash
  <2> QED BY <2>1, <2>2, <2>3, <1>a
          DEF OwnInv, StageInvOf, CodeInvOf, StoredInvOf, Recorded, Refusals, Unsold
<1>5. ASSUME UNCHANGED vars PROVE \A s \in Reqs : OwnInv(s)'
  BY <1>5, <1>a DEF OwnInv, StageInvOf, CodeInvOf, StoredInvOf, Recorded,
     OnQueue, vars
<1>6. \A s \in Reqs : OwnInv(s)'
  BY <1>1, <1>2, <1>3, <1>4, <1>5 DEF Next
<1>7. TypeOK' /\ RowInv'
  BY <1>a, TypeStep, RowStep
<1> QED BY <1>6, <1>7 DEF AnswerInv, StageInv, CodeInv, StoredInv, OwnInv

LEMMA AnswerAlways == Spec => []AnswerInv
<1> QED BY AnswerInit, AnswerStep, PTL DEF Spec

(* What is on the queue, or may still get there, is backed by a preorder   *)
(* marked as published.                                                    *)
THEOREM BackedCorrect == Spec => []PublishedIsBacked
<1>1. AnswerInv => PublishedIsBacked
  BY DEF AnswerInv, StageInv, StageInvOf, PublishedIsBacked
<1> QED BY <1>1, AnswerAlways, PTL

(* A refusal, answered or stored, is never followed by the order itself.   *)
THEOREM RefusalCorrect == Spec => []RefusedIsNotPublished
<1>1. AnswerInv => RefusedIsNotPublished
  <2> SUFFICES ASSUME AnswerInv, NEW r \in Reqs,
                      \/ Answer(r) \in Refusals
                      \/ Recorded(r) /\ response[refOf[r]] \in Refusals
               PROVE  ~OnQueue(r)
    BY DEF RefusedIsNotPublished
  <2>1. CodeInvOf(r) /\ StoredInvOf(r)
    BY DEF AnswerInv, CodeInv, StoredInv
  <2> QED BY <2>1 DEF CodeInvOf, StoredInvOf, Answer, Refusals
<1> QED BY <1>1, AnswerAlways, PTL

(* "01", answered or stored, is only ever said of a published order.       *)
THEOREM InProcessCorrect == Spec => []InProcessIsPublished
<1>1. AnswerInv => InProcessIsPublished
  <2> SUFFICES ASSUME AnswerInv, NEW r \in Reqs,
                      \/ Answer(r) = "01"
                      \/ Recorded(r) /\ response[refOf[r]] = "01"
               PROVE  sent[r] > 0
    BY DEF InProcessIsPublished
  <2>1. CodeInvOf(r) /\ StoredInvOf(r)
    BY DEF AnswerInv, CodeInv, StoredInv
  <2> QED BY <2>1 DEF CodeInvOf, StoredInvOf, Answer
<1> QED BY <1>1, AnswerAlways, PTL

-----------------------------------------------------------------------------
(* Selling an inquiry twice takes a race *)

(* How a request gets past each check, to the insert and to the preorder.  *)
Progress(r) ==
    /\ call'[r].pc # "idle"
    /\ rows' # rows => call'[r].pc \in {"respond", "valid", "done"}
    /\ call'[r].pc = "inquiry" => ~RefUsed(r) \/ r \in missed'
    /\ call'[r].pc = "paid" => call[r].pc = "inquiry"
    /\ call'[r].pc = "insert"
         => call[r].pc = "paid" /\ (~InquiryUsed(r) \/ r \in missed')
    /\ call'[r].pc = "valid"
         => /\ call[r].pc = "insert"
            /\ RefUsed(r) \/ rows'[refOf[r]] = r \/ r \in missed'
    /\ call'[r].pc = "price" => call[r].pc = "valid"
    /\ call'[r].pc = "preorder" => call[r].pc = "price"
    /\ r \in preorders' => r \in preorders \/ call[r].pc = "preorder"

LEMMA ProgressFacts ==
    ASSUME TypeOK, NEW r \in Reqs, Serve(r)
    PROVE  Progress(r)
<1> USE DEF Pcs, Codes, Refusals, Finals, Missed, NoFault, Progress
<1>1. CASE Receive(r)
  BY ZenonT(60), <1>1, GoFacts DEF Receive
<1>2. CASE CheckRef(r)
  BY ZenonT(60), <1>2, GoFacts DEF CheckRef
<1>3. CASE CheckInquiry(r)
  <2>1. FlawCode(flaw[r]) \in Codes
    BY DEF FlawCode
  <2> QED BY ZenonT(60), <1>3, <2>1, GoFacts DEF CheckInquiry
<1>4. CASE CheckPaid(r)
  BY ZenonT(60), <1>4, GoFacts DEF CheckPaid
<1>5. CASE InsertRequest(r)
  <2>1. call'[r].pc \in {AfterInsert(r), "done"}
    BY <1>5, InsertMoves
  <2>2. /\ call[r].pc \in {"audit", "insert"}
        /\ UNCHANGED preorders
        /\ InsertRow(r) \/ r \in missed' \/ call'[r].pc = "done"
    BY <1>5, GoFacts DEF InsertRequest
  <2>3. InsertRow(r) => RefUsed(r) \/ rows'[refOf[r]] = r
    BY InsertFacts DEF RefUsed
  <2> QED BY <2>1, <2>2, <2>3 DEF AfterInsert
<1>6. CASE ValidateInquiry(r)
  BY ZenonT(60), <1>6, GoFacts DEF ValidateInquiry
<1>7. CASE ValidatePrice(r)
  BY ZenonT(60), <1>7, GoFacts DEF ValidatePrice
<1>8. CASE Preorder(r)
  BY ZenonT(60), <1>8, GoFacts DEF Preorder
<1>9. CASE Mark(r)
  BY ZenonT(60), <1>9, GoFacts DEF Mark
<1>10. CASE Publish(r)
  BY <1>10, PublishFacts DEF Publish
<1>11. CASE Respond(r)
  BY <1>11, RespondMoves DEF Respond
<1>12. CASE StoreSuccess(r)
  BY ZenonT(60), <1>12, GoFacts DEF StoreSuccess
<1>13. CASE CopyBills(r)
  BY ZenonT(60), <1>13, GoFacts DEF CopyBills
<1> QED BY <1>1, <1>2, <1>3, <1>4, <1>5, <1>6, <1>7, <1>8, <1>9, <1>10, <1>11,
           <1>12, <1>13 DEF Serve

(* What a request's step leaves alone in the races. *)
LEMMA RaceFrame ==
    ASSUME TypeOK, RowInv, NEW r \in Reqs, Serve(r)
    PROVE  /\ \A s \in Reqs \ {r} : /\ call'[s] = call[s]
                                    /\ s \in preorders' <=> s \in preorders
           /\ preorders \subseteq preorders'
           /\ missed \subseteq missed'
           /\ \/ met' = met /\ call[r].pc \notin {"idle", "done", "dead"}
              \/ met' = [met EXCEPT ![r] = InProgress] /\ call[r].pc = "idle"
           /\ \A f \in Refs : \/ rows'[f] = rows[f]
                              \/ /\ rows[f] = None /\ rows'[f] = r /\ f = refOf[r]
                                 /\ r \in InProgress
<1>1. \A s \in Reqs \ {r} : call'[s] = call[s]
  BY OtherFrame
<1>2. \A s \in Reqs \ {r} : s \in preorders' <=> s \in preorders
  BY DEF Serve, Receive, CheckRef, CheckInquiry, CheckPaid, InsertRequest,
     ValidateInquiry, ValidatePrice, Preorder, Mark, Publish, Respond,
     StoreSuccess, CopyBills
<1>3. preorders \subseteq preorders' /\ missed \subseteq missed'
  BY DEF Serve, Receive, CheckRef, CheckInquiry, CheckPaid, InsertRequest,
     ValidateInquiry, ValidatePrice, Preorder, Mark, Publish, Respond,
     StoreSuccess, CopyBills, Missed, NoFault
<1>4. \/ met' = met /\ call[r].pc \notin {"idle", "done", "dead"}
      \/ met' = [met EXCEPT ![r] = InProgress] /\ call[r].pc = "idle"
  BY DEF Serve, Receive, CheckRef, CheckInquiry, CheckPaid, InsertRequest,
     ValidateInquiry, ValidatePrice, Preorder, Mark, Publish, Respond,
     StoreSuccess, CopyBills
<1>5. \A f \in Refs : \/ rows'[f] = rows[f]
                      \/ /\ rows[f] = None /\ rows'[f] = r /\ f = refOf[r]
                         /\ r \in InProgress
  <2>1. CASE InsertRequest(r)
    <3>1. InsertRow(r) \/ UNCHANGED rows
      BY <2>1 DEF InsertRequest
    <3>2. r \in InProgress
      BY <2>1 DEF InsertRequest, InProgress
    <3> QED BY <3>1, <3>2, InsertFacts
  <2>2. CASE ~InsertRequest(r)
    BY <2>2 DEF Serve, Receive, CheckRef, CheckInquiry, CheckPaid,
       ValidateInquiry, ValidatePrice, Preorder, Mark, Publish, Respond,
       StoreSuccess, CopyBills
  <2> QED BY <2>1, <2>2
<1> QED BY <1>1, <1>2, <1>3, <1>4, <1>5

(* Having met and having raced are for good. *)
LEMMA RacedStable ==
    ASSUME TypeOK, MetInv, missed \subseteq missed',
           \/ met' = met
           \/ \E r \in Reqs : /\ met' = [met EXCEPT ![r] = InProgress]
                              /\ call[r].pc = "idle"
    PROVE  /\ \A a, b \in Reqs : Met(a, b) => Met(a, b)'
           /\ \A a \in Reqs : Raced(a) => Raced(a)'
<1>1. \A a \in Reqs : met[a] \subseteq met'[a]
  BY DEF TypeOK, MetInv
<1>2. \A a, b \in Reqs : Met(a, b) => Met(a, b)'
  BY <1>1 DEF Met
<1>3. \A a \in Reqs : Raced(a) => Raced(a)'
  BY <1>2 DEF Raced
<1> QED BY <1>2, <1>3

LEMMA RaceInit == Init => RaceInv
<1> SUFFICES ASSUME Init PROVE RaceInv
  OBVIOUS
<1>1. RowInv
  BY DEF Init, RowInv
<1>2. MetInv
  BY DEF Init, MetInv, InProgress
<1>3. ClearedInv
  BY DEF Init, ClearedInv
<1>4. BuyerInv /\ PairInv
  BY DEF Init, BuyerInv, PairInv, Passed, Buying
<1> QED BY <1>1, <1>2, <1>3, <1>4, TypeInit DEF RaceInv

LEMMA RaceServe ==
    ASSUME RaceInv, NEW r \in Reqs, Serve(r)
    PROVE  MetInv' /\ ClearedInv' /\ BuyerInv' /\ PairInv'
<1>a. TypeOK /\ RowInv /\ MetInv /\ ClearedInv /\ BuyerInv /\ PairInv
  BY DEF RaceInv
<1>b. Progress(r)
  BY <1>a, ProgressFacts
<1>c. /\ \A s \in Reqs \ {r} : call'[s] = call[s] /\ (s \in preorders' <=> s \in preorders)
      /\ preorders \subseteq preorders'
      /\ missed \subseteq missed'
      /\ \/ met' = met /\ call[r].pc \notin {"idle", "done", "dead"}
         \/ met' = [met EXCEPT ![r] = InProgress] /\ call[r].pc = "idle"
      /\ \A f \in Refs : \/ rows'[f] = rows[f]
                         \/ /\ rows[f] = None /\ rows'[f] = r /\ f = refOf[r]
                            /\ r \in InProgress
  BY <1>a, RaceFrame
<1>d. /\ \A a, b \in Reqs : Met(a, b) => Met(a, b)'
      /\ \A a \in Reqs : Raced(a) => Raced(a)'
  BY <1>a, <1>c, RacedStable
<1>e. \A s \in Reqs : refOf[s] \in Refs
  BY RequestAssumption
<1>f. \A s \in Reqs : s \in missed' => Raced(s)'
  BY DEF Raced
<1>1. MetInv'
  <2>1. CASE met' = met /\ call[r].pc \notin {"idle", "done", "dead"}
    <3>1. \A s \in Reqs : call'[s].pc = "idle" => call[s].pc = "idle"
      BY <1>b, <1>c DEF Progress
    <3>2. InProgress' \subseteq InProgress
      BY <1>c, <2>1 DEF InProgress
    <3> QED BY <1>a, <2>1, <3>1, <3>2 DEF MetInv, Met, InProgress
  <2>2. CASE met' = [met EXCEPT ![r] = InProgress] /\ call[r].pc = "idle"
    <3>1. \A s \in Reqs : call'[s].pc = "idle" => s # r /\ call[s].pc = "idle"
      BY <1>b, <1>c DEF Progress
    <3>2. InProgress' \subseteq InProgress \cup {r} /\ InProgress \subseteq Reqs
      BY <1>c DEF InProgress
    <3>3. met'[r] = InProgress /\ \A s \in Reqs \ {r} : met'[s] = met[s]
      BY <1>a, <2>2 DEF TypeOK
    <3>4. \A s \in Reqs : call'[s].pc = "idle" => met'[s] = {}
      BY <1>a, <3>1, <3>3 DEF MetInv
    <3>5. ASSUME NEW a \in InProgress', NEW b \in InProgress', a # b
          PROVE  Met(a, b)'
      <4>1. CASE a = r \/ b = r
        BY <3>2, <3>3, <3>5, <4>1 DEF Met
      <4>2. CASE a # r /\ b # r
        BY <1>a, <1>d, <3>2, <3>5, <4>2 DEF MetInv
      <4> QED BY <4>1, <4>2
    <3> QED BY <3>4, <3>5 DEF MetInv
  <2> QED BY <1>c, <2>1, <2>2
<1>2. ClearedInv'
  <2> SUFFICES ASSUME NEW s \in Reqs,
                      call'[s].pc \in {"inquiry", "paid", "insert"}, RefUsed(s)'
               PROVE  Raced(s)'
    BY DEF ClearedInv
  <2>1. CASE RefUsed(s)
    <3>1. CASE call[s].pc \in {"inquiry", "paid", "insert"}
      BY <1>a, <1>d, <2>1, <3>1 DEF ClearedInv
    <3>2. CASE call[s].pc \notin {"inquiry", "paid", "insert"}
      BY <1>b, <1>c, <1>f, <2>1, <3>2 DEF Progress
    <3> QED BY <3>1, <3>2
  <2>2. CASE ~RefUsed(s)
    <3>1. /\ rows'[refOf[s]] = r /\ refOf[s] = refOf[r]
          /\ r \in InProgress
      BY <1>c, <1>e, <2>2 DEF RefUsed
    <3>2. CASE s = r
      <4>1. rows' # rows
        BY <2>2 DEF RefUsed
      <4> QED BY <1>b, <3>2, <4>1 DEF Progress
    <3>3. CASE s # r
      <4>1. s \in InProgress
        BY <1>c, <3>3 DEF InProgress
      <4>2. Met(r, s)'
        BY <1>a, <1>d, <3>1, <3>3, <4>1 DEF MetInv, InProgress
      <4> QED BY <3>1, <3>3, <4>2 DEF Raced
    <3> QED BY <3>2, <3>3
  <2> QED BY <2>1, <2>2
<1>3. \A s \in Reqs : Buying(s) => Buying(s)' \/ s = r
  BY <1>c DEF Buying
<1>4. \A s \in Reqs \ {r} : (Buying(s)' <=> Buying(s)) /\ (Passed(s)' <=> Passed(s))
  BY <1>c DEF Buying, Passed
<1>5. BuyerInv'
  <2> SUFFICES ASSUME NEW s \in Reqs, Buying(s)' PROVE (Recorded(s) \/ Raced(s))'
    BY DEF BuyerInv
  <2>1. Recorded(s) => Recorded(s)'
    BY <1>c, <1>e, RequestAssumption DEF Recorded
  <2>2. CASE Buying(s)
    BY <1>a, <1>d, <2>1, <2>2 DEF BuyerInv
  <2>3. CASE ~Buying(s)
    <3>1. s = r
      BY <1>4, <2>3
    <3>2. call'[r].pc = "valid"
      BY <1>b, <2>3, <3>1 DEF Progress, Buying
    <3>3. call[r].pc = "insert"
      BY <1>b, <3>2 DEF Progress
    <3>4. RefUsed(r) => Raced(r)
      BY <1>a, <3>3 DEF ClearedInv
    <3> QED BY <1>b, <1>d, <1>f, <3>1, <3>2, <3>4 DEF Progress, Recorded
  <2> QED BY <2>2, <2>3
<1>6. ASSUME NEW s \in Reqs, Passed(s), s # r, inquiryOf[s] = inquiryOf[r],
             ~Passed(r), Passed(r)'
      PROVE  Met(s, r)' \/ Raced(s)' \/ Raced(r)'
  <2>1. call'[r].pc = "insert"
    BY <1>b, <1>6 DEF Progress, Passed, Buying
  <2>2. call[r].pc = "paid" /\ (~InquiryUsed(r) \/ r \in missed')
    BY <1>b, <2>1 DEF Progress
  <2>3. CASE r \in missed'
    BY <1>f, <2>3
  <2>4. CASE s \in InProgress
    <3>1. Met(s, r)
      BY <1>a, <1>6, <2>2, <2>4 DEF MetInv, InProgress
    <3> QED BY <1>d, <3>1
  <2>5. CASE s \notin InProgress /\ ~InquiryUsed(r)
    <3>1. Buying(s)
      BY <1>6, <2>5 DEF Passed, InProgress
    <3>2. ~Recorded(s)
      <4> SUFFICES ASSUME rows[refOf[s]] = s PROVE FALSE
        BY DEF Recorded
      <4>1. s # None /\ refOf[s] \in Refs
        BY <1>e, RequestAssumption
      <4> QED BY <4>1, <1>6, <2>5 DEF InquiryUsed
    <3>3. Raced(s)
      BY <1>a, <3>1, <3>2 DEF BuyerInv
    <3> QED BY <1>d, <3>3
  <2> QED BY <2>2, <2>3, <2>4, <2>5
<1>7. PairInv'
  <2> SUFFICES ASSUME NEW a \in Reqs, NEW b \in Reqs, Passed(a)', Passed(b)',
                      a # b, inquiryOf[a] = inquiryOf[b]
               PROVE  Met(a, b)' \/ Raced(a)' \/ Raced(b)'
    BY DEF PairInv
  <2>1. CASE Passed(a) /\ Passed(b)
    BY <1>a, <1>d, <2>1 DEF PairInv
  <2>2. CASE ~Passed(a)
    <3>1. a = r /\ Passed(b)
      BY <1>4, <2>2
    <3> QED BY <1>6, <2>2, <3>1 DEF Met
  <2>3. CASE ~Passed(b)
    <3>1. b = r /\ Passed(a)
      BY <1>4, <2>3
    <3> QED BY <1>6, <2>3, <3>1 DEF Met
  <2> QED BY <2>1, <2>2, <2>3
<1> QED BY <1>1, <1>2, <1>5, <1>7

LEMMA RaceStep == RaceInv /\ AnswerInv /\ [Next]_vars => RaceInv'
<1> SUFFICES ASSUME RaceInv, AnswerInv, [Next]_vars PROVE RaceInv'
  OBVIOUS
<1>a. TypeOK /\ MetInv /\ ClearedInv /\ BuyerInv /\ PairInv
  BY DEF RaceInv
<1>b. TypeOK' /\ RowInv'
  BY <1>a, TypeStep, RowStep
<1>1. ASSUME NEW r \in Reqs, Serve(r) PROVE RaceInv'
  BY <1>1, <1>b, RaceServe DEF RaceInv
<1>2. ASSUME UNCHANGED <<rows, preorders, missed, met>>,
             \A s \in Reqs : call'[s] = call[s] \/ call'[s].pc = "dead"
      PROVE  RaceInv'
  <2>1. /\ \A a, b \in Reqs : Met(a, b)' <=> Met(a, b)
        /\ \A a \in Reqs : Raced(a)' <=> Raced(a)
        /\ \A a \in Reqs : /\ RefUsed(a)' <=> RefUsed(a)
                           /\ Recorded(a)' <=> Recorded(a)
    BY <1>2 DEF Met, Raced, RefUsed, Recorded
  <2>2. MetInv'
    BY <1>2, <1>a, <2>1 DEF MetInv, InProgress
  <2>3. ClearedInv'
    BY <1>2, <1>a, <2>1 DEF ClearedInv
  <2>4. \A a \in Reqs : (Buying(a)' => Buying(a)) /\ (Passed(a)' => Passed(a))
    BY <1>2 DEF Buying, Passed
  <2>5. BuyerInv' /\ PairInv'
    BY <1>a, <2>1, <2>4 DEF BuyerInv, PairInv
  <2> QED BY <1>b, <2>2, <2>3, <2>5 DEF RaceInv
<1>3. ASSUME NEW r \in Reqs, LatePublish(r) \/ Settle(r) PROVE RaceInv'
  BY <1>3, <1>2 DEF LatePublish, Settle
<1>4. CASE Crash
  BY <1>4, <1>2 DEF Crash
<1>5. CASE UNCHANGED vars
  BY <1>5, <1>2 DEF vars
<1> QED BY <1>1, <1>3, <1>4, <1>5 DEF Next

(* Two preorders for one inquiry are the work of a race or of an ignored   *)
(* database error.                                                         *)
THEOREM ResaleCorrect == Spec => []ResaleNeedsRace
<1>1. RaceInv /\ AnswerInv => ResaleNeedsRace
  <2> SUFFICES ASSUME RaceInv, NEW r \in preorders, NEW s \in preorders,
                      r # s, inquiryOf[r] = inquiryOf[s]
               PROVE  Met(r, s) \/ Raced(r) \/ Raced(s)
    BY DEF ResaleNeedsRace
  <2>1. r \in Reqs /\ s \in Reqs /\ PairInv
    BY DEF RaceInv, TypeOK
  <2> QED BY <2>1 DEF PairInv, Passed, Buying
<1>2. Spec => [](RaceInv /\ AnswerInv)
  BY RaceInit, RaceStep, AnswerInit, AnswerStep, PTL DEF Spec
<1> QED BY <1>1, <1>2, PTL

-----------------------------------------------------------------------------
(* Whose outcome a stored final status is *)

Owned(r) == \/ settled[r] = response[refOf[r]]
            \/ \E s \in Reqs \ {r} : refOf[s] = refOf[r] /\ sent[s] > 0

(* Messages stay sent, outcomes stay, and a response only becomes final in *)
(* the step that settles an order of its ref_id.                           *)
LEMMA SettledFrame ==
    ASSUME AnswerInv, [Next]_vars
    PROVE  /\ \A s \in Reqs : sent[s] > 0 => sent'[s] > 0
           /\ \A r \in Reqs :
                Recorded(r)' /\ response'[refOf[r]] \in Finals
                  => \/ /\ Recorded(r) /\ response[refOf[r]] \in Finals
                        /\ UNCHANGED settled
                        /\ response'[refOf[r]] = response[refOf[r]]
                     \/ \E q \in Reqs : Settle(q) /\ Recorded(r)
<1>a. TypeOK /\ RowInv /\ CodeInv /\ StageInv
  BY DEF AnswerInv
<1>b. \A s \in Reqs : refOf[s] \in Refs
  BY RequestAssumption
<1>1. ASSUME NEW s \in Reqs, sent[s] > 0 PROVE sent'[s] > 0
  <2>1. ASSUME NEW q \in Reqs, Serve(q) PROVE sent'[s] > 0
    <3>1. CASE Publish(q)
      <4>1. ~OnQueue(q)
        BY <1>a, <3>1 DEF StageInv, StageInvOf, Publish, Unsold
      <4>2. q # s
        BY <1>1, <4>1 DEF OnQueue
      <4> QED BY <1>a, <1>1, <3>1, <4>2, PublishFacts
    <3>2. CASE ~Publish(q)
      BY <1>1, <2>1, <3>2 DEF Serve, Receive, CheckRef, CheckInquiry, CheckPaid,
         InsertRequest, ValidateInquiry, ValidatePrice, Preorder, Mark, Respond,
         StoreSuccess, CopyBills
    <3> QED BY <3>1, <3>2
  <2>2. ASSUME NEW q \in Reqs, LatePublish(q) PROVE sent'[s] > 0
    BY <1>1, <1>a, <2>2 DEF LatePublish, Copies, TypeOK
  <2>3. ASSUME NEW q \in Reqs, Settle(q) PROVE sent'[s] > 0
    BY <1>1, <2>3 DEF Settle
  <2>4. CASE Crash \/ UNCHANGED vars
    BY <1>1, <2>4 DEF Crash, vars
  <2> QED BY <2>1, <2>2, <2>3, <2>4 DEF Next
<1>2. ASSUME NEW r \in Reqs, Recorded(r)', response'[refOf[r]] \in Finals,
             \A q \in Reqs : ~Settle(q)
      PROVE  /\ Recorded(r) /\ response[refOf[r]] \in Finals
             /\ UNCHANGED settled
             /\ response'[refOf[r]] = response[refOf[r]]
  <2>1. UNCHANGED settled
    BY <1>2 DEF Next, Serve, Receive, CheckRef, CheckInquiry, CheckPaid,
       InsertRequest, ValidateInquiry, ValidatePrice, Preorder, Mark, Publish,
       Respond, StoreSuccess, CopyBills, LatePublish, Crash, vars
  <2>2. response'[refOf[r]] = response[refOf[r]]
    <3>1. ASSUME NEW q \in Reqs, Respond(q) \/ StoreSuccess(q)
          PROVE  response'[refOf[r]] = response[refOf[r]]
      <4>1. PICK code \in Codes \ Finals : StoreResponse(q, code) \/ UNCHANGED response
        <5>1. "01" \in Codes \ Finals
          BY DEF Codes, Finals
        <5>2. Respond(q) => call[q].code \in Codes \ Finals
          BY <1>a DEF CodeInv, CodeInvOf, Respond, Codes, Finals, Refusals
        <5> QED BY <3>1, <5>1, <5>2 DEF Respond, StoreSuccess
      <4> QED BY <1>a, <1>b, <1>2, <4>1, StoreFacts DEF Recorded
    <3>2. CASE \A q \in Reqs : ~Respond(q) /\ ~StoreSuccess(q)
      BY <1>2, <3>2 DEF Next, Serve, Receive, CheckRef, CheckInquiry,
         CheckPaid, InsertRequest, ValidateInquiry, ValidatePrice, Preorder,
         Mark, Publish, CopyBills, LatePublish, Crash, vars
    <3> QED BY <3>1, <3>2
  <2>3. Recorded(r)
    <3>1. rows[refOf[r]] # None
      BY <1>a, <1>b, <1>2, <2>2 DEF RowInv, Finals
    <3>2. CASE \E q \in Reqs : Serve(q)
      BY <1>a, <1>b, <1>2, <3>1, <3>2, RaceFrame DEF Recorded
    <3>3. CASE ~\E q \in Reqs : Serve(q)
      BY <1>2, <3>3 DEF Recorded, Next, LatePublish, Crash, vars
    <3> QED BY <3>2, <3>3
  <2> QED BY <1>2, <2>1, <2>2, <2>3
<1>3. ASSUME NEW r \in Reqs, Recorded(r)', NEW q \in Reqs, Settle(q)
      PROVE  Recorded(r)
  BY <1>3 DEF Settle, Recorded
<1> QED BY <1>1, <1>2, <1>3

LEMMA StatusStep == AnswerInv /\ StatusIsOwn /\ [Next]_vars => StatusIsOwn'
<1> SUFFICES ASSUME AnswerInv, StatusIsOwn, [Next]_vars,
                    NEW r \in Reqs, Recorded(r)', response'[refOf[r]] \in Finals
             PROVE  Owned(r)'
  BY DEF StatusIsOwn, Owned
<1>a. TypeOK /\ refOf[r] \in Refs
  BY RequestAssumption DEF AnswerInv
<1>b. \A s \in Reqs : sent[s] > 0 => sent'[s] > 0
  BY SettledFrame
<1>1. CASE /\ Recorded(r) /\ response[refOf[r]] \in Finals
           /\ UNCHANGED settled
           /\ response'[refOf[r]] = response[refOf[r]]
  BY <1>b, <1>1 DEF StatusIsOwn, Owned
<1>2. ASSUME NEW q \in Reqs, Settle(q), Recorded(r) PROVE Owned(r)'
  <2>1. PICK code \in Finals : /\ settled' = [settled EXCEPT ![q] = code]
                               /\ PaymentStatusOnUpdate(q, code)
    BY <1>2 DEF Settle
  <2>2. sent'[q] > 0
    BY <1>2, <1>b DEF Settle
  <2>3. settled'[q] = code /\ \A s \in Reqs \ {q} : settled'[s] = settled[s]
    BY <1>a, <2>1 DEF TypeOK
  <2>4. \/ response'[refOf[r]] = response[refOf[r]]
        \/ response'[refOf[r]] = code
    BY <1>a, <2>1, UpdateFacts
  <2>5. CASE refOf[q] = refOf[r]
    <3>1. CASE q # r
      BY <2>2, <2>5, <3>1 DEF Owned
    <3>2. CASE q = r
      <4>1. response[refOf[r]] # "none" => response'[refOf[r]] = code
        BY <1>a, <2>1, <3>2 DEF PaymentStatusOnUpdate, TypeOK
      <4>2. response[refOf[r]] # "none"
        BY <2>1, <3>2 DEF PaymentStatusOnUpdate, Finals
      <4> QED BY <2>3, <3>2, <4>1, <4>2 DEF Owned
    <3> QED BY <3>1, <3>2
  <2>6. CASE refOf[q] # refOf[r]
    <3>1. response'[refOf[r]] = response[refOf[r]]
      BY <1>a, <2>1, <2>6 DEF PaymentStatusOnUpdate, TypeOK
    <3> QED BY <1>2, <1>b, <2>3, <2>6, <3>1 DEF StatusIsOwn, Owned
  <2> QED BY <2>5, <2>6
<1> QED BY <1>1, <1>2, SettledFrame

(* A final status stored for a payment is its own order's outcome, or a    *)
(* second order with its ref_id was published.                             *)
THEOREM StatusCorrect == Spec => []StatusIsOwn
<1>1. Init => StatusIsOwn
  BY RequestAssumption DEF Init, StatusIsOwn, Recorded
<1>2. Spec => [](AnswerInv /\ StatusIsOwn)
  BY <1>1, AnswerInit, AnswerStep, StatusStep, PTL DEF Spec
<1> QED BY <1>2, PTL
=============================================================================
