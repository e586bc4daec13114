--------------------------- MODULE PartnerApiProofs --------------------------
(***************************************************************************)
(* Proofs about PartnerApi: what an inquiry that was answered 00 left in   *)
(* the tables, which prices the partner sees, whom the rate limit and the  *)
(* cut-off turn away, and what the partner knows of a payment.             *)
(***************************************************************************)
EXTENDS PartnerApi, FiniteSetTheorems, TLAPS

InquiryTypes ==
    /\ call \in [Reqs -> [pc : Pcs, code : Codes]]
    /\ {rows, payable, missed} \subseteq SUBSET Reqs
    /\ version \in Nat
    /\ cached \in Nat \cup {None}
    /\ saving \in [Reqs \cup Others -> Nat \cup {None}]
    /\ counter \in [count : Nat, expires : Nat \cup {None}]
    /\ now \in Nat
    /\ seen \in [Reqs -> Nat]
    /\ earlier \in [Reqs -> SUBSET Reqs]
    /\ counted \in [Reqs -> Nat \cup {None}]
    /\ miscounted \in BOOLEAN /\ crossed \in BOOLEAN
    /\ faults \in Nat

(* Only a refusal of the ref_id has its answer before it is over. *)
CodeInv ==
    \A r \in Reqs : /\ call[r].pc \notin {"audit", "done"} => call[r].code = "none"
                    /\ call[r].pc = "audit" => call[r].code = "13"

(* The inquiry passed the check of its ref_id.  *)
Passed(r)   == call[r].pc \in {"insert", "price", "oracle", "pln", "success", "bills"}
                 \/ Answer(r) = "00"
Stored(r)   == call[r].pc = "bills" \/ Answer(r) = "00"

(* An inquiry that passed has its row, one that got to the bills is        *)
(* payable; and none passes after one with its ref_id was answered 00.     *)
RowInv ==
    /\ \A r \in Reqs : /\ Passed(r) /\ call[r].pc # "insert" => r \in rows \cup missed
                       /\ Stored(r) => r \in payable \cup missed
    /\ \A s \in Reqs : earlier[s] \subseteq Over
    /\ \A s \in Reqs : \A r \in earlier[s] :
          Answer(r) = "00" /\ refOf[r] = refOf[s] /\ Passed(s)
             => {r, s} \cap missed # {}

(* While Oracle did not change during a fill: what is about to be cached   *)
(* is current, and what is cached is as new as all that was shown.         *)
PriceInv ==
    /\ \A r \in Reqs : call[r].pc = "idle" => seen[r] = 0
    /\ ~crossed =>
      /\ \A x \in DOMAIN saving : saving[x] \in {None, 0, version}
      /\ \A r \in Reqs : call[r].pc = "oracle" => cached \in {None, 0, version}
      /\ \A r \in Reqs : seen[r] <= version
      /\ cached \notin {None, 0} => \A r \in Reqs : seen[r] <= cached
      /\ cached # None => cached <= version
      /\ \A s \in Reqs : \A r \in earlier[s] : seen[s] # 0 => seen[r] <= seen[s]

(* While the counter has not gone astray: it counts requests of its        *)
(* window, each once, which started when the first of them was counted.    *)
CountedSince(t) == {s \in Reqs : counted[s] # None /\ counted[s] >= t}
Windows ==
    \/ counter = NoCounter /\ \A r \in Reqs : call[r].pc # "expire"
    \/ /\ counter.expires = None /\ counter.count >= 1
       /\ counter.count <= Cardinality(CountedSince(now))
       /\ \E r \in Reqs : \A s \in Reqs : call[s].pc = "expire" <=> s = r
    \/ /\ counter.expires # None /\ counter.count >= 1
       /\ \A r \in Reqs : call[r].pc # "expire"
       /\ \E start \in Nat : /\ counter.expires = start + Window
                             /\ start <= now /\ now < start + Window
                             /\ counter.count <= Cardinality(CountedSince(start))
LimitInv ==
    /\ \A r \in Reqs : counted[r] # None => counted[r] <= now
    /\ IsFiniteSet({r \in Reqs : counted[r] # None})
    /\ \/ miscounted
       \/ /\ Windows
          /\ \A r \in Reqs : call[r].pc \in {"idle", "incr"} => counted[r] = None

(* Every key Oracle has a value for is set or about to be, or none is,     *)
(* unless one was left unset.                                              *)
CutInv ==
    /\ cutKeys \subseteq held /\ cutSaving \subseteq held
    /\ found \in [Reqs -> SUBSET cutKeys]
    /\ unset \/ held \subseteq cutKeys \cup cutSaving \/ cutKeys \cup cutSaving = {}

InquiryInv == InquiryTypes /\ CodeInv /\ RowInv /\ PriceInv /\ LimitInv /\ CutInv

NotifierTypes ==
    /\ stored \in [Payments -> Statuses]
    /\ published \in [Payments -> SUBSET (Statuses \ {0})]
    /\ queue \in Seq([payment : Payments, status : Statuses \ {0}])
    /\ handling \in Statuses \cup {NoStatus}
    /\ started \in BOOLEAN
    /\ posting \in [Payments -> [Statuses -> Nat]]
    /\ told \in [Payments -> Statuses]
    /\ gap \in [Payments -> SUBSET Gaps]
    /\ callFaults \in Nat /\ drops \in Nat

(* The partner was told of status s or a newer one, or is about to be. *)
Knows(p, s) == s <= told[p] \/ \E t \in InFlight(p) : s <= t

Waiting(p, s) == \E i \in 1..Len(queue) : queue[i] = [payment |-> p, status |-> s]

(* Without a gap nothing that was told or is in flight is newer than what  *)
(* is stored, the posts in flight are of one status, the newest, and every *)
(* message that was sent is in the queue or its status, or a newer one, is *)
(* known.  What the consumer works on is newer still.                      *)
PaymentInv(p) ==
    gap[p] = {} =>
      /\ told[p] <= stored[p]
      /\ \A t \in InFlight(p) : /\ told[p] <= t /\ t <= stored[p]
                                /\ \A u \in InFlight(p) : t = u
      /\ \A s \in published[p] : Knows(p, s) \/ Waiting(p, s)
      /\ handling # NoStatus /\ Head(queue).payment = p =>
            /\ Head(queue).status <= handling /\ handling <= stored[p]
            /\ told[p] <= handling /\ \A t \in InFlight(p) : t <= handling
      /\ started /\ Head(queue).payment = p => Knows(p, Head(queue).status)

NotifierInv ==
    /\ NotifierTypes
    /\ handling # NoStatus \/ started => queue # <<>>
    /\ ~(handling # NoStatus /\ started)
    /\ \A p \in Payments : PaymentInv(p)

-----------------------------------------------------------------------------
(* Where the goroutine of an inquiry goes *)

Flows(p, pc) ==
    \/ p = "idle" /\ pc = "incr"
    \/ p = "incr" /\ pc \in {"incr", "expire", "cutoff"}
    \/ p = "expire" /\ pc \in {"expire", "cutoff"}
    \/ p = "cutoff" /\ pc = "window"
    \/ p = "window" /\ pc = "ref"
    \/ p = "ref" /\ pc \in {"audit", "insert"}
    \/ p = "insert" /\ pc = "price"
    \/ p = "price" /\ pc \in {"oracle", "pln"}
    \/ p = "oracle" /\ pc = "pln"
    \/ p = "pln" /\ pc = "success"
    \/ p = "success" /\ pc = "bills"

Moves(r, pc, code) ==
    /\ call' \in [Reqs -> [pc : Pcs, code : Codes]]
    /\ \A t \in Reqs \ {r} : call'[t] = call[t]
    /\ call'[r].pc = pc /\ call'[r].code = code
    /\ call[r].pc \notin {"done", "dead"}
    /\ \/ Flows(call[r].pc, pc) /\ code = IF pc = "audit" THEN "13" ELSE "none"
       \/ /\ pc = "done"
          /\ code = "00" => call[r].pc = "bills"
          /\ code = "23" => call[r].pc = "incr"

LEMMA GoMoves ==
    ASSUME InquiryTypes, NEW r \in Reqs, NEW pc \in Pcs, NEW code \in Codes,
           Go(r, pc, code)
    PROVE  /\ call' \in [Reqs -> [pc : Pcs, code : Codes]]
           /\ \A t \in Reqs \ {r} : call'[t] = call[t]
           /\ call'[r].pc = pc /\ call'[r].code = code
<1>1. call \in [Reqs -> [pc : Pcs, code : Codes]]
      /\ [pc |-> pc, code |-> code] \in [pc : Pcs, code : Codes]
  BY DEF InquiryTypes
<1> QED BY <1>1 DEF Go

LEMMA ServeMoves ==
    ASSUME InquiryTypes, CodeInv, NEW r \in Reqs, Serve(r)
    PROVE  \E pc \in Pcs, code \in Codes : Moves(r, pc, code)
<1> DEFINE p == call[r].pc
<1>1. ASSUME NEW pc \in Pcs, NEW code \in Codes, Go(r, pc, code),
             p \notin {"done", "dead"},
             \/ Flows(p, pc) /\ code = IF pc = "audit" THEN "13" ELSE "none"
             \/ /\ pc = "done"
                /\ code = "00" => p = "bills"
                /\ code = "23" => p = "incr"
      PROVE  Moves(r, pc, code)
  BY <1>1, GoMoves DEF Moves
<1> USE DEF Pcs, Codes
<1>2. CASE Arrive(r)
  BY <1>1, <1>2 DEF Arrive, Flows
<1>3. CASE Incr(r)
  BY <1>1, <1>3 DEF Incr, Flows
<1>4. CASE Expire(r)
  <2>1. Allowed(1)
    BY WindowAssumption DEF Allowed
  <2> QED BY <1>1, <1>4, <2>1 DEF Expire, Flows
<1>5. CASE CutOff(r)
  <2>1. PassCutOff(r) \/ Go(r, "done", "61")
    BY <1>5 DEF CutOff, OracleCutOff, Judge
  <2> QED BY <1>1, <1>5, <2>1 DEF CutOff, PassCutOff, Flows
<1>13. CASE ReadCutOff(r)
  BY <1>1, <1>13 DEF ReadCutOff, Flows
<1>6. CASE CheckRef(r)
  BY <1>1, <1>6 DEF CheckRef, Flows
<1>7. CASE InsertRow(r)
  <2>1. CASE p = "audit"
    <3>1. call[r].code = "13"
      BY <2>1 DEF CodeInv
    <3>2. Go(r, "done", "13") \/ Go(r, "done", "62")
      BY <1>7, <2>1, <3>1 DEF InsertRow
    <3> QED BY <1>1, <2>1, <3>2
  <2>2. CASE p = "insert"
    <3>1. call[r].code = "none"
      BY <2>2 DEF CodeInv
    <3>2. Go(r, "price", "none") \/ Go(r, "done", "62")
      BY <1>7, <2>2, <3>1 DEF InsertRow
    <3> QED BY <1>1, <2>2, <3>2 DEF Flows
  <2> QED BY <1>7, <2>1, <2>2 DEF InsertRow
<1>8. CASE ReadCache(r)
  BY <1>1, <1>8 DEF ReadCache, Priced, Flows
<1>9. CASE QueryOracle(r)
  BY <1>1, <1>9 DEF QueryOracle, Priced, Flows
<1>10. CASE CheckPln(r)
  BY <1>1, <1>10 DEF CheckPln, Flows
<1>11. CASE StoreSuccess(r)
  BY <1>1, <1>11 DEF StoreSuccess, Flows
<1>12. CASE InsertBills(r)
  BY <1>1, <1>12 DEF InsertBills
<1> QED BY <1>2, <1>3, <1>4, <1>5, <1>6, <1>7, <1>8, <1>9, <1>10, <1>11, <1>12, <1>13
        DEF Serve

LEMMA CodeStep ==
    ASSUME InquiryTypes, CodeInv, NEW r \in Reqs, NEW pc \in Pcs, NEW code \in Codes,
           Moves(r, pc, code)
    PROVE  CodeInv'
BY DEF Moves, Flows, CodeInv

-----------------------------------------------------------------------------
(* The rows of an inquiry *)

LEMMA RowKept ==
    ASSUME RowInv, NEW r \in Reqs, NEW pc \in Pcs, NEW code \in Codes,
           Moves(r, pc, code),
           rows \subseteq rows', payable \subseteq payable', missed \subseteq missed',
           \A s \in Reqs \ {r} : earlier'[s] = earlier[s],
           earlier'[r] = earlier[r] \/ (earlier'[r] = Over /\ ~Passed(r)'),
           Passed(r)' => \/ Passed(r)
                         \/ r \in missed'
                         \/ \A q \in rows : refOf[q] # refOf[r],
           Passed(r)' /\ pc # "insert" => r \in rows' \cup missed',
           Stored(r)' => r \in payable' \cup missed'
    PROVE  RowInv'
<1>1. \A t \in Over : call'[t] = call[t] /\ t \in Reqs
  BY DEF Moves, Over
<1>2. Over \subseteq Over'
  BY <1>1 DEF Over
<1>3. \A t \in Reqs \ {r} : /\ Passed(t)' <=> Passed(t)
                            /\ Stored(t)' <=> Stored(t)
                            /\ call'[t].pc = call[t].pc
  BY DEF Moves, Passed, Stored, Answer
<1>4. ASSUME NEW t \in Reqs
      PROVE  /\ Passed(t)' /\ call'[t].pc # "insert" => t \in rows' \cup missed'
             /\ Stored(t)' => t \in payable' \cup missed'
  <2>1. CASE t = r
    BY <2>1 DEF Moves
  <2>2. CASE t # r
    BY <1>3, <2>2 DEF RowInv
  <2> QED BY <2>1, <2>2
<1>5. \A s \in Reqs : earlier'[s] \subseteq Over'
  BY <1>2 DEF RowInv
<1>6. ASSUME NEW s \in Reqs, NEW t \in earlier'[s],
             Answer(t)' = "00", refOf[t] = refOf[s], Passed(s)'
      PROVE  {t, s} \cap missed' # {}
  <2>1. earlier'[s] = earlier[s]
    BY <1>6
  <2>2. t \in Over /\ t \in Reqs
    BY <1>1, <2>1 DEF RowInv
  <2>3. Answer(t) = "00" /\ Passed(t) /\ call[t].pc # "insert"
    BY <1>1, <1>6, <2>2 DEF Answer, Passed
  <2>4. t \in rows \cup missed
    BY <2>2, <2>3 DEF RowInv
  <2>5. CASE Passed(s)
    BY <1>6, <2>1, <2>3, <2>5 DEF RowInv
  <2>6. CASE ~Passed(s)
    <3>1. s = r
      BY <1>3, <1>6, <2>6
    <3> QED BY <1>6, <2>4, <2>6, <3>1
  <2> QED BY <2>5, <2>6
<1> QED BY <1>4, <1>5, <1>6 DEF RowInv

(* What the actions of an inquiry leave alone of the tables.               *)
TablesKept == UNCHANGED <<rows, payable, missed>>

LEMMA RowServe ==
    ASSUME InquiryTypes, CodeInv, RowInv, NEW r \in Reqs, Serve(r)
    PROVE  RowInv'
<1>1. PICK pc \in Pcs, code \in Codes : Moves(r, pc, code)
  BY ServeMoves
<1>2. /\ Passed(r)' <=> pc \in {"insert", "price", "oracle", "pln", "success", "bills"}
                          \/ (pc = "done" /\ code = "00")
      /\ Stored(r)' <=> pc = "bills" \/ (pc = "done" /\ code = "00")
  BY <1>1 DEF Moves, Passed, Stored, Answer
<1>3. /\ Passed(r) => r \in rows \cup missed \/ call[r].pc = "insert"
      /\ Stored(r) => r \in payable \cup missed
  BY DEF RowInv
<1>4. CASE TablesKept /\ call[r].pc \notin {"ref", "insert", "success"}
                      /\ UNCHANGED earlier
  <2>1. Passed(r)' => Passed(r) /\ call[r].pc # "insert"
    BY <1>1, <1>2, <1>4 DEF Moves, Flows, Passed
  <2>2. Stored(r)' => Stored(r)
    BY <1>1, <1>2, <1>4 DEF Moves, Flows, Stored
  <2>3. /\ rows' = rows /\ payable' = payable /\ missed' = missed
        /\ earlier' = earlier
        /\ Passed(r)' => Passed(r)
        /\ Passed(r)' => r \in rows \cup missed
        /\ Stored(r)' => r \in payable \cup missed
    BY <1>3, <1>4, <2>1, <2>2 DEF TablesKept
  <2> QED BY <1>1, <2>3, RowKept
<1>5. CASE Arrive(r)
  <2>1. ~Passed(r)' /\ ~Stored(r)'
    BY <1>1, <1>2, <1>5 DEF Arrive, Moves, Flows
  <2>2. TablesKept /\ earlier' = [earlier EXCEPT ![r] = Over]
    BY <1>5 DEF Arrive, TablesKept, tables
  <2>3. /\ \A s \in Reqs \ {r} : earlier'[s] = earlier[s]
        /\ earlier'[r] = Over
        /\ rows' = rows /\ payable' = payable /\ missed' = missed
    BY <2>2 DEF InquiryTypes, TablesKept
  <2> QED BY <1>1, <2>1, <2>3, RowKept
<1>6. CASE CheckRef(r)
  <2>1. /\ call[r].pc = "ref" /\ UNCHANGED <<rows, payable, earlier>>
        /\ missed \subseteq missed'
        /\ pc = "insert" => ~RefUsed(r) \/ r \in missed'
    <3>1. call[r].pc = "ref" /\ UNCHANGED <<rows, payable, earlier>>
      BY <1>6 DEF CheckRef, tables
    <3>2. /\ missed \subseteq missed'
          /\ call'[r].pc = "insert" => ~RefUsed(r) \/ r \in missed'
      BY <1>6, GoMoves DEF CheckRef, NoFault, Missed, Pcs, Codes
    <3> QED BY <1>1, <3>1, <3>2 DEF Moves
  <2>2. pc \in {"audit", "insert"} \/ (pc = "done" /\ code # "00")
    BY <1>1, <2>1 DEF Moves, Flows
  <2>3. /\ rows' = rows /\ payable' = payable /\ earlier' = earlier
        /\ Passed(r)' => r \in missed' \/ \A q \in rows : refOf[q] # refOf[r]
        /\ Passed(r)' => pc = "insert"
        /\ ~Stored(r)'
    BY <1>2, <2>1, <2>2 DEF RefUsed
  <2> QED BY <1>1, <2>1, <2>3, RowKept
<1>7. CASE InsertRow(r)
  <2>1. UNCHANGED <<payable, earlier>> /\ call[r].pc \in {"audit", "insert"}
    BY <1>7 DEF InsertRow
  <2>2. rows \subseteq rows' /\ missed \subseteq missed'
    BY <1>7 DEF InsertRow, NoFault, Missed
  <2>3. r \in rows' \cup missed' \/ call'[r].pc = "done"
    <3>1. CASE rows' = rows \cup {r} \/ Missed(r)
      BY <3>1 DEF Missed
    <3>2. CASE Go(r, "done", "62")
      BY <3>2, GoMoves DEF Pcs, Codes
    <3> QED BY <1>7, <3>1, <3>2 DEF InsertRow
  <2>4. ~Stored(r)' /\ (Passed(r)' => pc = "price" /\ Passed(r))
    BY <1>1, <1>2, <2>1 DEF Moves, Flows, Passed
  <2>5. /\ payable' = payable /\ earlier' = earlier
        /\ Passed(r)' => Passed(r)
        /\ Passed(r)' => r \in rows' \cup missed'
    BY <1>1, <2>1, <2>3, <2>4 DEF Moves
  <2> QED BY <1>1, <2>2, <2>4, <2>5, RowKept
<1>8. CASE StoreSuccess(r)
  <2>1. UNCHANGED <<rows, earlier>> /\ call[r].pc = "success"
    BY <1>8 DEF StoreSuccess
  <2>2. payable \subseteq payable' /\ missed \subseteq missed'
    BY <1>8 DEF StoreSuccess, NoFault, Missed
  <2>3. r \in payable' \cup missed' \/ call'[r].pc = "done"
    <3>1. CASE payable' = payable \cup {r} \/ Missed(r)
      BY <3>1 DEF Missed
    <3>2. CASE Go(r, "done", "62")
      BY <3>2, GoMoves DEF Pcs, Codes
    <3> QED BY <1>8, <3>1, <3>2 DEF StoreSuccess
  <2>4. Passed(r) /\ r \in rows \cup missed /\ (Stored(r)' => pc = "bills")
    BY <1>1, <1>2, <1>3, <2>1 DEF Moves, Flows, Passed
  <2>5. /\ rows' = rows /\ earlier' = earlier /\ Passed(r)
        /\ r \in rows \cup missed'
        /\ Stored(r)' => r \in payable' \cup missed'
    BY <1>1, <2>1, <2>2, <2>3, <2>4 DEF Moves
  <2> QED BY <1>1, <2>2, <2>5, RowKept
<1>9. CASE \/ Incr(r) \/ Expire(r) \/ ReadCutOff(r) \/ CutOff(r) \/ ReadCache(r) \/ QueryOracle(r)
           \/ CheckPln(r) \/ InsertBills(r)
  <2>1. call[r].pc \notin {"ref", "insert", "success"}
    BY <1>9 DEF Incr, Expire, ReadCutOff, CutOff, ReadCache, QueryOracle, CheckPln,
                InsertBills
  <2>2. TablesKept /\ UNCHANGED earlier
    BY <1>9 DEF Incr, Expire, ReadCutOff, CutOff, ReadCache, QueryOracle, CheckPln,
                InsertBills, tables, history, TablesKept
  <2> QED BY <1>4, <2>1, <2>2
<1> QED BY <1>5, <1>6, <1>7, <1>8, <1>9 DEF Serve

(* Steps of the caches, of Oracle and of the clock.                        *)
Background == \/ SaveCutOff \/ Save \/ PaymentFills \/ LoadProducts \/ LoadCutOff
              \/ ProductChanges \/ CacheExpires \/ Tick

LEMMA RowBackground ==
    ASSUME InquiryTypes, CodeInv, RowInv, Background
    PROVE  CodeInv' /\ RowInv'
<1>1. UNCHANGED <<call, rows, payable, missed, earlier>>
  BY DEF Background, SaveCutOff, Save, PaymentFills, LoadProducts, LoadCutOff,
         ProductChanges, CacheExpires, Tick, tables, history
<1> QED BY <1>1 DEF CodeInv, RowInv, Passed, Stored, Answer, Over

LEMMA DieMoves ==
    ASSUME InquiryTypes, InquiriesDie
    PROVE  /\ call' \in [Reqs -> [pc : Pcs, code : Codes]]
           /\ \A r \in Reqs : \/ call'[r] = call[r] /\ call[r].pc \in {"idle", "done", "dead"}
                              \/ /\ call'[r].pc = "dead" /\ call'[r].code = "none"
                                 /\ call[r].pc \notin {"idle", "done", "dead"}
<1>1. [pc |-> "dead", code |-> "none"] \in [pc : Pcs, code : Codes]
  BY DEF Pcs, Codes
<1> QED BY <1>1 DEF InquiriesDie, InquiryTypes, Serving, Over

LEMMA RowDie ==
    ASSUME InquiryTypes, CodeInv, RowInv, InquiriesDie
    PROVE  CodeInv' /\ RowInv'
<1>1. UNCHANGED <<rows, payable, missed, earlier>>
  BY DEF InquiriesDie, tables
<1>2. CodeInv'
  BY DieMoves DEF CodeInv
<1>3. \A r \in Reqs : /\ Passed(r)' => Passed(r) /\ call[r].pc # "insert"
                      /\ Stored(r)' => Stored(r)
                      /\ Answer(r)' = Answer(r)
                      /\ r \in Over => r \in Over'
  BY DieMoves DEF Passed, Stored, Answer, Over
<1>4. \A s \in Reqs : earlier[s] \subseteq Reqs
  BY DEF InquiryTypes
<1>5. /\ \A r \in Reqs : /\ Passed(r)' /\ call'[r].pc # "insert" => r \in rows \cup missed
                         /\ Stored(r)' => r \in payable \cup missed
      /\ \A s \in Reqs : earlier[s] \subseteq Over'
      /\ \A s \in Reqs : \A r \in earlier[s] :
          Answer(r)' = "00" /\ refOf[r] = refOf[s] /\ Passed(s)'
             => {r, s} \cap missed # {}
  BY <1>3, <1>4 DEF RowInv
<1>6. RowInv'
  BY <1>1, <1>5 DEF RowInv
<1> QED BY <1>2, <1>6

-----------------------------------------------------------------------------
(* Types of the inquiry endpoint *)

LEMMA ServeTypes ==
    ASSUME InquiryTypes, CodeInv, NEW r \in Reqs, Serve(r)
    PROVE  InquiryTypes' /\ CodeInv'
<1>1. PICK pc \in Pcs, code \in Codes : Moves(r, pc, code)
  BY ServeMoves
<1>2. CodeInv'
  BY <1>1, CodeStep
<1>3. call' \in [Reqs -> [pc : Pcs, code : Codes]]
  BY <1>1 DEF Moves
<1>4. faults' \in Nat /\ version' = version /\ now' = now
      /\ cached' = cached
  <2>1. UNCHANGED <<version, cached, now>>
    BY DEF Serve, Arrive, Incr, Expire, ReadCutOff, CutOff, OracleCutOff, CheckRef,
           InsertRow, ReadCache, QueryOracle, CheckPln, StoreSuccess, InsertBills, redis
  <2>2. faults' = faults \/ faults' = faults + 1
    BY DEF Serve, Arrive, Incr, Expire, ReadCutOff, CutOff, OracleCutOff, CheckRef,
           InsertRow, ReadCache, QueryOracle, CheckPln, StoreSuccess, InsertBills,
           NoFault, Missed, Fault
  <2> QED BY <2>1, <2>2 DEF InquiryTypes
<1>5. {rows', payable', missed'} \subseteq SUBSET Reqs
  <2>1. rows' \in {rows, rows \cup {r}}
    BY DEF Serve, Arrive, Incr, Expire, ReadCutOff, CutOff, OracleCutOff, CheckRef,
           InsertRow, ReadCache, QueryOracle, CheckPln, StoreSuccess, InsertBills,
           tables
  <2>2. payable' \in {payable, payable \cup {r}}
    BY DEF Serve, Arrive, Incr, Expire, ReadCutOff, CutOff, OracleCutOff, CheckRef,
           InsertRow, ReadCache, QueryOracle, CheckPln, StoreSuccess, InsertBills,
           tables
  <2>3. missed' \in {missed, missed \cup {r}}
    BY DEF Serve, Arrive, Incr, Expire, ReadCutOff, CutOff, OracleCutOff, CheckRef,
           InsertRow, ReadCache, QueryOracle, CheckPln, StoreSuccess, InsertBills,
           history, NoFault, Missed
  <2> QED BY <2>1, <2>2, <2>3 DEF InquiryTypes
<1>6. saving' \in [Reqs \cup Others -> Nat \cup {None}]
  <2>1. CASE saving' = saving
    BY <2>1 DEF InquiryTypes
  <2>2. CASE saving' # saving
    <3>1. \E v \in Nat : saving' = [saving EXCEPT ![r] = v]
      <4>1. QueryOracle(r)
        BY <2>2 DEF Serve, Arrive, Incr, Expire, ReadCutOff, CutOff, CheckRef, InsertRow,
                    ReadCache, CheckPln, StoreSuccess, InsertBills, fills
      <4> QED BY <2>2, <4>1 DEF QueryOracle, ToCache, InquiryTypes
    <3> QED BY <3>1 DEF InquiryTypes
  <2> QED BY <2>1, <2>2
<1>8. counter' \in [count : Nat, expires : Nat \cup {None}]
  <2>1. CASE counter' = counter
    BY <2>1 DEF InquiryTypes
  <2>2. CASE counter' = [counter EXCEPT !.count = counter.count + 1]
    BY <2>2 DEF InquiryTypes
  <2>3. CASE counter' = [counter EXCEPT !.expires = now + Window]
    BY <2>3, WindowAssumption DEF InquiryTypes
  <2>4. \/ counter' = counter \/ Incr(r) \/ Expire(r)
    BY DEF Serve, Arrive, ReadCutOff, CutOff, CheckRef, InsertRow,
           ReadCache, QueryOracle, CheckPln, StoreSuccess, InsertBills, redis
  <2> QED BY <2>1, <2>2, <2>3, <2>4 DEF Incr, Expire
<1>9. seen' \in [Reqs -> Nat]
  <2>1. \/ seen' = seen
        \/ \E v \in Nat : seen' = [seen EXCEPT ![r] = v]
    BY NoneAssumption DEF Serve, Arrive, Incr, Expire, ReadCutOff, CutOff, OracleCutOff,
                          CheckRef, InsertRow, ReadCache, QueryOracle, Priced, CheckPln,
                          StoreSuccess, InsertBills, history, InquiryTypes
  <2> QED BY <2>1 DEF InquiryTypes
<1>10. earlier' \in [Reqs -> SUBSET Reqs]
  <2>1. earlier' = earlier \/ earlier' = [earlier EXCEPT ![r] = Over]
    BY DEF Serve, Arrive, Incr, Expire, ReadCutOff, CutOff, OracleCutOff, CheckRef,
           InsertRow, ReadCache, QueryOracle, CheckPln, StoreSuccess, InsertBills,
           history
  <2> QED BY <2>1 DEF InquiryTypes, Over
<1>11. counted' \in [Reqs -> Nat \cup {None}]
  <2>1. counted' = counted \/ counted' = [counted EXCEPT ![r] = now]
    BY DEF Serve, Arrive, Incr, Expire, ReadCutOff, CutOff, OracleCutOff, CheckRef,
           InsertRow, ReadCache, QueryOracle, CheckPln, StoreSuccess, InsertBills,
           history
  <2> QED BY <2>1 DEF InquiryTypes
<1>7. miscounted' \in BOOLEAN
  <2>1. CASE Incr(r)
    BY <2>1 DEF Incr, InquiryTypes
  <2>2. CASE Expire(r)
    BY <2>2 DEF Expire, InquiryTypes
  <2>3. CASE ~Incr(r) /\ ~Expire(r)
    <3>1. miscounted' = miscounted
      BY <2>3 DEF Serve, Arrive, ReadCutOff, CutOff, CheckRef, InsertRow, ReadCache,
                  QueryOracle, CheckPln, StoreSuccess, InsertBills, history
    <3> QED BY <3>1 DEF InquiryTypes
  <2> QED BY <2>1, <2>2, <2>3
<1>12. crossed' \in BOOLEAN
  <2>1. crossed' = crossed \/ crossed' = TRUE
    BY DEF Serve, Arrive, Incr, Expire, ReadCutOff, CutOff, CheckRef, InsertRow,
           ReadCache, QueryOracle, CheckPln, StoreSuccess, InsertBills, history
  <2> QED BY <2>1 DEF InquiryTypes
<1> QED BY <1>2, <1>3, <1>4, <1>5, <1>6, <1>7, <1>8, <1>9, <1>10, <1>11, <1>12
        DEF InquiryTypes

LEMMA BackgroundTypes ==
    ASSUME InquiryTypes, Background
    PROVE  InquiryTypes'
<1>1. UNCHANGED <<call, rows, payable, missed, seen, earlier, counted>>
  BY DEF Background, SaveCutOff, Save, PaymentFills, LoadProducts, LoadCutOff,
         ProductChanges, CacheExpires, Tick, tables, history
<1>2. version' \in Nat /\ now' \in Nat /\ faults' \in Nat
  BY DEF Background, SaveCutOff, Save, PaymentFills, LoadProducts, LoadCutOff,
         ProductChanges, CacheExpires, Tick, Fault, InquiryTypes
<1>3. cached' \in Nat \cup {None}
  BY DEF Background, SaveCutOff, Save, PaymentFills, LoadProducts, LoadCutOff,
         ProductChanges, CacheExpires, Tick, redis, InquiryTypes
<1>4. saving' \in [Reqs \cup Others -> Nat \cup {None}]
  <2>1. \/ saving' = saving
        \/ \E x \in Reqs \cup Others, v \in Nat \cup {None} :
              saving' = [saving EXCEPT ![x] = v]
    BY DEF Others, Background, SaveCutOff, Save, PaymentFills, LoadProducts, LoadCutOff,
           ProductChanges, CacheExpires, Tick, fills, InquiryTypes
  <2> QED BY <2>1 DEF InquiryTypes
<1>5. counter' \in [count : Nat, expires : Nat \cup {None}]
  <2>1. counter' = counter \/ counter' = NoCounter
    BY DEF Background, SaveCutOff, Save, PaymentFills, LoadProducts, LoadCutOff,
           ProductChanges, CacheExpires, Tick, redis
  <2> QED BY <2>1 DEF InquiryTypes, NoCounter
<1>6. miscounted' \in BOOLEAN /\ crossed' \in BOOLEAN
  <2>1. miscounted' = miscounted \/ Tick
    BY DEF Background, SaveCutOff, Save, PaymentFills, LoadProducts, LoadCutOff,
           ProductChanges, CacheExpires, history
  <2>2. crossed' = crossed \/ ProductChanges
    BY DEF Background, SaveCutOff, Save, PaymentFills, LoadProducts, LoadCutOff, Tick,
           CacheExpires, history
  <2> QED BY <2>1, <2>2 DEF Tick, ProductChanges, InquiryTypes
<1> QED BY <1>1, <1>2, <1>3, <1>4, <1>5, <1>6 DEF InquiryTypes

LEMMA DieTypes ==
    ASSUME InquiryTypes, InquiriesDie
    PROVE  InquiryTypes'
<1>1. call' \in [Reqs -> [pc : Pcs, code : Codes]]
  BY DieMoves
<1>2. saving' \in [Reqs \cup Others -> Nat \cup {None}]
  BY DEF InquiriesDie, InquiryTypes
<1>3. miscounted' \in BOOLEAN
  BY DEF InquiriesDie
<1> QED BY <1>1, <1>2, <1>3 DEF InquiriesDie, InquiryTypes, tables, redis

-----------------------------------------------------------------------------
(* The prices the partner sees *)

LEMMA PriceKept ==
    ASSUME InquiryTypes, PriceInv, UNCHANGED <<version, cached, seen, earlier, crossed>>,
           DOMAIN saving' = DOMAIN saving,
           \A x \in DOMAIN saving : saving'[x] = saving[x] \/ saving'[x] = None,
           \A r \in Reqs : /\ call'[r].pc = "oracle" => call[r].pc = "oracle"
                           /\ call'[r].pc = "idle" => call[r].pc = "idle"
    PROVE  PriceInv'
BY DEF PriceInv

(* A request that is being served was over for none of the others.         *)
LEMMA ServedIsNotEarlier ==
    ASSUME InquiryTypes, RowInv, NEW r \in Reqs, call[r].pc \notin {"done", "dead"}
    PROVE  \A s \in Reqs : r \notin earlier[s]
BY DEF RowInv, Over

(* A price that was read is as new as all that was seen, unless Oracle     *)
(* changed while it was on its way.                                        *)
LEMMA PricedSees ==
    ASSUME InquiryTypes, RowInv, PriceInv, NEW r \in Reqs,
           NEW v \in Nat, seen' = [seen EXCEPT ![r] = v],
           NEW pc \in Pcs, NEW code \in Codes, Moves(r, pc, code), pc # "oracle",
           UNCHANGED <<version, cached, earlier, crossed>>,
           DOMAIN saving' = DOMAIN saving,
           ~crossed =>
             /\ \A x \in DOMAIN saving : saving'[x] \in {saving[x], 0, version}
             /\ v <= version
             /\ v # 0 => \A t \in Reqs : seen[t] <= v
             /\ cached \notin {None, 0} => v <= cached
    PROVE  PriceInv'
<1>1. /\ seen'[r] = v
      /\ \A t \in Reqs \ {r} : seen'[t] = seen[t]
      /\ \A s \in Reqs : r \notin earlier[s]
      /\ \A s \in Reqs : earlier[s] \subseteq Reqs
      /\ version \in Nat
      /\ cached \in Nat \cup {None}
      /\ seen \in [Reqs -> Nat]
  <2>1. call[r].pc \notin {"done", "dead"}
    BY DEF Moves
  <2> QED BY <2>1, ServedIsNotEarlier DEF InquiryTypes
<1>2. \A t \in Reqs : /\ call'[t].pc = "idle" => call[t].pc = "idle" /\ t # r
                      /\ call'[t].pc = "oracle" => call[t].pc = "oracle"
  BY DEF Moves, Flows
<1>3. \A t \in Reqs : call'[t].pc = "idle" => seen'[t] = 0
  BY <1>1, <1>2 DEF PriceInv
<1>4. ASSUME ~crossed
      PROVE  /\ \A x \in DOMAIN saving : saving'[x] \in {None, 0, version}
             /\ \A t \in Reqs : call'[t].pc = "oracle" => cached \in {None, 0, version}
             /\ \A t \in Reqs : seen'[t] <= version
             /\ cached \notin {None, 0} => \A t \in Reqs : seen'[t] <= cached
             /\ cached # None => cached <= version
  BY <1>1, <1>2, <1>4 DEF PriceInv
<1>5. ASSUME ~crossed, NEW s \in Reqs, NEW t \in earlier[s], seen'[s] # 0
      PROVE  seen'[t] <= seen'[s]
  <2>1. t \in Reqs /\ t # r /\ seen'[t] = seen[t]
    BY <1>1
  <2>2. CASE s = r
    BY <1>1, <1>5, <2>1, <2>2
  <2>3. CASE s # r
    BY <1>1, <1>5, <2>1, <2>3 DEF PriceInv
  <2> QED BY <2>2, <2>3
<1> QED BY <1>3, <1>4, <1>5 DEF PriceInv

LEMMA PriceServe ==
    ASSUME InquiryTypes, CodeInv, RowInv, PriceInv, NEW r \in Reqs, Serve(r)
    PROVE  PriceInv'
<1>1. PICK pc \in Pcs, code \in Codes : Moves(r, pc, code)
  BY ServeMoves
<1>2. \A t \in Reqs : /\ call'[t].pc = "idle" => call[t].pc = "idle" /\ t # r
                      /\ t # r => call'[t].pc = call[t].pc
  BY <1>1 DEF Moves, Flows
<1>3. CASE Arrive(r)
  <2>1. /\ UNCHANGED <<version, cached, saving, seen, crossed>>
        /\ call[r].pc = "idle" /\ earlier' = [earlier EXCEPT ![r] = Over]
    BY <1>3 DEF Arrive, redis, fills
  <2>2. /\ seen[r] = 0
        /\ \A s \in Reqs \ {r} : earlier'[s] = earlier[s]
    BY <2>1 DEF PriceInv, InquiryTypes
  <2>3. pc # "oracle"
    BY <1>1, <2>1 DEF Moves, Flows
  <2>4. \A t \in Reqs : call'[t].pc = "oracle" => call[t].pc = "oracle"
    BY <1>1, <1>2, <2>3 DEF Moves
  <2> QED BY <1>2, <2>1, <2>2, <2>4 DEF PriceInv
<1>4. CASE ReadCache(r)
  <2>1. UNCHANGED <<version, cached, saving, earlier>> /\ call[r].pc = "price"
    BY <1>4 DEF ReadCache, redis, fills
  <2>2. CASE cached # None /\ Priced(r, cached) /\ UNCHANGED crossed
    <3>1. pc # "oracle"
      <4>1. call'[r].pc # "oracle"
        BY <2>2, GoMoves DEF Priced, Pcs, Codes
      <4> QED BY <1>1, <4>1 DEF Moves
    <3>2. cached \in Nat /\ seen' = [seen EXCEPT ![r] = cached]
      BY <2>2 DEF Priced, InquiryTypes
    <3>3. ~crossed => /\ cached <= version
                      /\ cached # 0 => \A t \in Reqs : seen[t] <= cached
      BY <2>2 DEF PriceInv
    <3>4. /\ DOMAIN saving' = DOMAIN saving
          /\ \A x \in DOMAIN saving : saving'[x] \in {saving[x], 0, version}
          /\ cached <= cached
      BY <2>1, <3>2
    <3>5. UNCHANGED <<version, cached, earlier, crossed>>
      BY <2>1, <2>2
    <3> QED BY <1>1, <3>1, <3>2, <3>3, <3>4, <3>5, PricedSees
  <2>3. CASE cached = None /\ UNCHANGED <<seen, crossed>>
    BY <1>2, <2>1, <2>3 DEF PriceInv
  <2>4. CASE crossed' = TRUE /\ UNCHANGED seen
    BY <1>2, <2>1, <2>4 DEF PriceInv
  <2> QED BY <1>4, <2>2, <2>3, <2>4 DEF ReadCache
<1>5. CASE QueryOracle(r)
  <2>1. /\ UNCHANGED <<version, cached, earlier, crossed>> /\ call[r].pc = "oracle"
        /\ version \in Nat
    BY <1>5 DEF QueryOracle, redis, InquiryTypes
  <2>2. pc # "oracle"
    BY <1>1, <2>1 DEF Moves, Flows
  <2>3. \A t \in Reqs : call'[t].pc = "oracle" => call[t].pc = "oracle"
    BY <1>1, <1>2, <2>2 DEF Moves
  <2>4. CASE saving' = [saving EXCEPT ![r] = version] /\ Priced(r, version)
    <3>1. seen' = [seen EXCEPT ![r] = version]
      BY <2>4 DEF Priced
    <3>2. /\ DOMAIN saving' = DOMAIN saving
          /\ \A x \in DOMAIN saving : saving'[x] \in {saving[x], 0, version}
      BY <2>4 DEF InquiryTypes
    <3>3. ~crossed => /\ \A t \in Reqs : seen[t] <= version
                      /\ cached \notin {None, 0} => version <= cached
      BY <2>1 DEF PriceInv
    <3>4. version <= version
      BY <2>1
    <3> QED BY <1>1, <2>1, <2>2, <3>1, <3>2, <3>3, <3>4, PricedSees
  <2>5. CASE saving' = [saving EXCEPT ![r] = 0] /\ UNCHANGED seen
    <3>1. /\ DOMAIN saving' = DOMAIN saving
          /\ \A x \in DOMAIN saving : saving'[x] \in {saving[x], 0}
      BY <2>5 DEF InquiryTypes
    <3> QED BY <1>2, <2>1, <2>3, <2>5, <3>1 DEF PriceInv
  <2>6. CASE UNCHANGED <<saving, seen>>
    BY <1>2, <2>1, <2>3, <2>6, PriceKept
  <2> QED BY <1>5, <2>4, <2>5, <2>6 DEF QueryOracle, ToCache
<1>6. CASE \/ Incr(r) \/ Expire(r) \/ ReadCutOff(r) \/ CutOff(r) \/ CheckRef(r) \/ InsertRow(r)
           \/ CheckPln(r) \/ StoreSuccess(r) \/ InsertBills(r)
  <2>1. UNCHANGED <<version, cached, saving, seen, earlier, crossed>>
    BY <1>6 DEF Incr, Expire, ReadCutOff, CutOff, CheckRef, InsertRow, CheckPln,
                StoreSuccess, InsertBills, redis, fills, history
  <2>2. call[r].pc # "price"
    BY <1>6 DEF Incr, Expire, ReadCutOff, CutOff, CheckRef, InsertRow, CheckPln,
                StoreSuccess, InsertBills
  <2>3. \A t \in Reqs : call'[t].pc = "oracle" => call[t].pc = "oracle"
    BY <1>1, <1>2, <2>2 DEF Moves, Flows
  <2> QED BY <1>2, <2>1, <2>3, PriceKept
<1> QED BY <1>3, <1>4, <1>5, <1>6 DEF Serve

LEMMA PriceBackground ==
    ASSUME InquiryTypes, PriceInv, Background
    PROVE  PriceInv'
<1>1. UNCHANGED <<call, seen, earlier>>
  BY DEF Background, SaveCutOff, Save, PaymentFills, LoadProducts, LoadCutOff,
         ProductChanges, CacheExpires, Tick, history
<1>2. CASE UNCHANGED <<saving, cached, version, crossed>>
  BY <1>1, <1>2, PriceKept
<1>3. CASE Save
  <2>1. UNCHANGED <<version, crossed>>
    BY <1>3 DEF Save, history
  <2>2. PICK x \in DOMAIN saving : /\ saving[x] # None
                                   /\ saving' \in {saving, [saving EXCEPT ![x] = None]}
                                   /\ cached' = saving[x] \/ cached' = cached
    BY <1>3 DEF Save
  <2>3. /\ DOMAIN saving' = DOMAIN saving
        /\ \A y \in DOMAIN saving : saving'[y] = saving[y] \/ saving'[y] = None
    BY <2>2
  <2>4. CASE cached' = cached
    BY <1>1, <2>1, <2>3, <2>4, PriceKept
  <2>5. CASE cached' = saving[x]
    <3>1. ~crossed => cached' \in {0, version}
      BY <2>2, <2>5 DEF PriceInv
    <3> QED BY <1>1, <2>1, <2>3, <3>1 DEF PriceInv, InquiryTypes
  <2> QED BY <2>2, <2>4, <2>5
<1>4. CASE LoadProducts \/ PaymentFills
  <2>1. UNCHANGED <<version, cached, crossed>>
    BY <1>4 DEF LoadProducts, PaymentFills, redis, history
  <2>2. saving' = saving \/ \E x \in Others : saving' = [saving EXCEPT ![x] = version]
    BY <1>4 DEF LoadProducts, PaymentFills, Others
  <2>3. /\ DOMAIN saving' = DOMAIN saving
        /\ \A y \in DOMAIN saving : saving'[y] \in {saving[y], version}
    BY <2>2 DEF InquiryTypes
  <2> QED BY <1>1, <2>1, <2>3 DEF PriceInv
<1>5. CASE ProductChanges
  <2>1. /\ UNCHANGED <<cached, saving>>
        /\ version' = version + 1 /\ version \in Nat
        /\ crossed' = (crossed \/ Filling)
    BY <1>5 DEF ProductChanges, redis, fills, InquiryTypes
  <2>2. CASE Filling
    BY <1>1, <2>1, <2>2 DEF PriceInv
  <2>3. CASE ~Filling
    <3>1. /\ \A x \in DOMAIN saving : saving[x] = None
          /\ \A r \in Reqs : call[r].pc # "oracle"
          /\ crossed' = crossed
      BY <2>1, <2>3 DEF Filling, InquiryTypes
    <3>2. /\ seen \in [Reqs -> Nat]
          /\ cached \in Nat \cup {None}
      BY DEF InquiryTypes
    <3> QED BY <1>1, <2>1, <3>1, <3>2 DEF PriceInv
  <2> QED BY <2>2, <2>3
<1>6. CASE CacheExpires
  <2>1. UNCHANGED <<saving, version, crossed>> /\ cached' \in {cached, None}
    BY <1>6 DEF CacheExpires, fills, history
  <2> QED BY <1>1, <2>1 DEF PriceInv
<1>7. CASE SaveCutOff \/ LoadCutOff \/ Tick
  <2>1. UNCHANGED <<saving, cached, version, crossed>>
    BY <1>7 DEF SaveCutOff, LoadCutOff, Tick, redis, fills, history
  <2> QED BY <1>2, <2>1
<1> QED BY <1>3, <1>4, <1>5, <1>6, <1>7 DEF Background

LEMMA PriceDie ==
    ASSUME InquiryTypes, PriceInv, InquiriesDie
    PROVE  PriceInv'
<1>1. UNCHANGED <<version, cached, seen, earlier, crossed>>
  BY DEF InquiriesDie, redis
<1>2. /\ DOMAIN saving' = DOMAIN saving
      /\ \A x \in DOMAIN saving : saving'[x] = None
  BY DEF InquiriesDie
<1>3. \A r \in Reqs : /\ call'[r].pc = "oracle" => call[r].pc = "oracle"
                      /\ call'[r].pc = "idle" => call[r].pc = "idle"
  BY DieMoves
<1> QED BY <1>1, <1>2, <1>3, PriceKept

-----------------------------------------------------------------------------
(* The rate limit's counter *)

LEMMA LimitKept ==
    ASSUME LimitInv, UNCHANGED <<counted, now, counter, miscounted>>,
           \A t \in Reqs : /\ call'[t].pc \in {"idle", "incr"} => call[t].pc \in {"idle", "incr"}
                           /\ call'[t].pc = "expire" <=> call[t].pc = "expire"
    PROVE  LimitInv'
<1>1. CountedSince(now)' = CountedSince(now)
      /\ \A start \in Nat : CountedSince(start)' = CountedSince(start)
  BY DEF CountedSince
<1>2. Windows => Windows'
  BY <1>1 DEF Windows
<1> QED BY <1>2 DEF LimitInv

LEMMA CountsOne ==
    ASSUME InquiryTypes, LimitInv, NEW r \in Reqs, counted[r] = None,
           counted' = [counted EXCEPT ![r] = now], NEW t \in Nat, t <= now
    PROVE  /\ Cardinality(CountedSince(t)') = Cardinality(CountedSince(t)) + 1
           /\ Cardinality(CountedSince(t)) \in Nat
<1>1. /\ counted'[r] = now /\ now # None /\ now \in Nat
      /\ \A s \in Reqs \ {r} : counted'[s] = counted[s]
  BY NoneAssumption DEF InquiryTypes
<1>2. CountedSince(t)' = CountedSince(t) \cup {r} /\ r \notin CountedSince(t)
  BY <1>1 DEF CountedSince
<1>3. IsFiniteSet(CountedSince(t))
  <2>1. CountedSince(t) \subseteq {s \in Reqs : counted[s] # None}
    BY DEF CountedSince
  <2> QED BY <2>1, FS_Subset DEF LimitInv
<1> QED BY <1>2, <1>3, FS_AddElement, FS_CardinalityType

LEMMA IncrCounts ==
    ASSUME InquiryTypes, LimitInv, NEW r \in Reqs, Incr(r),
           ~miscounted, miscounted' = miscounted,
           counter' = [counter EXCEPT !.count = counter.count + 1],
           counted' = [counted EXCEPT ![r] = now],
           \/ counter.count + 1 = 1 /\ Go(r, "expire", "none")
           \/ counter.count + 1 > 1 /\ Go(r, "cutoff", "none")
           \/ counter.count + 1 > 1 /\ Go(r, "done", "23")
    PROVE  LimitInv'
<1>1. /\ call[r].pc = "incr" /\ now' = now
      /\ now \in Nat /\ counter.count \in Nat /\ None \notin Nat
  BY NoneAssumption DEF Incr, InquiryTypes
<1>2. /\ counted[r] = None /\ counted'[r] = now
      /\ \A s \in Reqs \ {r} : counted'[s] = counted[s]
  BY <1>1 DEF LimitInv, InquiryTypes
<1>3. /\ counter'.count = counter.count + 1 /\ counter'.expires = counter.expires
  BY DEF InquiryTypes
<1>4. /\ \A s \in Reqs \ {r} : call'[s] = call[s]
      /\ call'[r].pc \in {"expire", "cutoff", "done"}
      /\ call'[r].pc = "expire" <=> counter.count = 0
  <2>1. PICK pc \in {"expire", "cutoff", "done"}, code \in {"none", "23"} :
          Go(r, pc, code) /\ (pc = "expire" <=> counter.count = 0)
    BY <1>1
  <2>2. pc \in Pcs /\ code \in Codes
    BY DEF Pcs, Codes
  <2>3. /\ \A s \in Reqs \ {r} : call'[s] = call[s]
        /\ call'[r].pc = pc
    BY <2>1, <2>2, GoMoves
  <2> QED BY <2>1, <2>3
<1>5. \A s \in Reqs : call'[s].pc \in {"idle", "incr"} => counted'[s] = None
  BY <1>2, <1>4 DEF LimitInv
<1>6. \A s \in Reqs : counted'[s] # None => counted'[s] <= now'
  BY <1>1, <1>2 DEF LimitInv
<1>7. IsFiniteSet({s \in Reqs : counted'[s] # None})
  <2>1. {s \in Reqs : counted'[s] # None} = {s \in Reqs : counted[s] # None} \cup {r}
    BY <1>1, <1>2
  <2> QED BY <2>1, FS_AddElement DEF LimitInv
<1>8. \A t \in Nat : t <= now =>
         /\ Cardinality(CountedSince(t)') = Cardinality(CountedSince(t)) + 1
         /\ Cardinality(CountedSince(t)) \in Nat
  BY <1>1, <1>2, CountsOne
<1>9. ASSUME Windows
      PROVE  Windows'
  <2>0. PICK t \in Nat : t = now
    BY <1>1
  <2>00. /\ Cardinality(CountedSince(t)') = Cardinality(CountedSince(t)) + 1
         /\ Cardinality(CountedSince(t)) \in Nat
         /\ CountedSince(now)' = CountedSince(t)'
    <3>1. t <= now
      BY <1>1, <2>0
    <3>2. CountedSince(now)' = CountedSince(t)'
      BY <1>1, <2>0 DEF CountedSince
    <3> QED BY <1>8, <3>1, <3>2
  <2>1. CASE counter = NoCounter /\ \A s \in Reqs : call[s].pc # "expire"
    <3>1. counter'.count = 1 /\ counter'.expires = None
      BY <1>3, <2>1 DEF NoCounter
    <3>2. counter'.count <= Cardinality(CountedSince(now)')
      BY <2>00, <3>1
    <3>3. \A s \in Reqs : call'[s].pc = "expire" <=> s = r
      BY <1>4, <2>1 DEF NoCounter
    <3> QED BY <3>1, <3>2, <3>3 DEF Windows
  <2>2. CASE /\ counter.expires = None /\ counter.count >= 1
             /\ counter.count <= Cardinality(CountedSince(now))
             /\ \E x \in Reqs : \A s \in Reqs : call[s].pc = "expire" <=> s = x
    <3>1. counter'.count >= 1 /\ counter'.expires = None
      BY <1>1, <1>3, <2>2
    <3>2. counter'.count <= Cardinality(CountedSince(now)')
      BY <1>1, <1>3, <2>0, <2>00, <2>2
    <3>3. \E x \in Reqs : \A s \in Reqs : call'[s].pc = "expire" <=> s = x
      BY <1>1, <1>4, <2>2
    <3> QED BY <3>1, <3>2, <3>3 DEF Windows
  <2>3. CASE /\ counter.expires # None /\ counter.count >= 1
             /\ \A s \in Reqs : call[s].pc # "expire"
             /\ \E start \in Nat : /\ counter.expires = start + Window
                                   /\ start <= now /\ now < start + Window
                                   /\ counter.count <= Cardinality(CountedSince(start))
    <3>1. PICK start \in Nat : /\ counter.expires = start + Window
                               /\ start <= now /\ now < start + Window
                               /\ counter.count <= Cardinality(CountedSince(start))
      BY <2>3
    <3>2. counter'.count <= Cardinality(CountedSince(start)')
      BY <1>1, <1>3, <1>8, <3>1
    <3>3. /\ counter'.expires # None /\ counter'.count >= 1
          /\ \A s \in Reqs : call'[s].pc # "expire"
      BY <1>1, <1>3, <1>4, <2>3
    <3> QED BY <1>1, <1>3, <3>1, <3>2, <3>3 DEF Windows
  <2> QED BY <1>9, <2>1, <2>2, <2>3 DEF Windows
<1> QED BY <1>1, <1>5, <1>6, <1>7, <1>9 DEF LimitInv

(* Whatever becomes of the counter, what was counted is in the past. *)
LEMMA CountedKept ==
    ASSUME InquiryTypes, LimitInv, NEW r \in Reqs, now' = now,
           counted' = counted \/ counted' = [counted EXCEPT ![r] = now]
    PROVE  /\ \A s \in Reqs : counted'[s] # None => counted'[s] <= now'
           /\ IsFiniteSet({s \in Reqs : counted'[s] # None})
<1> DEFINE C == {s \in Reqs : counted[s] # None}
<1>1. /\ now \in Nat
      /\ \A s \in Reqs : counted'[s] = counted[s] \/ (s = r /\ counted'[s] = now)
  BY DEF InquiryTypes
<1>2. {s \in Reqs : counted'[s] # None} \subseteq C \cup {r}
  BY <1>1
<1>3. IsFiniteSet(C \cup {r})
  BY FS_AddElement DEF LimitInv
<1>4. IsFiniteSet({s \in Reqs : counted'[s] # None})
  BY <1>2, <1>3, FS_Subset
<1>5. \A s \in Reqs : counted'[s] # None => counted'[s] <= now'
  BY <1>1 DEF LimitInv
<1> QED BY <1>4, <1>5

LEMMA LimitServe ==
    ASSUME InquiryTypes, CodeInv, LimitInv, NEW r \in Reqs, Serve(r)
    PROVE  LimitInv'
<1>1. PICK pc \in Pcs, code \in Codes : Moves(r, pc, code)
  BY ServeMoves
<1>2. \A t \in Reqs \ {r} : call'[t] = call[t]
  BY <1>1 DEF Moves
<1>3. CASE UNCHANGED <<counted, now, counter, miscounted>> /\ call[r].pc # "expire"
           /\ pc # "expire"
  <2>1. pc \in {"idle", "incr"} => call[r].pc \in {"idle", "incr"}
    BY <1>1 DEF Moves, Flows
  <2>2. \A t \in Reqs : /\ call'[t].pc \in {"idle", "incr"} => call[t].pc \in {"idle", "incr"}
                        /\ call'[t].pc = "expire" <=> call[t].pc = "expire"
    BY <1>1, <1>2, <1>3, <2>1 DEF Moves
  <2> QED BY <1>3, <2>2, LimitKept
<1>4. CASE Incr(r)
  <2>1. call[r].pc = "incr" /\ now' = now
    BY <1>4 DEF Incr
  <2>2. CASE UNCHANGED <<counter, counted, miscounted>>
    <3>1. pc # "expire"
      <4>1. counter' # [counter EXCEPT !.count = counter.count + 1]
        BY <2>2 DEF InquiryTypes
      <4>2. \/ Go(r, "cutoff", "none") \/ Go(r, "incr", "none")
        BY <1>4, <4>1 DEF Incr
      <4> QED BY <1>1, <4>2, GoMoves DEF Moves, Pcs, Codes
    <3> QED BY <1>3, <2>1, <2>2, <3>1
  <2>3. CASE miscounted'
    <3>1. counted' = counted \/ counted' = [counted EXCEPT ![r] = now]
      BY <1>4 DEF Incr
    <3> QED BY <2>1, <2>3, <3>1, CountedKept DEF LimitInv
  <2>4. CASE ~miscounted' /\ ~UNCHANGED <<counter, counted, miscounted>>
    <3>1. ~miscounted /\ miscounted' = miscounted
      BY <1>4, <2>4 DEF Incr, InquiryTypes
    <3>2. /\ counter' = [counter EXCEPT !.count = counter.count + 1]
          /\ counted' = [counted EXCEPT ![r] = now]
      BY <1>4, <2>4 DEF Incr
    <3>3. \/ counter.count + 1 = 1 /\ Go(r, "expire", "none")
          \/ counter.count + 1 > 1 /\ Go(r, "cutoff", "none")
          \/ counter.count + 1 > 1 /\ Go(r, "done", "23")
          \/ counter.count + 1 # 1 /\ Go(r, "cutoff", "none")
      BY <1>4, <2>4, <3>1 DEF Incr
    <3>4. \/ counter.count + 1 = 1 /\ Go(r, "expire", "none")
          \/ counter.count + 1 > 1 /\ Go(r, "cutoff", "none")
          \/ counter.count + 1 > 1 /\ Go(r, "done", "23")
      BY <3>3 DEF InquiryTypes
    <3> QED BY <1>4, <3>1, <3>2, <3>4, IncrCounts
  <2> QED BY <2>2, <2>3, <2>4
<1>5. CASE Expire(r)
  <2> DEFINE expiring == IF counter.count = 0 THEN counter
                         ELSE [counter EXCEPT !.expires = now + Window]
  <2>1. /\ call[r].pc = "expire" /\ UNCHANGED <<now, counted>>
        /\ \/ /\ counter' = expiring /\ miscounted' = miscounted
              /\ Go(r, "cutoff", "none") \/ Go(r, "done", "23")
           \/ miscounted' = TRUE
    BY <1>5 DEF Expire
  <2>2. /\ \A s \in Reqs : counted'[s] # None => counted'[s] <= now'
        /\ IsFiniteSet({s \in Reqs : counted'[s] # None})
    BY <2>1, CountedKept
  <2>3. CASE miscounted'
    BY <2>2, <2>3 DEF LimitInv
  <2>4. CASE ~miscounted'
    <3>1. /\ ~miscounted /\ ~miscounted' /\ Windows /\ counter' = expiring
          /\ \A t \in Reqs : call[t].pc \in {"idle", "incr"} => counted[t] = None
      BY <2>1, <2>4 DEF LimitInv
    <3>2. pc \notin {"idle", "incr", "expire"}
      BY <1>1, <2>1, <2>4, GoMoves DEF Moves, Pcs, Codes
    <3>3. \A t \in Reqs : call'[t].pc \in {"idle", "incr"} => counted'[t] = None
      BY <1>1, <1>2, <2>1, <3>1, <3>2 DEF Moves
    <3>4. /\ counter.count >= 1 /\ counter.count <= Cardinality(CountedSince(now))
          /\ \A s \in Reqs : call[s].pc = "expire" <=> s = r
      BY <2>1, <3>1 DEF Windows
    <3>5. PICK start \in Nat : start = now
      BY DEF InquiryTypes
    <3>6. counter' = [counter EXCEPT !.expires = now + Window]
      BY <3>1, <3>4
    <3>7. /\ counter'.count = counter.count
          /\ counter'.expires = start + Window
          /\ counter'.expires # None
          /\ now' < start + Window
      BY <2>1, <3>5, <3>6, WindowAssumption, NoneAssumption DEF InquiryTypes
    <3>8. counter'.count <= Cardinality(CountedSince(start)')
      BY <2>1, <3>4, <3>5, <3>7 DEF CountedSince
    <3>9. \A s \in Reqs : call'[s].pc # "expire"
      BY <1>1, <1>2, <3>2, <3>4 DEF Moves
    <3>10. counter'.count >= 1 /\ start <= now'
      BY <2>1, <3>4, <3>5, <3>7
    <3>11. Windows'
      BY <3>7, <3>8, <3>9, <3>10 DEF Windows
    <3> QED BY <2>2, <3>3, <3>11 DEF LimitInv
  <2> QED BY <2>3, <2>4
<1>6. CASE \/ Arrive(r) \/ ReadCutOff(r) \/ CutOff(r) \/ CheckRef(r) \/ InsertRow(r) \/ ReadCache(r)
           \/ QueryOracle(r) \/ CheckPln(r) \/ StoreSuccess(r) \/ InsertBills(r)
  <2>1. UNCHANGED <<counted, now, counter, miscounted>>
    BY <1>6 DEF Arrive, ReadCutOff, CutOff, CheckRef, InsertRow, ReadCache, QueryOracle,
                CheckPln, StoreSuccess, InsertBills, redis, history
  <2>2. call[r].pc \notin {"incr", "expire"}
    BY <1>6 DEF Arrive, ReadCutOff, CutOff, CheckRef, InsertRow, ReadCache, QueryOracle,
                CheckPln, StoreSuccess, InsertBills
  <2>3. pc # "expire"
    BY <1>1, <2>2 DEF Moves, Flows
  <2> QED BY <1>3, <2>1, <2>2, <2>3
<1> QED BY <1>4, <1>5, <1>6 DEF Serve

LEMMA LimitTick ==
    ASSUME InquiryTypes, LimitInv, Tick
    PROVE  LimitInv'
<1>1. /\ UNCHANGED <<call, counted>> /\ now' = now + 1 /\ now \in Nat
      /\ counter' = IF counter.expires = now + 1 THEN NoCounter ELSE counter
      /\ miscounted' = (miscounted \/ \E r \in Reqs : call[r].pc = "expire")
      /\ counted \in [Reqs -> Nat \cup {None}]
  BY DEF Tick, InquiryTypes
<1>2. /\ \A r \in Reqs : counted'[r] # None => counted'[r] <= now'
      /\ IsFiniteSet({r \in Reqs : counted'[r] # None})
  BY <1>1 DEF LimitInv
<1>3. CASE miscounted'
  BY <1>2, <1>3 DEF LimitInv
<1>4. CASE ~miscounted'
  <2>1. Windows /\ \A r \in Reqs : call'[r].pc # "expire"
    BY <1>1, <1>4 DEF LimitInv, InquiryTypes
  <2>2. ASSUME counter.expires = now + 1
        PROVE  Windows'
    BY <1>1, <2>1, <2>2 DEF Windows
  <2>3. ASSUME counter = NoCounter
        PROVE  Windows'
    BY <1>1, <2>1, <2>3, NoneAssumption DEF Windows, NoCounter
  <2>4. ASSUME counter # NoCounter, counter.expires # now + 1
        PROVE  Windows'
    <3>1. counter' = counter /\ counter.expires # None /\ counter.count >= 1
      BY <1>1, <2>1, <2>4 DEF Windows
    <3>2. PICK start \in Nat : /\ counter.expires = start + Window
                               /\ start <= now /\ now < start + Window
                               /\ counter.count <= Cardinality(CountedSince(start))
      BY <2>1, <2>4, <3>1 DEF Windows
    <3>3. start <= now' /\ now' < start + Window
      BY <1>1, <2>4, <3>2, WindowAssumption
    <3>4. counter'.count <= Cardinality(CountedSince(start)')
      BY <1>1, <3>1, <3>2 DEF CountedSince
    <3> QED BY <2>1, <3>1, <3>2, <3>3, <3>4 DEF Windows
  <2>5. Windows'
    BY <2>2, <2>3, <2>4
  <2>6. \A r \in Reqs : call'[r].pc \in {"idle", "incr"} => counted'[r] = None
    BY <1>1, <1>4 DEF LimitInv
  <2> QED BY <1>2, <2>5, <2>6 DEF LimitInv
<1> QED BY <1>3, <1>4

LEMMA LimitBackground ==
    ASSUME InquiryTypes, LimitInv, Background
    PROVE  LimitInv'
<1>1. CASE Tick
  BY <1>1, LimitTick
<1>2. CASE ~Tick
  <2>1. UNCHANGED <<call, counted, now, counter, miscounted>>
    BY <1>2 DEF Background, SaveCutOff, Save, PaymentFills, LoadProducts, LoadCutOff,
                ProductChanges, CacheExpires, redis, history
  <2> QED BY <2>1, LimitKept
<1> QED BY <1>1, <1>2

LEMMA LimitDie ==
    ASSUME InquiryTypes, LimitInv, InquiriesDie
    PROVE  LimitInv'
<1>1. /\ UNCHANGED <<counted, now, counter>>
      /\ miscounted' = (miscounted \/ \E r \in Reqs : call[r].pc = "expire")
  BY DEF InquiriesDie, redis
<1>2. \A r \in Reqs : /\ call'[r].pc \in {"idle", "incr"} => call[r].pc \in {"idle", "incr"}
                      /\ call'[r].pc # "expire"
  BY DieMoves
<1>3. CASE miscounted'
  BY <1>1, <1>2, <1>3 DEF LimitInv
<1>4. CASE ~miscounted'
  <2>1. miscounted' = miscounted /\ \A r \in Reqs : call[r].pc # "expire"
    BY <1>1, <1>4 DEF InquiryTypes
  <2> QED BY <1>1, <1>2, <2>1, LimitKept
<1> QED BY <1>3, <1>4

-----------------------------------------------------------------------------
(* The keys of the cut-off windows *)

LEMMA CutServe ==
    ASSUME CutInv, NEW r \in Reqs, Serve(r)
    PROVE  CutInv'
<1>1. cutKeys' = cutKeys /\ unset' = unset
  BY DEF Serve, Arrive, Incr, Expire, ReadCutOff, CutOff, CheckRef, InsertRow, ReadCache,
         QueryOracle, CheckPln, StoreSuccess, InsertBills, redis, happened
<1>2. \/ found' = found
      \/ found' = [found EXCEPT ![r] = cutKeys]
      \/ found' = [found EXCEPT ![r] = {}]
  BY DEF Serve, Arrive, Incr, Expire, ReadCutOff, CutOff, CheckRef, InsertRow, ReadCache,
         QueryOracle, CheckPln, StoreSuccess, InsertBills, fills
<1>3. cutSaving' = cutSaving \/ cutSaving' = cutSaving \cup held
  BY DEF Serve, Arrive, Incr, Expire, ReadCutOff, CutOff, OracleCutOff, CheckRef, InsertRow,
         ReadCache, QueryOracle, CheckPln, StoreSuccess, InsertBills, fills
<1>4. found' \in [Reqs -> SUBSET cutKeys']
  BY <1>1, <1>2 DEF CutInv
<1> QED BY <1>1, <1>3, <1>4 DEF CutInv

LEMMA CutBackground ==
    ASSUME CutInv, Background
    PROVE  CutInv'
<1>1. found' = found
  BY DEF Background, SaveCutOff, Save, PaymentFills, LoadProducts, LoadCutOff,
         ProductChanges, CacheExpires, Tick, fills
<1>2. CASE SaveCutOff
  <2>1. PICK k \in cutSaving :
           /\ cutKeys' \in {cutKeys, cutKeys \cup {k}}
           /\ cutSaving' \in {cutSaving, cutSaving \ {k}}
           /\ unset' = unset \/ unset' = (unset \/ k \notin cutKeys' \cup cutSaving')
           /\ k \in cutKeys' \cup cutSaving' \/ unset'
    BY <1>2 DEF SaveCutOff
  <2>2. cutKeys \subseteq cutKeys' /\ cutKeys' \subseteq held /\ cutSaving' \subseteq held
    BY <2>1 DEF CutInv
  <2>3. found \in [Reqs -> SUBSET cutKeys']
    BY <2>2 DEF CutInv
  <2>4. unset => unset'
    BY <2>1
  <2>5. ASSUME ~unset'
        PROVE  held \subseteq cutKeys' \cup cutSaving'
    BY <2>1, <2>4, <2>5 DEF CutInv
  <2> QED BY <1>1, <2>2, <2>3, <2>5 DEF CutInv
<1>3. CASE ~SaveCutOff
  <2>1. cutKeys' = cutKeys /\ unset' = unset
    BY <1>3 DEF Background, Save, PaymentFills, LoadProducts, LoadCutOff,
                ProductChanges, CacheExpires, Tick, redis, happened
  <2>2. cutSaving' = cutSaving \/ cutSaving' = cutSaving \cup held
    BY <1>3 DEF Background, Save, PaymentFills, LoadProducts, LoadCutOff,
                ProductChanges, CacheExpires, Tick, fills
  <2> QED BY <1>1, <2>1, <2>2 DEF CutInv
<1> QED BY <1>2, <1>3

LEMMA CutDie ==
    ASSUME CutInv, InquiriesDie
    PROVE  CutInv'
<1>1. /\ cutKeys' = cutKeys /\ cutSaving' = {}
      /\ unset' = (unset \/ ~(cutSaving \subseteq cutKeys))
      /\ found' = [r \in Reqs |-> {}]
  BY DEF InquiriesDie, redis
<1> QED BY <1>1 DEF CutInv

-----------------------------------------------------------------------------
(* What the partner knows of a payment *)

Notes == [payment : Payments, status : Statuses \ {0}]

LEMMA QueueTypes ==
    ASSUME NotifierTypes
    PROVE  /\ queue \in Seq(Notes)
           /\ queue # <<>> =>
                /\ Head(queue) \in Notes /\ Tail(queue) \in Seq(Notes)
                /\ \A i \in 1..Len(queue) :
                      \/ queue[i] = Head(queue)
                      \/ \E j \in 1..Len(Tail(queue)) : Tail(queue)[j] = queue[i]
<1>1. queue \in Seq(Notes)
  BY DEF NotifierTypes, Notes
<1>2. ASSUME queue # <<>>
      PROVE  /\ Head(queue) \in Notes /\ Tail(queue) \in Seq(Notes)
             /\ \A i \in 1..Len(queue) :
                   \/ queue[i] = Head(queue)
                   \/ \E j \in 1..Len(Tail(queue)) : Tail(queue)[j] = queue[i]
  <2>1. /\ Head(queue) = queue[1] /\ Head(queue) \in Notes
        /\ Tail(queue) \in Seq(Notes) /\ Len(Tail(queue)) = Len(queue) - 1
        /\ \A j \in 1..Len(Tail(queue)) : Tail(queue)[j] = queue[j + 1]
        /\ Len(queue) \in Nat
    BY <1>1, <1>2
  <2>2. ASSUME NEW i \in 1..Len(queue), i # 1
        PROVE  \E j \in 1..Len(Tail(queue)) : Tail(queue)[j] = queue[i]
    <3>1. i - 1 \in 1..Len(Tail(queue)) /\ (i - 1) + 1 = i
      BY <2>1, <2>2
    <3> QED BY <2>1, <3>1
  <2> QED BY <2>1, <2>2
<1> QED BY <1>1, <1>2

LEMMA QueueAppend ==
    ASSUME NEW S, NEW L \in Seq(S), NEW m \in S
    PROVE  /\ Append(L, m) \in Seq(S) /\ Append(L, m) # <<>>
           /\ \A i \in 1..Len(L) : \E j \in 1..Len(Append(L, m)) : Append(L, m)[j] = L[i]
           /\ \E j \in 1..Len(Append(L, m)) : Append(L, m)[j] = m
           /\ L # <<>> => Head(Append(L, m)) = Head(L)
<1> DEFINE K == Append(L, m)
<1>1. K \in Seq(S)
  OBVIOUS
<1>2. /\ Len(L) \in Nat /\ Len(K) = Len(L) + 1 /\ K[Len(L) + 1] = m
      /\ \A i \in 1..Len(L) : K[i] = L[i]
  OBVIOUS
<1> HIDE DEF K
<1>3. \A i \in 1..Len(L) : i \in 1..Len(K)
  BY <1>2
<1>4. L # <<>> => Head(K) = Head(L)
  BY DEF K
<1>5. Len(L) + 1 \in 1..Len(K) /\ K # <<>>
  BY <1>1, <1>2
<1>6. /\ \A i \in 1..Len(L) : \E j \in 1..Len(K) : K[j] = L[i]
      /\ \E j \in 1..Len(K) : K[j] = m
  BY <1>2, <1>3, <1>5
<1> QED BY <1>1, <1>4, <1>5, <1>6 DEF K

(* A message that leaves the queue was the head. *)
LEMMA WaitingTail ==
    ASSUME NotifierTypes, queue # <<>>, queue' = Tail(queue),
           NEW p \in Payments, NEW s \in Statuses, Waiting(p, s)
    PROVE  Waiting(p, s)' \/ Head(queue) = [payment |-> p, status |-> s]
<1>1. PICK i \in 1..Len(queue) : queue[i] = [payment |-> p, status |-> s]
  BY DEF Waiting
<1>2. CASE \E j \in 1..Len(Tail(queue)) : Tail(queue)[j] = queue[i]
  BY <1>1, <1>2 DEF Waiting
<1> QED BY <1>1, <1>2, QueueTypes

LEMMA NoStatusType ==
    NoStatus \notin Statuses /\ MaxUpdates \in Nat
BY NotifierAssumption DEF NoStatus, Statuses

LEMMA UpdateInv ==
    ASSUME NotifierInv, NEW q \in Payments, Update(q)
    PROVE  NotifierInv'
<1>1. /\ UNCHANGED <<published, queue, handling, started, posting, told, gap,
                     callFaults, drops>>
      /\ stored[q] < MaxUpdates /\ stored' = [stored EXCEPT ![q] = stored[q] + 1]
      /\ stored \in [Payments -> Statuses]
  BY DEF Update, NotifierInv, NotifierTypes
<1>2. /\ stored' \in [Payments -> Statuses]
      /\ \A p \in Payments : stored[p] \in Nat /\ stored'[p] \in Nat /\ stored[p] <= stored'[p]
  BY <1>1, NoStatusType DEF Statuses
<1>3. NotifierTypes'
  BY <1>1, <1>2 DEF NotifierInv, NotifierTypes
<1>4. ASSUME NEW p \in Payments
      PROVE  PaymentInv(p)'
  <2>1. /\ InFlight(p)' = InFlight(p)
        /\ \A s : Waiting(p, s)' <=> Waiting(p, s)
    BY <1>1 DEF InFlight, Waiting
  <2>3. told[p] \in Nat /\ InFlight(p) \subseteq Nat /\ handling \in Nat
    <3>1. told[p] \in Statuses /\ InFlight(p) \subseteq Statuses
      BY DEF InFlight, NotifierInv, NotifierTypes
    <3>2. handling \in Statuses \/ handling = MaxUpdates + 1
      BY DEF NotifierInv, NotifierTypes, NoStatus
    <3> QED BY <3>1, <3>2, NoStatusType DEF Statuses
  <2>2. PaymentInv(p)
    BY DEF NotifierInv
  <2> QED BY <1>1, <1>2, <2>1, <2>2, <2>3 DEF PaymentInv, Knows
<1> QED BY <1>1, <1>3, <1>4 DEF NotifierInv

LEMMA SendInv ==
    ASSUME NotifierInv, NEW q \in Payments, NEW s \in Statuses \ {0}, Send(q, s)
    PROVE  NotifierInv'
<1> DEFINE m == [payment |-> q, status |-> s]
<1>1. /\ UNCHANGED <<stored, handling, started, posting, told, gap, callFaults, drops>>
      /\ published' = [published EXCEPT ![q] = published[q] \cup {s}]
      /\ published \in [Payments -> SUBSET (Statuses \ {0})]
      /\ queue' = Append(queue, m)
      /\ m \in Notes /\ queue \in Seq(Notes)
  BY QueueTypes DEF Send, NotifierInv, NotifierTypes, Notes
<1> HIDE DEF m
<1>2. /\ queue' \in Seq(Notes) /\ queue' # <<>>
      /\ \A i \in 1..Len(queue) : \E j \in 1..Len(queue') : queue'[j] = queue[i]
      /\ \E j \in 1..Len(queue') : queue'[j] = m
      /\ queue # <<>> => Head(queue') = Head(queue)
  BY <1>1, QueueAppend
<1>3. published' \in [Payments -> SUBSET (Statuses \ {0})]
      /\ published'[q] = published[q] \cup {s}
      /\ \A p \in Payments \ {q} : published'[p] = published[p]
  BY <1>1
<1>4. NotifierTypes'
  BY <1>1, <1>2, <1>3 DEF NotifierInv, NotifierTypes, Notes
<1>5. ASSUME NEW p \in Payments
      PROVE  PaymentInv(p)'
  <2>1. /\ InFlight(p)' = InFlight(p)
        /\ \A t : Knows(p, t)' <=> Knows(p, t)
    BY <1>1 DEF InFlight, Knows
  <2>2. \A t : Waiting(p, t) => Waiting(p, t)'
    BY <1>2 DEF Waiting
  <2>3. Waiting(q, s)'
    BY <1>2 DEF Waiting, m
  <2>4. handling # NoStatus \/ started => Head(queue') = Head(queue)
    BY <1>2 DEF NotifierInv
  <2>5. PaymentInv(p)
    BY DEF NotifierInv
  <2>6. gap[p] = {} => \A t \in published'[p] : Knows(p, t)' \/ Waiting(p, t)'
    BY <1>3, <2>1, <2>2, <2>3, <2>5 DEF PaymentInv
  <2> QED BY <1>1, <2>1, <2>4, <2>5, <2>6 DEF PaymentInv
<1> QED BY <1>1, <1>2, <1>4, <1>5 DEF NotifierInv

LEMMA RejectInv ==
    ASSUME NotifierInv, Reject
    PROVE  NotifierInv'
<1>1. /\ UNCHANGED <<stored, published, handling, started, posting, told, drops>>
      /\ queue # <<>> /\ handling = NoStatus /\ ~started
      /\ queue' = Tail(queue) /\ Head(queue) \in Notes /\ Tail(queue) \in Seq(Notes)
      /\ callFaults' \in Nat
      /\ gap' = [gap EXCEPT ![Head(queue).payment] = @ \cup {"failed"}]
      /\ gap \in [Payments -> SUBSET Gaps]
  BY QueueTypes DEF Reject, Idle, CallFault, Note, NotifierInv, NotifierTypes
<1>2. /\ gap' \in [Payments -> SUBSET Gaps]
      /\ \A p \in Payments : gap'[p] = {} => gap[p] = {} /\ p # Head(queue).payment
  BY <1>1 DEF Gaps
<1>3. NotifierTypes'
  BY <1>1, <1>2 DEF NotifierInv, NotifierTypes, Notes
<1>4. ASSUME NEW p \in Payments, gap'[p] = {}
      PROVE  PaymentInv(p)'
  <2>1. /\ InFlight(p)' = InFlight(p)
        /\ \A t : Knows(p, t)' <=> Knows(p, t)
    BY <1>1 DEF InFlight, Knows
  <2>2. \A t \in Statuses : Waiting(p, t) => Waiting(p, t)'
    <3>1. ASSUME NEW t \in Statuses, Waiting(p, t)
          PROVE  Waiting(p, t)'
      <4>1. Head(queue) # [payment |-> p, status |-> t]
        BY <1>2, <1>4
      <4> QED BY <1>1, <3>1, <4>1, WaitingTail DEF NotifierInv
    <3> QED BY <3>1
  <2>3. PaymentInv(p) /\ gap[p] = {} /\ published[p] \subseteq Statuses
    BY <1>2, <1>4 DEF NotifierInv, NotifierTypes
  <2> QED BY <1>1, <2>1, <2>2, <2>3 DEF PaymentInv
<1>5. \A p \in Payments : PaymentInv(p)'
  BY <1>4 DEF PaymentInv
<1> QED BY <1>1, <1>3, <1>5 DEF NotifierInv

LEMMA ReadStatusInv ==
    ASSUME NotifierInv, ReadStatus
    PROVE  NotifierInv'
<1>0. PICK m \in Notes : m = Head(queue)
  BY QueueTypes DEF ReadStatus, Idle, NotifierInv
<1>1. /\ UNCHANGED <<stored, published, queue, started, posting, told, drops>>
      /\ queue # <<>> /\ ~started
      /\ callFaults' \in Nat
      /\ \/ /\ handling' = stored[m.payment]
            /\ Note(m.payment, IF stored[m.payment] < m.status THEN {"overtook"} ELSE {})
         \/ /\ handling' = m.status
            /\ Note(m.payment,
                    (IF stored[m.payment] < m.status THEN {"overtook"} ELSE {})
                      \cup (IF stored[m.payment] > m.status THEN {"fallback"} ELSE {}))
  BY <1>0 DEF ReadStatus, Idle, CallFault, StatusFor, NotifierInv, NotifierTypes
<1>2. /\ gap \in [Payments -> SUBSET Gaps]
      /\ stored[m.payment] \in Statuses /\ m.status \in Statuses /\ m.payment \in Payments
  BY DEF NotifierInv, NotifierTypes, Notes
<1>3. /\ gap' \in [Payments -> SUBSET Gaps]
      /\ \A p \in Payments : gap[p] \subseteq gap'[p]
      /\ gap'[m.payment] = {} => handling' = stored[m.payment] /\ m.status <= stored[m.payment]
  <2>1. CASE /\ handling' = stored[m.payment]
             /\ Note(m.payment, IF stored[m.payment] < m.status THEN {"overtook"} ELSE {})
    BY <1>2, <2>1 DEF Note, Gaps, Statuses
  <2>2. CASE /\ handling' = m.status
             /\ Note(m.payment,
                     (IF stored[m.payment] < m.status THEN {"overtook"} ELSE {})
                       \cup (IF stored[m.payment] > m.status THEN {"fallback"} ELSE {}))
    BY <1>2, <2>2 DEF Note, Gaps, Statuses
  <2> QED BY <1>1, <2>1, <2>2
<1>4. NotifierTypes'
  BY <1>1, <1>2, <1>3 DEF NotifierInv, NotifierTypes
<1>5. ASSUME NEW p \in Payments, gap'[p] = {}
      PROVE  PaymentInv(p)'
  <2>1. /\ InFlight(p)' = InFlight(p)
        /\ \A t : Knows(p, t)' <=> Knows(p, t)
        /\ \A t : Waiting(p, t)' <=> Waiting(p, t)
    BY <1>1 DEF InFlight, Knows, Waiting
  <2>2. PaymentInv(p) /\ gap[p] = {}
    BY <1>3, <1>5 DEF NotifierInv
  <2>3. p = m.payment => handling' = stored[p] /\ m.status <= stored[p]
    BY <1>3, <1>5
  <2>4. stored[p] <= stored[p]
    BY DEF NotifierInv, NotifierTypes, Statuses
  <2> QED BY <1>0, <1>1, <2>1, <2>2, <2>3, <2>4 DEF PaymentInv
<1>6. \A p \in Payments : PaymentInv(p)'
  BY <1>5 DEF PaymentInv
<1> QED BY <1>1, <1>4, <1>6 DEF NotifierInv

(* Requests of one status more or less in flight.                          *)
LEMMA PostingTypes ==
    ASSUME NotifierTypes, NEW p \in Payments, NEW s \in Statuses, NEW n \in Nat,
           Requests(p, s, n)
    PROVE  /\ posting' \in [Payments -> [Statuses -> Nat]]
           /\ \A x \in Payments \ {p} : InFlight(x)' = InFlight(x)
           /\ InFlight(p)' = IF n > 0 THEN InFlight(p) \cup {s} ELSE InFlight(p) \ {s}
<1>1. posting \in [Payments -> [Statuses -> Nat]] /\ posting[p] \in [Statuses -> Nat]
  BY DEF NotifierTypes
<1>2. PICK f \in [Statuses -> Nat] :
         f = [posting[p] EXCEPT ![s] = n] /\ posting' = [posting EXCEPT ![p] = f]
  BY <1>1 DEF Requests
<1>3. f[s] = n /\ \A t \in Statuses \ {s} : f[t] = posting[p][t]
  BY <1>1, <1>2
<1>4. /\ posting' \in [Payments -> [Statuses -> Nat]]
      /\ posting'[p] = f
      /\ \A x \in Payments \ {p} : posting'[x] = posting[x]
  BY <1>1, <1>2
<1>5. \A x \in Payments \ {p} : InFlight(x)' = InFlight(x)
  BY <1>4 DEF InFlight
<1>6. InFlight(p)' = IF n > 0 THEN InFlight(p) \cup {s} ELSE InFlight(p) \ {s}
  BY <1>1, <1>3, <1>4 DEF InFlight
<1> QED BY <1>4, <1>5, <1>6

LEMMA StartPostInv ==
    ASSUME NotifierInv, StartPost
    PROVE  NotifierInv'
<1>0. queue # <<>> /\ handling # NoStatus /\ handling \in Statuses
  BY DEF StartPost, NotifierInv, NotifierTypes
<1>1. PICK p \in Payments, n \in Nat : /\ p = Head(queue).payment
                                      /\ n > 0 /\ Requests(p, handling, n)
                                      /\ Note(p, IF InFlight(p) \ {handling} # {}
                                                 THEN {"overlap"} ELSE {})
  <2>1. PICK p \in Payments : p = Head(queue).payment
    BY <1>0, QueueTypes DEF NotifierInv, Notes
  <2>2. posting[p][handling] + 1 \in Nat /\ posting[p][handling] + 1 > 0
    <3>1. posting[p] \in [Statuses -> Nat]
      BY DEF NotifierInv, NotifierTypes
    <3>2. posting[p][handling] \in Nat
      BY <1>0, <3>1
    <3> QED BY <3>2
  <2>3. /\ Requests(p, handling, posting[p][handling] + 1)
        /\ Note(p, IF InFlight(p) \ {handling} # {} THEN {"overlap"} ELSE {})
    BY <2>1 DEF StartPost
  <2> QED BY <2>1, <2>2, <2>3
<1>2. /\ UNCHANGED <<stored, published, queue, told, callFaults, drops>>
      /\ handling' = NoStatus /\ started' = TRUE
  BY DEF StartPost
<1>3. /\ posting' \in [Payments -> [Statuses -> Nat]]
      /\ \A x \in Payments \ {p} : InFlight(x)' = InFlight(x)
      /\ InFlight(p)' = InFlight(p) \cup {handling}
  BY <1>0, <1>1, PostingTypes DEF NotifierInv
<1>4. gap \in [Payments -> SUBSET Gaps]
  BY DEF NotifierInv, NotifierTypes
<1>5. /\ gap' \in [Payments -> SUBSET Gaps]
      /\ \A x \in Payments : gap[x] \subseteq gap'[x]
      /\ gap'[p] = {} => InFlight(p) \subseteq {handling}
  BY <1>1, <1>4 DEF Note, Gaps
<1>6. NotifierTypes'
  BY <1>2, <1>3, <1>5 DEF NotifierInv, NotifierTypes
<1>7. ASSUME NEW x \in Payments, gap'[x] = {}
      PROVE  PaymentInv(x)'
  <2>1. PaymentInv(x) /\ gap[x] = {}
    BY <1>5, <1>7 DEF NotifierInv
  <2>2. \A t : Waiting(x, t)' <=> Waiting(x, t)
    BY <1>2 DEF Waiting
  <2>3. \A t : Knows(x, t) => Knows(x, t)'
    BY <1>2, <1>3 DEF Knows
  <2>4. x = p => Knows(p, Head(queue).status)' /\ InFlight(p)' = {handling}
                 /\ told[p] <= handling /\ handling <= stored[p]
    BY <1>0, <1>1, <1>3, <1>5, <1>7, <2>1, <1>2 DEF Knows, PaymentInv
  <2>5. /\ told[x] <= stored[x]
        /\ \A t \in InFlight(x)' : /\ told[x] <= t /\ t <= stored[x]
                                   /\ \A u \in InFlight(x)' : t = u
    BY <1>3, <2>1, <2>4 DEF PaymentInv
  <2>6. \A s \in published[x] : Knows(x, s)' \/ Waiting(x, s)'
    BY <2>1, <2>2, <2>3 DEF PaymentInv
  <2>7. Head(queue).payment = x => Knows(x, Head(queue).status)'
    BY <1>1, <2>4
  <2> QED BY <1>2, <2>5, <2>6, <2>7 DEF PaymentInv
<1>8. \A x \in Payments : PaymentInv(x)'
  BY <1>7 DEF PaymentInv
<1> QED BY <1>0, <1>2, <1>6, <1>8 DEF NotifierInv

LEMMA AckInv ==
    ASSUME NotifierInv, Ack
    PROVE  NotifierInv'
<1>1. /\ UNCHANGED <<stored, published, handling, posting, told, gap, callFaults, drops>>
      /\ started /\ started' = FALSE /\ handling = NoStatus
      /\ queue # <<>> /\ queue' = Tail(queue) /\ Tail(queue) \in Seq(Notes)
  BY QueueTypes DEF Ack, NotifierInv
<1>2. NotifierTypes'
  BY <1>1 DEF NotifierInv, NotifierTypes, Notes
<1>3. ASSUME NEW p \in Payments, gap[p] = {}
      PROVE  PaymentInv(p)'
  <2>1. /\ InFlight(p)' = InFlight(p)
        /\ \A t : Knows(p, t)' <=> Knows(p, t)
    BY <1>1 DEF InFlight, Knows
  <2>2. PaymentInv(p) /\ published[p] \subseteq Statuses
    BY DEF NotifierInv, NotifierTypes
  <2>3. ASSUME NEW t \in published[p]
        PROVE  Knows(p, t) \/ Waiting(p, t)'
    <3>1. CASE Waiting(p, t)
      <4>1. Waiting(p, t)' \/ Head(queue) = [payment |-> p, status |-> t]
        BY <1>1, <2>2, <3>1, WaitingTail DEF NotifierInv
      <4>2. Head(queue) = [payment |-> p, status |-> t] => Knows(p, t)
        BY <1>1, <1>3, <2>2 DEF PaymentInv
      <4> QED BY <4>1, <4>2
    <3> QED BY <1>3, <2>2, <3>1 DEF PaymentInv
  <2> QED BY <1>1, <1>3, <2>1, <2>2, <2>3 DEF PaymentInv
<1>4. \A p \in Payments : PaymentInv(p)'
  BY <1>1, <1>3 DEF PaymentInv
<1> QED BY <1>1, <1>2, <1>4 DEF NotifierInv

LEMMA PostInv ==
    ASSUME NotifierInv, NEW p \in Payments, NEW s \in Statuses, Post(p, s)
    PROVE  NotifierInv'
<1>1. /\ UNCHANGED <<stored, published, queue, handling, started, drops>>
      /\ callFaults' \in Nat
      /\ posting[p][s] \in Nat /\ posting[p][s] > 0
      /\ s \in InFlight(p)
      /\ gap \in [Payments -> SUBSET Gaps] /\ told \in [Payments -> Statuses]
  <2>1. posting[p] \in [Statuses -> Nat]
    BY DEF NotifierInv, NotifierTypes
  <2>2. posting[p][s] \in Nat
    BY <2>1
  <2>3. posting[p][s] > 0 /\ s \in InFlight(p)
    BY DEF Post, InFlight
  <2>4. UNCHANGED <<stored, published, queue, handling, started, drops>>
    BY DEF Post
  <2>5. callFaults' \in Nat
    <3>1. callFaults \in Nat
      BY DEF NotifierInv, NotifierTypes
    <3>2. callFaults' = callFaults \/ callFaults' = callFaults + 1
      BY DEF Post, CallFault
    <3> QED BY <3>1, <3>2
  <2> QED BY <2>2, <2>3, <2>4, <2>5 DEF NotifierInv, NotifierTypes
<1>2. PICK n \in Nat : Requests(p, s, n)
  <2>1. posting[p][s] - 1 \in Nat
    BY <1>1
  <2> QED BY <2>1 DEF Post
<1>3. /\ posting' \in [Payments -> [Statuses -> Nat]]
      /\ \A x \in Payments \ {p} : InFlight(x)' = InFlight(x)
      /\ InFlight(p)' \subseteq InFlight(p)
  <2>1. InFlight(p)' \subseteq InFlight(p) \cup {s}
    BY <1>2, PostingTypes DEF NotifierInv
  <2> QED BY <1>1, <1>2, <2>1, PostingTypes DEF NotifierInv
<1>4. /\ gap' \in [Payments -> SUBSET Gaps] /\ told' \in [Payments -> Statuses]
      /\ \A x \in Payments \ {p} : gap'[x] = gap[x] /\ told'[x] = told[x]
      /\ gap'[p] = {} => gap[p] = {} /\ told'[p] = s
  <2>1. CASE told' = [told EXCEPT ![p] = s] /\ UNCHANGED gap
    BY <1>1, <2>1
  <2>2. CASE Note(p, {"failed"}) /\ UNCHANGED told
    BY <1>1, <2>2 DEF Note, Gaps
  <2> QED BY <2>1, <2>2 DEF Post
<1>5. NotifierTypes'
  BY <1>1, <1>3, <1>4 DEF NotifierInv, NotifierTypes
<1>6. ASSUME NEW x \in Payments, gap'[x] = {}
      PROVE  PaymentInv(x)'
  <2>1. PaymentInv(x) /\ gap[x] = {}
    BY <1>4, <1>6 DEF NotifierInv
  <2>2. \A t : Waiting(x, t)' <=> Waiting(x, t)
    BY <1>1 DEF Waiting
  <2>3. CASE x # p
    <3>1. \A t : Knows(x, t)' <=> Knows(x, t)
      BY <1>3, <1>4, <2>3 DEF Knows
    <3> QED BY <1>1, <1>3, <1>4, <2>1, <2>2, <2>3, <3>1 DEF PaymentInv
  <2>4. CASE x = p
    <3>1. /\ told'[p] = s /\ told[p] <= s /\ s <= stored[p]
          /\ \A t \in InFlight(p) : t = s
      BY <1>1, <1>4, <1>6, <2>1, <2>4 DEF PaymentInv
    <3>2. \A t \in Nat : Knows(p, t) => Knows(p, t)'
      <4>1. told[p] \in Nat /\ s \in Nat
        BY <1>1 DEF Statuses
      <4> QED BY <3>1, <4>1 DEF Knows
    <3>3. /\ published[p] \subseteq Nat
          /\ queue # <<>> => Head(queue).status \in Nat
          /\ s <= s
      <4>1. published[p] \subseteq Statuses
        BY DEF NotifierInv, NotifierTypes
      <4>2. queue # <<>> => Head(queue).status \in Statuses
        BY QueueTypes DEF NotifierInv, Notes
      <4>3. Statuses \subseteq Nat
        BY DEF Statuses
      <4>4. published[p] \subseteq Nat
        BY <4>1, <4>3
      <4>5. queue # <<>> => Head(queue).status \in Nat
        BY <4>2, <4>3
      <4>6. s \in Nat
        BY <4>3
      <4>7. s <= s
        BY <4>6
      <4> QED BY <4>4, <4>5, <4>7
    <3>4. \A t \in InFlight(p)' : t = s
      BY <1>3, <3>1
    <3>5. handling # NoStatus /\ Head(queue).payment = p => s <= handling
      BY <1>1, <2>1, <2>4 DEF PaymentInv
    <3>6. started /\ Head(queue).payment = p => Knows(p, Head(queue).status)'
      <4>1. started => queue # <<>>
        BY DEF NotifierInv
      <4>2. started /\ Head(queue).payment = p => Knows(p, Head(queue).status)
        BY <2>1, <2>4 DEF PaymentInv
      <4>3. queue' = queue
        BY <1>1
      <4>4. ASSUME started, Head(queue).payment = p
            PROVE  Knows(p, Head(queue).status)'
        <5>1. PICK t \in Nat : t = Head(queue).status
          BY <3>3, <4>1, <4>4
        <5>2. Knows(p, t)'
          BY <3>2, <4>2, <4>4, <5>1
        <5> QED BY <4>3, <5>1, <5>2 DEF Knows
      <4> QED BY <4>4
    <3>7. \A t \in published[p] : Knows(p, t)' \/ Waiting(p, t)'
      BY <2>1, <2>2, <2>4, <3>2, <3>3 DEF PaymentInv
    <3>8. handling # NoStatus /\ Head(queue).payment = p =>
             Head(queue).status <= handling /\ handling <= stored[p]
      BY <2>1, <2>4 DEF PaymentInv
    <3> QED BY <1>1, <2>4, <3>1, <3>3, <3>4, <3>5, <3>6, <3>7, <3>8 DEF PaymentInv
  <2> QED BY <2>3, <2>4
<1>7. \A x \in Payments : PaymentInv(x)'
  BY <1>6 DEF PaymentInv
<1> QED BY <1>1, <1>5, <1>7 DEF NotifierInv

LEMMA ConnectionLostInv ==
    ASSUME NotifierInv, ConnectionLost
    PROVE  NotifierInv'
<1>1. /\ UNCHANGED <<stored, published, queue, handling, posting, told, gap, callFaults>>
      /\ started' = FALSE /\ drops' \in Nat /\ queue # <<>>
  BY DEF ConnectionLost, NotifierInv, NotifierTypes
<1>2. NotifierTypes'
  BY <1>1 DEF NotifierInv, NotifierTypes
<1>3. ASSUME NEW p \in Payments
      PROVE  PaymentInv(p)'
  <2>1. /\ InFlight(p)' = InFlight(p)
        /\ \A t : Knows(p, t)' <=> Knows(p, t)
        /\ \A t : Waiting(p, t)' <=> Waiting(p, t)
    BY <1>1 DEF InFlight, Knows, Waiting
  <2> QED BY <1>1, <2>1 DEF PaymentInv, NotifierInv
<1> QED BY <1>1, <1>2, <1>3 DEF NotifierInv

LEMMA NotifierDiesInv ==
    ASSUME NotifierInv, NotifierDies
    PROVE  NotifierInv'
<1>1. /\ UNCHANGED <<stored, published, queue, told, callFaults, drops>>
      /\ handling' = NoStatus /\ started' = FALSE
      /\ posting' = [p \in Payments |-> [s \in Statuses |-> 0]]
  BY DEF NotifierDies
<1>2. /\ gap' \in [Payments -> SUBSET Gaps]
      /\ \A p \in Payments : gap'[p] = {} => gap[p] = {} /\ InFlight(p) = {}
  BY DEF NotifierDies, NotifierInv, NotifierTypes, Gaps
<1>3. NotifierTypes'
  BY <1>1, <1>2 DEF NotifierInv, NotifierTypes
<1>4. ASSUME NEW p \in Payments, gap'[p] = {}
      PROVE  PaymentInv(p)'
  <2>1. InFlight(p)' = {} /\ InFlight(p) = {} /\ gap[p] = {} /\ PaymentInv(p)
    BY <1>1, <1>2, <1>4 DEF InFlight, NotifierInv
  <2>2. /\ \A t : Knows(p, t)' <=> Knows(p, t)
        /\ \A t : Waiting(p, t)' <=> Waiting(p, t)
    BY <1>1, <2>1 DEF Knows, Waiting
  <2> QED BY <1>1, <2>1, <2>2 DEF PaymentInv
<1>5. \A p \in Payments : PaymentInv(p)'
  BY <1>4 DEF PaymentInv
<1> QED BY <1>1, <1>3, <1>5 DEF NotifierInv

-----------------------------------------------------------------------------
(* The inductive invariant *)

Inv == InquiryInv /\ NotifierInv

LEMMA NotifierStep ==
    ASSUME NotifierInv, NotifierNext
    PROVE  NotifierInv'
BY UpdateInv, SendInv, PostInv, RejectInv, ReadStatusInv, StartPostInv, AckInv,
   ConnectionLostInv DEF NotifierNext

LEMMA InquiryStep ==
    ASSUME InquiryInv, InquiryNext
    PROVE  InquiryInv'
<1>1. ASSUME NEW r \in Reqs, Serve(r)
      PROVE  InquiryInv'
  BY <1>1, ServeTypes, RowServe, PriceServe, LimitServe, CutServe DEF InquiryInv
<1>2. ASSUME Background
      PROVE  InquiryInv'
  BY <1>2, BackgroundTypes, RowBackground, PriceBackground, LimitBackground,
     CutBackground DEF InquiryInv
<1> QED BY <1>1, <1>2 DEF InquiryNext, Background

LEMMA RestartStep ==
    ASSUME InquiryInv, NotifierInv, Restart
    PROVE  InquiryInv' /\ NotifierInv'
<1>1. InquiriesDie /\ NotifierDies
  BY DEF Restart
<1> QED BY <1>1, DieTypes, RowDie, PriceDie, LimitDie, CutDie, NotifierDiesInv DEF
        InquiryInv

LEMMA InquiryStart ==
    ASSUME InquiryInit
    PROVE  InquiryInv
<1>1. /\ call = [r \in Reqs |-> [pc |-> "idle", code |-> "none"]]
      /\ rows = {} /\ payable = {} /\ missed = {}
      /\ version = 1 /\ cached = None /\ cutKeys = {} /\ cutSaving = {}
      /\ found = [r \in Reqs |-> {}]
      /\ counter = NoCounter
      /\ saving = [x \in Reqs \cup Others |-> None]
      /\ now \in 0..(Day - 1)
      /\ seen = [r \in Reqs |-> 0]
      /\ earlier = [r \in Reqs |-> {}]
      /\ counted = [r \in Reqs |-> None]
      /\ miscounted = FALSE /\ crossed = FALSE /\ faults = 0
  BY DEF InquiryInit
<1>2. InquiryTypes
  <2>1. call \in [Reqs -> [pc : Pcs, code : Codes]]
    BY <1>1 DEF Pcs, Codes
  <2>2. now \in Nat
    BY <1>1, WindowAssumption
  <2>3. counter \in [count : Nat, expires : Nat \cup {None}]
    BY <1>1 DEF NoCounter
  <2> QED BY <1>1, <2>1, <2>2, <2>3 DEF InquiryTypes
<1>3. \A r \in Reqs : call[r].pc = "idle" /\ Answer(r) = "none"
  BY <1>1 DEF Answer
<1>4. CodeInv
  BY <1>1 DEF CodeInv
<1>5. RowInv
  BY <1>1, <1>3 DEF RowInv, Passed, Stored
<1>6. PriceInv
  BY <1>1, <1>3 DEF PriceInv
<1>7. LimitInv
  <2>1. {r \in Reqs : counted[r] # None} = {}
    BY <1>1
  <2> QED BY <1>1, <1>3, <2>1, FS_EmptySet DEF LimitInv, Windows
<1>8. CutInv
  BY <1>1 DEF CutInv
<1> QED BY <1>2, <1>4, <1>5, <1>6, <1>7, <1>8 DEF InquiryInv

LEMMA NotifierStart ==
    ASSUME NotifierInit
    PROVE  NotifierInv
<1>1. /\ stored = [p \in Payments |-> 0] /\ published = [p \in Payments |-> {}]
      /\ queue = <<>> /\ handling = NoStatus /\ started = FALSE
      /\ posting = [p \in Payments |-> [s \in Statuses |-> 0]]
      /\ told = [p \in Payments |-> 0] /\ gap = [p \in Payments |-> {}]
      /\ callFaults = 0 /\ drops = 0
  BY DEF NotifierInit
<1>2. 0 \in Statuses
  BY NoStatusType DEF Statuses
<1>3. NotifierTypes
  <2>1. queue \in Seq([payment : Payments, status : Statuses \ {0}])
    BY <1>1
  <2>2. posting \in [Payments -> [Statuses -> Nat]]
    BY <1>1
  <2>3. /\ stored \in [Payments -> Statuses] /\ told \in [Payments -> Statuses]
        /\ published \in [Payments -> SUBSET (Statuses \ {0})]
        /\ gap \in [Payments -> SUBSET Gaps]
    BY <1>1, <1>2
  <2> QED BY <1>1, <2>1, <2>2, <2>3 DEF NotifierTypes
<1>4. \A p \in Payments : InFlight(p) = {}
  BY <1>1 DEF InFlight
<1> QED BY <1>1, <1>3, <1>4 DEF NotifierInv, PaymentInv

(* What nothing touches is kept. *)
LEMMA InquiryKept ==
    ASSUME InquiryInv, UNCHANGED inquiryVars
    PROVE  InquiryInv'
<1>1. UNCHANGED <<call, rows, payable, version, cached, saving, counter, cutKeys,
                  cutSaving, found, now, seen, earlier, counted, missed, miscounted,
                  crossed, unset, faults>>
  BY DEF inquiryVars, tables, redis, fills, history, happened
<1>2. InquiryTypes' /\ CodeInv'
  BY <1>1 DEF InquiryInv, InquiryTypes, CodeInv
<1>3. RowInv'
  BY <1>1 DEF InquiryInv, RowInv, Passed, Stored, Answer, Over
<1>4. PriceInv'
  BY <1>1 DEF InquiryInv, PriceInv
<1>5. LimitInv'
  BY <1>1, LimitKept DEF InquiryInv
<1>6. CutInv'
  BY <1>1 DEF InquiryInv, CutInv
<1> QED BY <1>2, <1>3, <1>4, <1>5, <1>6 DEF InquiryInv

LEMMA NotifierKept ==
    ASSUME NotifierInv, UNCHANGED notifierVars
    PROVE  NotifierInv'
<1>1. UNCHANGED <<stored, published, queue, handling, started, posting, told, gap,
                  callFaults, drops>>
  BY DEF notifierVars
<1>2. \A p \in Payments : PaymentInv(p)'
  BY <1>1 DEF NotifierInv, PaymentInv, InFlight, Knows, Waiting
<1> QED BY <1>1, <1>2 DEF NotifierInv, NotifierTypes

(* What every reachable state of the service satisfies. *)
THEOREM InvCorrect == Spec => []Inv
<1>1. Init => Inv
  BY InquiryStart, NotifierStart DEF Init, Inv
<1>2. Inv /\ [Next]_vars => Inv'
  <2>1. ASSUME Inv, [Next]_vars
        PROVE  Inv'
    <3>1. CASE InquiryNext /\ UNCHANGED notifierVars
      BY <2>1, <3>1, InquiryStep, NotifierKept DEF Inv
    <3>2. CASE NotifierNext /\ UNCHANGED inquiryVars
      BY <2>1, <3>2, NotifierStep, InquiryKept DEF Inv
    <3>3. CASE Restart
      BY <2>1, <3>3, RestartStep DEF Inv
    <3>4. CASE UNCHANGED vars
      BY <2>1, <3>4, InquiryKept, NotifierKept DEF Inv, vars
    <3> QED BY <2>1, <3>1, <3>2, <3>3, <3>4 DEF Next
  <2> QED BY <2>1
<1> QED BY <1>1, <1>2, PTL DEF Spec

(* An inquiry answered 00 can be paid and is recognised when the partner   *)
(* repeats it, unless the two were served at the same time or an error of  *)
(* the database was ignored.                                               *)
THEOREM AnswersCorrect == Spec => []AnswersAreRecorded
<1>1. Inv => AnswersAreRecorded
  <2>1. ASSUME RowInv, NEW r \in Reqs, Answer(r) = "00"
        PROVE  /\ r \in rows \cap payable \/ r \in missed
               /\ \A s \in Reqs \ {r} :
                    Answer(s) = "00" /\ refOf[r] = refOf[s]
                        => Met(r, s) \/ {r, s} \cap missed # {}
    <3>1. Passed(r) /\ Stored(r) /\ call[r].pc # "insert"
      BY <2>1 DEF Passed, Stored, Answer
    <3>2. r \in rows \cap payable \/ r \in missed
      BY <2>1, <3>1 DEF RowInv
    <3>3. ASSUME NEW s \in Reqs, Answer(s) = "00", refOf[r] = refOf[s], ~Met(r, s)
          PROVE  {r, s} \cap missed # {}
      <4>1. Passed(s) /\ Passed(r)
        BY <3>1, <3>3 DEF Passed
      <4>2. CASE r \in earlier[s]
        BY <2>1, <3>3, <4>1, <4>2 DEF RowInv
      <4>3. CASE s \in earlier[r]
        BY <2>1, <3>3, <4>1, <4>3 DEF RowInv
      <4> QED BY <3>3, <4>2, <4>3 DEF Met
    <3> QED BY <3>2, <3>3
  <2> QED BY <2>1 DEF AnswersAreRecorded, Inv, InquiryInv
<1> QED BY <1>1, InvCorrect, PTL

(* The partner is never shown an older state of the product than one it    *)
(* was shown before, unless Oracle changed during a fill or Redis failed.  *)
THEOREM PriceCorrect == Spec => []PriceNeverReturns
<1>1. Inv => PriceNeverReturns
  <2>1. ASSUME Inv, NEW s \in Reqs, NEW r \in earlier[s],
               seen[r] > seen[s], seen[s] # 0, ~crossed
        PROVE  FALSE
    <3>1. seen[r] <= seen[s]
      BY <2>1 DEF Inv, InquiryInv, PriceInv
    <3>2. earlier[s] \in SUBSET Reqs
      BY <2>1 DEF Inv, InquiryInv, InquiryTypes
    <3>3. seen[r] \in Nat /\ seen[s] \in Nat
      BY <2>1, <3>2 DEF Inv, InquiryInv, InquiryTypes
    <3> QED BY <2>1, <3>1, <3>3
  <2> QED BY <2>1 DEF PriceNeverReturns, Inv, InquiryInv, InquiryTypes
<1> QED BY <1>1, InvCorrect, PTL

(* Once all is quiet the partner was told the status of the payment that   *)
(* is stored, unless one of the gaps the code leaves open was hit.         *)
THEOREM StatusCorrect == Spec => []PartnerKnowsStatus
<1>1. Inv => PartnerKnowsStatus
  <2>1. ASSUME Inv, NEW p \in Payments, Quiet(p), gap[p] = {}
        PROVE  told[p] = stored[p]
    <3>1. /\ stored[p] = MaxUpdates /\ published[p] = Statuses \ {0}
          /\ InFlight(p) = {}
          /\ \A i \in DOMAIN queue : queue[i].payment # p
      BY <2>1 DEF Quiet
    <3>2. told[p] \in Statuses
      BY <2>1 DEF Inv, NotifierInv, NotifierTypes
    <3>3. MaxUpdates \in Nat /\ told[p] \in 0..MaxUpdates
      BY <3>2, NoStatusType DEF Statuses
    <3>4. CASE MaxUpdates = 0
      BY <3>1, <3>3, <3>4
    <3>5. CASE MaxUpdates # 0
      <4>1. MaxUpdates \in published[p]
        BY <3>1, <3>3, <3>5 DEF Statuses
      <4>2. ~Waiting(p, MaxUpdates)
        <5>1. DOMAIN queue = 1..Len(queue)
          BY <2>1 DEF Inv, NotifierInv, NotifierTypes
        <5> QED BY <3>1, <5>1 DEF Waiting
      <4>3. Knows(p, MaxUpdates)
        BY <2>1, <4>1, <4>2 DEF Inv, NotifierInv, PaymentInv
      <4> QED BY <3>1, <3>3, <4>3 DEF Knows
    <3> QED BY <3>4, <3>5
  <2> QED BY <2>1 DEF PartnerKnowsStatus
<1> QED BY <1>1, InvCorrect, PTL

-----------------------------------------------------------------------------
(* Steps that turn an inquiry away *)

(* The goroutine of a request is moved by its own steps only, or killed. *)
LEMMA OwnStep ==
    ASSUME InquiryTypes, CodeInv, [Next]_vars, NEW r \in Reqs, call'[r] # call[r],
           call'[r].pc # "dead"
    PROVE  Serve(r)
<1>1. CASE UNCHANGED vars \/ UNCHANGED inquiryVars
  BY <1>1 DEF vars, inquiryVars
<1>2. ASSUME NEW t \in Reqs, Serve(t), t # r
      PROVE  FALSE
  BY <1>2, ServeMoves DEF Moves
<1>3. CASE Background
  BY <1>3 DEF Background, SaveCutOff, Save, PaymentFills, LoadProducts, LoadCutOff,
              ProductChanges, CacheExpires, Tick
<1>4. CASE Restart
  <2>1. call'[r] = call[r] \/ call'[r].pc = "dead"
    BY <1>4, DieMoves DEF Restart
  <2> QED BY <2>1
<1> QED BY <1>1, <1>2, <1>3, <1>4 DEF Next, InquiryNext, Background

(* Only the INCR that exceeds the limit refuses: EXPIRE follows the first. *)
LEMMA Refused ==
    ASSUME InquiryTypes, CodeInv, NEW r \in Reqs, Serve(r),
           call'[r].pc = "done", call'[r].code = "23"
    PROVE  /\ now' = now /\ miscounted' = miscounted
           /\ counter'.count > Limit
<1>1. PICK pc \in Pcs, code \in Codes : Moves(r, pc, code)
  BY ServeMoves
<1>2. call[r].pc = "incr"
  BY <1>1 DEF Moves, Flows
<1>3. Incr(r)
  BY <1>2 DEF Serve, Arrive, Expire, ReadCutOff, CutOff, CheckRef, InsertRow, ReadCache,
              QueryOracle, CheckPln, StoreSuccess, InsertBills
<1>4. \A p \in {"incr", "expire", "cutoff"} : ~Go(r, p, "none")
  BY GoMoves DEF Pcs, Codes
<1>5. /\ counter' = [counter EXCEPT !.count = counter.count + 1]
      /\ ~Allowed(counter.count + 1)
      /\ miscounted' = miscounted
  BY <1>3, <1>4 DEF Incr
<1>6. counter'.count = counter.count + 1 /\ counter.count \in Nat /\ Limit \in Nat
  BY <1>5, WindowAssumption DEF InquiryTypes
<1> QED BY <1>3, <1>5, <1>6 DEF Incr, Allowed

LEMMA LimitStep ==
    ASSUME Inv, Inv', [Next]_vars, NEW r \in Reqs,
           Answer(r) = "none", Answer(r)' = "23", ~miscounted
    PROVE  Cardinality({s \in Reqs : /\ counted'[s] # None
                                     /\ counted'[s] + Window > now}) > Limit
<1> DEFINE C == {s \in Reqs : counted'[s] # None /\ counted'[s] + Window > now}
<1>1. InquiryTypes /\ CodeInv /\ InquiryTypes' /\ LimitInv'
  BY DEF Inv, InquiryInv
<1>2. call'[r].pc = "done" /\ call'[r].code = "23" /\ call[r] # call'[r]
  BY DEF Answer
<1>3. Serve(r)
  BY <1>1, <1>2, OwnStep
<1>4. now' = now /\ miscounted' = miscounted /\ counter'.count > Limit
  BY <1>1, <1>2, <1>3, Refused
<1>5. now \in Nat /\ Limit \in Nat /\ Window \in Nat \ {0} /\ counter'.count \in Nat
  BY <1>1, WindowAssumption DEF InquiryTypes
<1>6. counter'.count >= 1 /\ counter' # NoCounter
  BY <1>4, <1>5 DEF NoCounter
<1>7. Windows'
  BY <1>1, <1>4 DEF LimitInv
<1>8. PICK start \in Nat : /\ start <= now /\ now < start + Window
                           /\ counter'.count <= Cardinality(CountedSince(start)')
  <2>1. CASE counter'.count <= Cardinality(CountedSince(now)')
    <3>1. PICK start \in Nat : start = now
      BY <1>5
    <3>2. CountedSince(now)' = CountedSince(start)'
      BY <1>4, <3>1 DEF CountedSince
    <3> QED BY <1>5, <2>1, <3>1, <3>2
  <2>2. CASE \E start \in Nat : /\ start <= now' /\ now' < start + Window
                                /\ counter'.count <= Cardinality(CountedSince(start)')
    BY <1>4, <2>2
  <2> QED BY <1>6, <1>7, <2>1, <2>2 DEF Windows
<1>9. CountedSince(start)' \subseteq C
  BY <1>1, <1>5, <1>8, NoneAssumption DEF CountedSince, InquiryTypes
<1>10. IsFiniteSet(C) /\ IsFiniteSet(CountedSince(start)')
  <2>1. IsFiniteSet({s \in Reqs : counted'[s] # None})
    BY <1>1 DEF LimitInv
  <2>2. C \subseteq {s \in Reqs : counted'[s] # None}
    OBVIOUS
  <2>3. IsFiniteSet(C)
    BY <2>1, <2>2, FS_Subset
  <2> QED BY <1>9, <2>3, FS_Subset
<1>11. /\ Cardinality(CountedSince(start)') <= Cardinality(C)
       /\ Cardinality(C) \in Nat /\ Cardinality(CountedSince(start)') \in Nat
  BY <1>9, <1>10, FS_Subset, FS_CardinalityType
<1> QED BY <1>4, <1>5, <1>8, <1>11

(* An inquiry is refused with 23 only if the client did send more than     *)
(* Limit requests within one window, unless the counter had gone astray:   *)
(* its expiry failed, came late or was lost with the process; the reply to *)
(* the INCR that created it was lost; or an INCR was carried out twice.    *)
THEOREM LimitCorrect == Spec => LimitedIsOverLimit
<1>1. Inv /\ Inv' /\ [Next]_vars =>
        [\A r \in Reqs :
           Answer(r) = "none" /\ Answer(r)' = "23" =>
             \/ miscounted
             \/ Cardinality({s \in Reqs : /\ counted'[s] # None
                                          /\ counted'[s] + Window > now}) > Limit]_inquiryVars
  BY LimitStep
<1> QED BY <1>1, InvCorrect, PTL DEF Spec, LimitedIsOverLimit

(* What is left of the day's clock after the start of the window. *)
LEMMA SinceStart ==
    ASSUME NEW d \in Nat \ {0}, NEW n \in Nat, NEW c \in 0..(d - 1), n % d >= c
    PROVE  /\ n % d \in Nat
           /\ (n + d - c) % d = (n % d) - c
<1>1. PICK y \in 0..(d - 1) : y = n % d
  OBVIOUS
<1>2. PICK q \in Nat : n = d * q + y
  <2>1. n \div d \in Nat /\ n = d * (n \div d) + (n % d)
    OBVIOUS
  <2> QED BY <1>1, <2>1
<1>3. y - c \in Nat /\ y - c < d
  BY <1>1
<1>4. n + d - c = d * (q + 1) + (y - c)
  BY <1>2
<1>5. \A p \in Nat, x \in Nat : x < d => (d * p + x) % d = x
  OBVIOUS
<1>6. q + 1 \in Nat
  OBVIOUS
<1>7. (d * (q + 1) + (y - c)) % d = y - c
  BY <1>3, <1>5, <1>6
<1> QED BY <1>1, <1>4, <1>7

LEMMA CutOffStep ==
    ASSUME Inv, [Next]_vars, NEW r \in Reqs, NEW w \in CutWindows,
           call[r].pc = "window", call'[r].pc = "ref",
           KeysOf(w) \subseteq held,
           (now + Day - cutStart[w]) % Day <= cutDuration[w]
    PROVE  \/ now % Day < cutStart[w]
           \/ faults' > faults
           \/ /\ cutKeys \cap Starts # {} /\ ~(KeysOf(w) \subseteq found[r])
              /\ \/ ~(cutSaving \subseteq cutKeys)
                 \/ found[r] # cutKeys
                 \/ unset
<1>1. InquiryTypes /\ CodeInv /\ CutInv
  BY DEF Inv, InquiryInv
<1>2. Serve(r)
  BY <1>1, OwnStep
<1>3. CutOff(r)
  BY <1>2 DEF Serve, Arrive, Incr, Expire, ReadCutOff, CheckRef, InsertRow, ReadCache,
              QueryOracle, CheckPln, StoreSuccess, InsertBills
<1>4. ~Go(r, "done", "61")
  BY <1>1, GoMoves DEF Pcs, Codes
<1>5. SUFFICES ASSUME ~(faults' > faults), now % Day >= cutStart[w]
               PROVE  /\ cutKeys \cap Starts # {} /\ ~(KeysOf(w) \subseteq found[r])
                      /\ \/ ~(cutSaving \subseteq cutKeys)
                         \/ found[r] # cutKeys
                         \/ unset
  BY <1>1, WindowAssumption DEF InquiryTypes
<1>6. ~Fault
  BY <1>1, <1>5 DEF Fault, InquiryTypes
<1>7. PICK read \in SUBSET cutKeys :
         /\ found[r] \subseteq read
         /\ \/ read \cap Starts # {} /\ ~InForce(read, now % Day)
            \/ ~InForce(held, now % Day)
  BY <1>3, <1>4, <1>5, <1>6 DEF CutOff, OracleCutOff, Judge
<1>8. WithinCutOffWindow(w, now % Day)
  <2>1. /\ now \in Nat /\ Day \in Nat \ {0} /\ cutStart[w] \in 0..(Day - 1)
        /\ cutStart[w] \in Nat /\ cutDuration[w] \in Nat
    BY <1>1, WindowAssumption DEF InquiryTypes
  <2>2. /\ now % Day \in Nat
        /\ (now + Day - cutStart[w]) % Day = (now % Day) - cutStart[w]
    BY <1>5, <2>1, SinceStart
  <2>3. now % Day <= cutStart[w] + cutDuration[w]
    BY <2>1, <2>2
  <2> QED BY <1>5, <2>3 DEF WithinCutOffWindow
<1>9. InForce(held, now % Day)
  BY <1>8 DEF InForce
<1>10. read \cap Starts # {} /\ ~InForce(read, now % Day)
  BY <1>7, <1>9
<1>11. ~(KeysOf(w) \subseteq read)
  BY <1>8, <1>10 DEF InForce
<1>12. cutKeys \cap Starts # {} /\ ~(KeysOf(w) \subseteq found[r])
  BY <1>7, <1>10, <1>11
<1>13. ASSUME cutSaving \subseteq cutKeys, found[r] = cutKeys, ~unset
       PROVE  FALSE
  BY <1>1, <1>12, <1>13 DEF CutInv
<1> QED BY <1>12, <1>13

(* During a cut-off of either window no inquiry gets through, except after *)
(* midnight, when a read of Redis or Oracle fails, and when Redis had some *)
(* start but not both keys of the window: while goroutines set the keys,   *)
(* or after a failed command or a crash left one unset.                    *)
THEOREM CutOffCorrect == Spec => CutOffHolds
<1>1. Inv /\ [Next]_vars =>
        [\A r \in Reqs, w \in CutWindows :
           /\ call[r].pc = "window" /\ call'[r].pc = "ref"
           /\ KeysOf(w) \subseteq held
           /\ (now + Day - cutStart[w]) % Day <= cutDuration[w]
           => \/ now % Day < cutStart[w]
              \/ faults' > faults
              \/ /\ cutKeys \cap Starts # {} /\ ~(KeysOf(w) \subseteq found[r])
                 /\ \/ ~(cutSaving \subseteq cutKeys)
                    \/ found[r] # cutKeys
                    \/ unset]_inquiryVars
  BY CutOffStep
<1> QED BY <1>1, InvCorrect, PTL DEF Spec, CutOffHolds

=============================================================================
