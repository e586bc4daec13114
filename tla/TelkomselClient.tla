--------------------------- MODULE TelkomselClient ---------------------------
(***************************************************************************)
(* How pkg/telkomsel classifies an HTTP exchange with the provider, and    *)
(* what the consumer decides from the result.  No state: operators only.   *)
(*                                                                         *)
(* A reply is abstracted to its class (transport failure, edge rejection   *)
(* page, HTTP status family) and to the transaction.status_code its body   *)
(* carries ("unparsable" when the body is not the expected JSON).          *)
(***************************************************************************)

Classes == {"network", "rejected", "http5xx", "http4xx", "http200"}
Codes   == {"", "00000", "other"}
Replies == [class : Classes, body : Codes \cup {"unparsable"}]

(* What a client call returns: the error's type, the status code a caller  *)
(* can still read, from the response or from the error.                    *)
Result(err, code) == [err |-> err, code |-> code]

NoResponse(rep) == \/ rep.class \in {"network", "http5xx"}
                   \/ rep.class = "http200" /\ rep.body = "unparsable"

(* Only "00000" is a success; every other code, the empty one included, is *)
(* returned as a BusinessError carrying it.                                *)
OnHttp200(rep) == IF rep.body = "00000" THEN Result("none", "00000")
                                        ELSE Result("business", rep.body)

(* doInitiateRegularRecharge: on HTTP 4xx the body is still parsed, so the *)
(* caller sees its code next to the TechnicalError.                        *)
InitiateResult(rep) ==
    IF rep.class = "rejected"     THEN Result("rejected", "")
    ELSE IF NoResponse(rep)       THEN Result("technical", "")
    ELSE IF rep.class = "http200" THEN OnHttp200(rep)
    ELSE Result("technical", IF rep.body = "unparsable" THEN "" ELSE rep.body)

(* doOrderDealer: an HTTP 4xx body is not parsed.                          *)
OrderDealerResult(rep) ==
    IF rep.class = "rejected"                        THEN Result("rejected", "")
    ELSE IF NoResponse(rep) \/ rep.class = "http4xx" THEN Result("technical", "")
    ELSE OnHttp200(rep)

(* doCheckOrderStatus: an HTTP 4xx body counts when it has an error code.  *)
CheckResult(rep) ==
    IF rep.class = "rejected"                          THEN Result("rejected", "none")
    ELSE IF NoResponse(rep)                            THEN Result("technical", "none")
    ELSE IF rep.class = "http200" \/ rep.body = "other" THEN OnHttp200(rep)
    ELSE Result("technical", "none")

-----------------------------------------------------------------------------
(* Outcomes: "F" finish, "C" cancel, "S" in process, "retry" hand over to  *)
(* the status-check goroutine, "again" another attempt, and "return", the  *)
(* branch that publishes "C" and then leaves the consumer goroutine.       *)
Outcomes == {"F", "C", "S", "retry", "return"}
RCs == {0, 1, 9}

ByRc(rc, onZero) == IF rc = 0 THEN onZero ELSE IF rc = 1 THEN "C" ELSE "retry"

(* The pulsa branch: the mapped rc counts on an error that has a code.     *)
PulsaOutcome(res, rc) ==
    IF res.err = "none" /\ res.code = ""          THEN "return"
    ELSE IF res.err = "rejected" \/ res.code = "" THEN "C"
    ELSE ByRc(rc, "F")

(* Mutation: an accepted dealer order is reported as finished. *)
MutDataOutcome(res, rc) ==
    IF res.err # "none"  THEN "C"
    ELSE IF res.code = "" THEN "return"
    ELSE ByRc(rc, "F")

(* The data branch: any OrderDealer error is a failure; acceptance is "S". *)
DataOutcome(res, rc) ==
    IF res.err # "none"  THEN "C"
    ELSE IF res.code = "" THEN "return"
    ELSE ByRc(rc, "S")

(* One attempt of either status-check loop ("none": no parsed response).   *)
CheckOutcome(res, rc) ==
    IF res.err = "rejected" \/ res.code = "" THEN "C"
    ELSE IF res.code = "none" \/ rc = 9      THEN "again"
    ELSE IF rc = 1                           THEN "C"
    ELSE "F"

-----------------------------------------------------------------------------
(* What can come out, given what the provider made of the order: taken     *)
(* (accepted, or completed where only completion counts) and/or denied     *)
(* (refused, failed or never received).  Assumed of the provider and of    *)
(* the operators' mapping table ("0 = sukses, 1 = gagal, 9 = pending"):    *)
(* "00000" and rc 0 only for a taken order, rc 1 only for a denied one.    *)
(* Everything else, from timeouts to unmapped codes, may happen either way.*)
Truthful(rep, rc, taken, denied) ==
    /\ rep.class = "http200" /\ rep.body = "00000" => taken
    /\ rc = 0 => taken
    /\ rc = 1 => denied

PulsaOutcomes == [taken \in BOOLEAN |-> [denied \in BOOLEAN |->
    {out \in Outcomes : \E rep \in Replies, rc \in RCs :
        /\ Truthful(rep, rc, taken, denied)
        /\ out = PulsaOutcome(InitiateResult(rep), rc)}]]

DataOutcomes == [taken \in BOOLEAN |-> [denied \in BOOLEAN |->
    {out \in Outcomes : \E rep \in Replies, rc \in RCs :
        /\ Truthful(rep, rc, taken, denied)
        /\ out = DataOutcome(OrderDealerResult(rep), rc)}]]

CheckOutcomes == [taken \in BOOLEAN |-> [denied \in BOOLEAN |->
    {out \in {"F", "C", "again"} : \E rep \in Replies, rc \in RCs :
        /\ Truthful(rep, rc, taken, denied)
        /\ out = CheckOutcome(CheckResult(rep), rc)}]]
=============================================================================
