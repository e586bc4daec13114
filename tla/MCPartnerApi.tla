---------------------------- MODULE MCPartnerApi -----------------------------
(* A small instance of PartnerApi for TLC. *)
EXTENDS PartnerApi

CONSTANTS r1, r2, r3, f1, p1

OneRef == [r \in {r1, r2, r3} |-> f1]

(* The second window is in force until midnight, and past it in Oracle. *)
Start    == [general |-> 1, tokopedia |-> 2]
Duration == [general |-> 1, tokopedia |-> 2]
AllHeld  == {"general", "tokopedia"} \X {"start", "duration"}

(* The inquiries in active have yet to come, those in begun are past the   *)
(* rate limit, and the others were refused before.                         *)
Waiting(active, begun) ==
    call = [r \in Reqs |->
              IF r \in active THEN [pc |-> "idle", code |-> "none"]
              ELSE IF r \in begun THEN [pc |-> "cutoff", code |-> "none"]
              ELSE [pc |-> "done", code |-> "62"]]

(* Nothing was counted yet, or the third inquiry was, a moment ago. *)
Uncounted == counter = NoCounter /\ counted = [r \in Reqs |-> None]
Counted   == /\ counter = [count |-> 1, expires |-> now + Window]
             /\ counted = [[r \in Reqs |-> None] EXCEPT ![r3] = now]

(* The messages about the payments, and no inquiry. *)
Messages ==
    /\ Waiting({}, {})
    /\ now = MaxNow /\ version = MaxVersion /\ faults = MaxFaults
    /\ booting = {} /\ cutKeys = held /\ plnCached = FALSE
    /\ crashes = 0 /\ payFills = MaxPayFills /\ Uncounted
    /\ stored = [p \in Payments |-> 0]

(* What may still happen besides the inquiries. *)
OneFault   == faults = 0 /\ crashes = MaxCrashes /\ payFills = MaxPayFills
OneCrash   == faults = MaxFaults /\ crashes = 0 /\ payFills = MaxPayFills
OnePayment == faults = MaxFaults /\ crashes = MaxCrashes /\ payFills = 0

(* No message: one inquiry at any time of the day; the same inquiry twice  *)
(* while the product changes; two inquiries after a third one while the    *)
(* window of the rate limit passes.                                        *)
Inquiries ==
    /\ \/ /\ Waiting({r1}, {}) /\ Uncounted
          /\ now \in 0..(Day - 1) /\ version = MaxVersion
          /\ booting = {"cutoff"} /\ cutKeys = {} /\ plnCached = FALSE
          /\ OneFault \/ OneCrash \/ OnePayment
       \/ /\ Waiting({r2}, {r1}) /\ Uncounted
          /\ now = MaxNow /\ version = 1
          /\ booting = {"products"} /\ cutKeys = held /\ plnCached = TRUE
          /\ OneFault \/ OneCrash \/ OnePayment
       \/ /\ Waiting({r1, r2}, {})
          /\ now = cutStart["tokopedia"] /\ version = MaxVersion
          /\ booting = {} /\ cutKeys = held /\ plnCached = FALSE
          /\ \/ OneFault /\ (Uncounted \/ Counted)
             \/ OneCrash /\ Uncounted
    /\ stored = [p \in Payments |-> MaxUpdates]

MCInit ==
    /\ Messages \/ Inquiries
    /\ rows = {} /\ payable = {}
    /\ cached = None
    /\ saving = [x \in Reqs \cup Others |-> None]
    /\ cutSaving = {} /\ found = [r \in Reqs |-> {}]
    /\ seen = [r \in Reqs |-> 0]
    /\ earlier = [r \in Reqs |-> {}]
    /\ missed = {} /\ miscounted = FALSE /\ crossed = FALSE
    /\ unset = FALSE
    /\ published = [p \in Payments |-> 1..stored[p]]
    /\ queue = <<>> /\ handling = NoStatus /\ started = FALSE
    /\ posting = [p \in Payments |-> [s \in Statuses |-> 0]]
    /\ told = stored
    /\ gap = [p \in Payments |-> {}]
    /\ callFaults = 0 /\ drops = 0

MCSpec == MCInit /\ [][Next]_vars
=============================================================================
