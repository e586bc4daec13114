--------------------------- MODULE StatusNotifier ----------------------------
(***************************************************************************)
(* pps-services-tokopedia: the consumer of the callback queue.  For every  *)
(* message it reads the payment's status in PostgreSQL, starts a goroutine *)
(* that posts it to the partner, and acknowledges the message at once.     *)
(* Another service updates the status (payment_status_onupdate) and sends  *)
(* the messages; it is not in the repository, so nothing is assumed of the *)
(* order in which it does the two.                                         *)
(***************************************************************************)
EXTENDS Naturals, Sequences

CONSTANTS
    Payments,
    MaxUpdates,    \* bound: updates of a payment's status
    MaxCallFaults, \* bound: failed reads and posts, undecodable messages
    MaxDrops       \* bound: lost connections

ASSUME NotifierAssumption == {MaxUpdates, MaxCallFaults, MaxDrops} \subseteq Nat

VARIABLES
    stored,    \* payment_responses: how often the status was updated
    published, \* per payment: updates whose message was sent
    queue,     \* the callback queue; prefetch is 1
    handling,  \* the consumer: the status it read for the head, or NoStatus
    started,   \* the goroutine for the head runs, its ack is due
    posting,   \* per payment: statuses of goroutines that have not posted yet
    told,      \* per payment: the status the partner was told last
    gap,       \* history, per payment: why its last notification may be old
    callFaults, drops

notifierVars == <<stored, published, queue, handling, started, posting, told,
                  gap, callFaults, drops>>

(* A status is the number of the update that wrote it; 0 is "01". *)
Statuses == 0..MaxUpdates
NoStatus == MaxUpdates + 1
Gaps == {"overtook", "overlap", "fallback", "failed", "crash"}

NotifierInit ==
    /\ stored = [p \in Payments |-> 0]
    /\ published = [p \in Payments |-> {}]
    /\ queue = <<>>
    /\ handling = NoStatus
    /\ started = FALSE
    /\ posting = [p \in Payments |-> [s \in Statuses |-> 0]]
    /\ told = [p \in Payments |-> 0]
    /\ gap = [p \in Payments |-> {}]
    /\ callFaults = 0 /\ drops = 0

CallFault == callFaults < MaxCallFaults /\ callFaults' = callFaults + 1
Note(p, why) == gap' = [gap EXCEPT ![p] = @ \cup why]
InFlight(p) == {s \in Statuses : posting[p][s] > 0}
Requests(p, s, n) == posting' = [posting EXCEPT ![p][s] = n]

-----------------------------------------------------------------------------
(* The other service *)

Update(p) ==
    /\ stored[p] < MaxUpdates
    /\ stored' = [stored EXCEPT ![p] = @ + 1]
    /\ UNCHANGED <<published, queue, handling, started, posting, told, gap,
                   callFaults, drops>>

Send(p, s) ==
    /\ s \notin published[p]
    /\ published' = [published EXCEPT ![p] = @ \cup {s}]
    /\ queue' = Append(queue, [payment |-> p, status |-> s])
    /\ UNCHANGED <<stored, handling, started, posting, told, gap, callFaults,
                   drops>>

-----------------------------------------------------------------------------
(* ListenCallbackQueue *)

Idle == queue # <<>> /\ handling = NoStatus /\ ~started

(* A message that cannot be decoded is dropped. *)
Reject ==
    /\ Idle
    /\ CallFault
    /\ queue' = Tail(queue)
    /\ Note(Head(queue).payment, {"failed"})
    /\ UNCHANGED <<stored, published, handling, started, posting, told, drops>>

(* Mutation: the status of the message is passed on as it is. *)
MutStatusFor(m) == m.status

(* GetPaymentStatusByRefID: the stored status replaces the message's. *)
StatusFor(m) == stored[m.payment]

(* Without the database the status of the message is used. *)
ReadStatus ==
    /\ Idle
    /\ LET m == Head(queue)
           early == IF stored[m.payment] < m.status THEN {"overtook"} ELSE {}
           late  == IF stored[m.payment] > m.status THEN {"fallback"} ELSE {} IN
       \/ /\ handling' = StatusFor(m)
          /\ Note(m.payment, early)
          /\ UNCHANGED callFaults
       \/ /\ CallFault
          /\ handling' = m.status
          /\ Note(m.payment, early \cup late)
    /\ UNCHANGED <<stored, published, queue, started, posting, told, drops>>

(* go u.CallbackToTokopedia: the loop does not wait for it.  Two of them   *)
(* for one payment may post in either order.                               *)
StartPost ==
    /\ handling # NoStatus
    /\ LET p == Head(queue).payment IN
       /\ Requests(p, handling, posting[p][handling] + 1)
       /\ Note(p, IF InFlight(p) \ {handling} # {} THEN {"overlap"} ELSE {})
    /\ handling' = NoStatus
    /\ started' = TRUE
    /\ UNCHANGED <<stored, published, queue, told, callFaults, drops>>

Ack ==
    /\ started
    /\ started' = FALSE
    /\ queue' = Tail(queue)
    /\ UNCHANGED <<stored, published, handling, posting, told, gap, callFaults,
                   drops>>

(* CallbackToTokopedia.  Whatever the partner answers is logged; a post    *)
(* that fails, before or after the partner took it, is never repeated.     *)
Post(p, s) ==
    /\ posting[p][s] > 0
    /\ Requests(p, s, posting[p][s] - 1)
    /\ \/ /\ told' = [told EXCEPT ![p] = s]
          /\ UNCHANGED <<gap, callFaults>>
       \/ /\ CallFault
          /\ Note(p, {"failed"})
          /\ UNCHANGED told
    /\ UNCHANGED <<stored, published, queue, handling, started, drops>>

-----------------------------------------------------------------------------
(* Lost connections and the process *)

(* The broker keeps what was not acknowledged; the loop still finishes the *)
(* message in hand, whose ack then fails, and reads it again.              *)
ConnectionLost ==
    /\ drops < MaxDrops
    /\ drops' = drops + 1
    /\ queue # <<>>
    /\ started
    /\ started' = FALSE
    /\ UNCHANGED <<stored, published, queue, handling, posting, told, gap,
                   callFaults>>

(* The process dies with its goroutines; the message in hand comes back. *)
NotifierDies ==
    /\ handling' = NoStatus
    /\ started' = FALSE
    /\ posting' = [p \in Payments |-> [s \in Statuses |-> 0]]
    /\ gap' = [p \in Payments |->
                 IF InFlight(p) # {} THEN gap[p] \cup {"crash"} ELSE gap[p]]
    /\ UNCHANGED <<stored, published, queue, told, callFaults, drops>>

NotifierNext == \/ \E p \in Payments : \/ Update(p)
                                       \/ \E s \in Statuses \ {0} : Send(p, s)
                                       \/ \E s \in Statuses : Post(p, s)
                \/ Reject
                \/ ReadStatus
                \/ StartPost
                \/ Ack
                \/ ConnectionLost

-----------------------------------------------------------------------------
(* Properties *)

(* Nothing about this payment is under way any more. *)
Quiet(p) == /\ stored[p] = MaxUpdates
            /\ published[p] = Statuses \ {0}
            /\ \A i \in DOMAIN queue : queue[i].payment # p
            /\ InFlight(p) = {}

(* Reading the status again makes late, repeated and reordered messages    *)
(* harmless: once all is quiet the partner was told the status that is     *)
(* stored, unless a message overtook its own update, two posts for the     *)
(* payment overlapped, a read or a post failed, or the process died while  *)
(* it was posting.                                                         *)
PartnerKnowsStatus ==
    \A p \in Payments : Quiet(p) /\ gap[p] = {} => told[p] = stored[p]
=============================================================================
