------------------------------ MODULE Fulfilment -----------------------------
(***************************************************************************)
(* pps-services-consumer composed with the provider gateways.  The         *)
(* consumer takes new orders from a transaction queue (prefetch 1, manual  *)
(* ack), registers and sells them in Oracle, forwards them to the provider *)
(* gateway over HTTP, and hands the statuses that come back over the same  *)
(* queue to Oracle.  The gateways are OrderGateway, which each of the      *)
(* three gateway modules implements.                                       *)
(*                                                                         *)
(* One goroutine runs per broker connection of a queue.  It outlives its   *)
(* connection while it works on a message, and all of them share one pool  *)
(* of database connections that any of them may close.                     *)
(***************************************************************************)
EXTENDS Naturals, Sequences, SequencesExt

CONSTANTS
    Orders, Queues,
    queueOf,      \* the transaction queue of an order
    Sessions,     \* bound: goroutines at a time
    None,
    MaxRetries,   \* PUBLISHER_PROVIDER_MAX_RETRIES
    MaxTells,     \* bound: statuses a gateway tells of one order
    MaxFaults,    \* bound: failed database calls
    MaxLosses     \* bound: lost broker connections, process restarts

ASSUME QueueAssumption   == queueOf \in [Orders -> Queues]
ASSUME SessionAssumption == Sessions \subseteq Nat /\ None \notin Sessions
ASSUME OrderAssumption   == None \notin Orders /\ IsFiniteSet(Orders)
ASSUME RetryAssumption   == MaxRetries \in Nat \ {0}
ASSUME BoundAssumption   == {MaxTells, MaxFaults, MaxLosses} \subseteq Nat

VARIABLES
    kind,       \* per order: what its first message asks for
    queue,      \* per queue: messages waiting, the oldest first
    conn,       \* per queue: the session whose connection is up, or None
    session,    \* the ConsumerFIFO goroutine of each connection
    pool,       \* generation of the open database pool, or None
    opened,     \* generations opened so far
    sold,       \* orders sold in Oracle (external)
    refused,    \* orders Oracle refused (external)
    applied,    \* per order: its statuses Oracle took, by position
    overtaken,  \* history: orders with an old status taken after a newer one
    forwarded,  \* orders that reached the provider's gateway
    statuses,   \* per order: the statuses its gateway told, in order
    completed, live, excused,  \* the gateway's, see OrderGateway
    gap,        \* history, per order: where it was lost
    faults, losses

gatewayVars == <<statuses, completed, live, excused>>
oracleVars  == <<sold, refused, applied, overtaken>>
vars == <<kind, queue, conn, session, pool, opened, oracleVars, forwarded,
          gatewayVars, gap, faults, losses>>

(* The provider's part: orders are tops of the gateway's own queue. *)
Gateway == INSTANCE OrderGateway WITH
    Msgs <- Orders, told <- [o \in Orders |-> Range(statuses[o])]

Final == Gateway!Final

(* An order for a provider; one that Oracle fulfils itself (no remarkImsi);*)
(* one in the old format, which is never forwarded; an unusable message.   *)
Kinds == {"provider", "local", "legacy", "invalid"}

(* Position 0 is the order itself, position n its n-th status. *)
Messages == [order : Orders, n : 0..MaxTells]
NoMessage == [order |-> None, n |-> 0]

Pcs == {"free", "idle", "connect", "reset", "exec", "forward", "ack"}
(* The stored procedure being called: updPreOrderConsume,                  *)
(* request2JualRandomWithID, SETTRANSACTIONSTATUS. *)
Calls == {"upd", "sell", "set"}
(* What follows ResetPool: another GetConnection for the same call, a      *)
(* second execution of the call, or its failure.                           *)
Thens == {"first", "connect", "retry", "reconnect", "fail"}

Fresh == [pc |-> "free", queue |-> None, msg |-> NoMessage, call |-> "upd",
          then |-> "first", db |-> None, try |-> 0]

Init ==
    /\ kind \in [Orders -> Kinds]
    /\ queue = [q \in Queues |->
                  SetToSeq({[order |-> o, n |-> 0] :
                              o \in {x \in Orders : queueOf[x] = q}})]
    /\ conn = [q \in Queues |-> None]
    /\ session = [s \in Sessions |-> Fresh]
    /\ pool = 1 /\ opened = 1
    /\ sold = {} /\ refused = {} /\ overtaken = {} /\ forwarded = {}
    /\ applied = [o \in Orders |-> {}]
    /\ statuses = [o \in Orders |-> <<>>]
    /\ completed = {} /\ live = {} /\ excused = {}
    /\ gap = [o \in Orders |-> {}]
    /\ faults = 0
    /\ losses = 0

-----------------------------------------------------------------------------
(* Helpers *)

Fault == faults < MaxFaults /\ faults' = faults + 1

Goto(s, pc) == session' = [session EXCEPT ![s].pc = pc]
(* The message is done with, whatever became of it: resultOK. *)
Finish(s) == session' = [session EXCEPT ![s] =
               [@ EXCEPT !.pc = "ack", !.call = "upd", !.then = "first",
                         !.db = None, !.try = 0]]
Call(s, call) == session' = [session EXCEPT ![s] =
                   [@ EXCEPT !.pc = "connect", !.call = call, !.then = "first",
                             !.db = None]]
Reset(s, then) == session' = [session EXCEPT ![s] =
                    [@ EXCEPT !.pc = "reset", !.then = then]]

OrderOf(s)  == session[s].msg.order
StatusOf(s) == statuses[OrderOf(s)][session[s].msg.n]

(* The call failed for good.  Its error is logged, the message is finished *)
(* and nothing is left to do the rest of its work.                         *)
Lost(s, why) ==
    gap' = [gap EXCEPT ![OrderOf(s)] = @ \cup
              (IF session[s].call = "set" /\ StatusOf(s) \notin Final
               THEN {} ELSE {<<session[s].call, why>>})]

-----------------------------------------------------------------------------
(* runConsumerWithReconnect and ConsumerFIFO: one message at a time *)

(* A new connection does not wait for the goroutine of the old one. *)
Dial(q, s) ==
    /\ conn[q] = None
    /\ session[s].pc = "free"
    /\ \A t \in Sessions : t < s => session[t].pc # "free"
    /\ conn' = [conn EXCEPT ![q] = s]
    /\ session' = [session EXCEPT ![s].pc = "idle", ![s].queue = q]
    /\ UNCHANGED <<kind, queue, pool, opened, oracleVars, forwarded,
                   gatewayVars, gap, faults, losses>>

(* Mutation: a message that cannot be parsed ends the goroutine. *)
MutDeliver(s) ==
    LET q == session[s].queue  m == Head(queue[q]) IN
    /\ session[s].pc = "idle" /\ conn[q] = s /\ queue[q] # <<>>
    /\ queue' = [queue EXCEPT ![q] = Tail(@)]
    /\ session' = [session EXCEPT ![s] =
         IF kind[m.order] = "invalid" THEN Fresh
         ELSE [@ EXCEPT !.msg = m, !.pc = "connect",
                        !.call = IF m.n = 0 THEN "upd" ELSE "set"]]
    /\ UNCHANGED <<kind, conn, pool, opened, oracleVars, forwarded,
                   gatewayVars, gap, faults, losses>>

(* ProsesDataFIFO: a message that cannot be parsed is dropped. *)
Deliver(s) ==
    LET q == session[s].queue  m == Head(queue[q]) IN
    /\ session[s].pc = "idle"
    /\ conn[q] = s
    /\ queue[q] # <<>>
    /\ queue' = [queue EXCEPT ![q] = Tail(@)]
    /\ session' = [session EXCEPT ![s] =
         [@ EXCEPT !.msg = m,
                   !.pc = IF kind[m.order] = "invalid" THEN "ack" ELSE "connect",
                   !.call = IF m.n = 0 THEN "upd" ELSE "set"]]
    /\ UNCHANGED <<kind, conn, pool, opened, oracleVars, forwarded,
                   gatewayVars, gap, faults, losses>>

(* On a connection that died the ack fails and the goroutine ends. *)
Ack(s) ==
    /\ session[s].pc = "ack"
    /\ session' = [session EXCEPT ![s] =
         IF conn[session[s].queue] = s
         THEN [Fresh EXCEPT !.pc = "idle", !.queue = session[s].queue]
         ELSE Fresh]
    /\ UNCHANGED <<kind, queue, conn, pool, opened, oracleVars, forwarded,
                   gatewayVars, gap, faults, losses>>

-----------------------------------------------------------------------------
(* The shared database pool: GetConnection, InitDBPool, ResetPool *)

(* Whoever gets the pool keeps the handle, also when the pool is closed.   *)
GetConnection(s) ==
    /\ session[s].pc = "connect"
    /\ IF pool # None THEN UNCHANGED <<pool, opened>>
                      ELSE pool' = opened + 1 /\ opened' = opened + 1
    /\ session' = [session EXCEPT ![s].pc = "exec", ![s].db = pool']
    /\ UNCHANGED <<kind, queue, conn, oracleVars, forwarded, gatewayVars, gap,
                   faults, losses>>

(* getConnectionWithRetry: the first failure resets the pool once more. *)
GetConnectionFails(s) ==
    /\ session[s].pc = "connect"
    /\ pool = None
    /\ Fault
    /\ \/ /\ session[s].then \in {"first", "retry"}
          /\ Reset(s, IF session[s].then = "first" THEN "connect" ELSE "reconnect")
          /\ UNCHANGED gap
       \/ /\ session[s].then \in {"connect", "reconnect"}
          /\ Finish(s)
          /\ Lost(s, "connect")
    /\ UNCHANGED <<kind, queue, conn, pool, opened, oracleVars, forwarded,
                   gatewayVars, losses>>

(* It closes the pool that is open now, which may not be the one that      *)
(* failed.                                                                 *)
ResetPool(s) ==
    /\ session[s].pc = "reset"
    /\ pool' = None
    /\ IF session[s].then = "fail"
       THEN Finish(s) /\ Lost(s, "fault")
       ELSE Goto(s, "connect") /\ UNCHANGED gap
    /\ UNCHANGED <<kind, queue, conn, opened, oracleVars, forwarded,
                   gatewayVars, faults, losses>>

-----------------------------------------------------------------------------
(* UpdPreOrderConsume, SellWithId, SetTransactionStatus *)

Open(s) == session[s].db = pool

(* A statement on a pool somebody closed fails with "sql: database is      *)
(* closed", which isConnectionError does not know: no reset, no retry.     *)
ExecOnClosedPool(s) ==
    /\ session[s].pc = "exec"
    /\ ~Open(s)
    /\ Finish(s)
    /\ Lost(s, "closed")
    /\ UNCHANGED <<kind, queue, conn, pool, opened, oracleVars, forwarded,
                   gatewayVars, faults, losses>>

(* What the procedures change.  updPreOrderConsume decides nothing here.   *)
Execute(s) ==
    LET o == OrderOf(s)  n == session[s].msg.n IN
    CASE session[s].call = "upd"  -> UNCHANGED oracleVars
      [] session[s].call = "sell" -> /\ sold' = sold \cup {o}
                                     /\ UNCHANGED <<refused, applied, overtaken>>
      [] session[s].call = "set"  ->
           /\ applied' = [applied EXCEPT ![o] = @ \cup {n}]
           /\ overtaken' = IF \E later \in applied[o] : later > n
                           THEN overtaken \cup {o} ELSE overtaken
           /\ UNCHANGED <<sold, refused>>

Exec(s) ==
    LET o == OrderOf(s) IN
    /\ session[s].pc = "exec"
    /\ Open(s)
    /\ Execute(s)
    /\ CASE session[s].call = "upd" -> Call(s, "sell")
         [] session[s].call = "sell" /\ kind[o] = "provider" -> Goto(s, "forward")
         [] OTHER -> Finish(s)
    /\ UNCHANGED <<kind, queue, conn, pool, opened, forwarded, gatewayVars,
                   gap, faults, losses>>

(* OutError = 1 of the first procedure, status "1" of the second.  Oracle  *)
(* may refuse the repetition of an order it already sold, which nobody     *)
(* forwards then.                                                          *)
OracleRefuses(s) ==
    LET o == OrderOf(s) IN
    /\ session[s].pc = "exec"
    /\ Open(s)
    /\ session[s].call \in {"upd", "sell"}
    /\ refused' = refused \cup {o}
    /\ Finish(s)
    /\ IF o \in sold \ forwarded THEN Lost(s, "sold") ELSE UNCHANGED gap
    /\ UNCHANGED <<kind, queue, conn, pool, opened, sold, applied, overtaken,
                   forwarded, gatewayVars, faults, losses>>

(* A connection error: the procedure may have run.  Only                   *)
(* SetTransactionStatus is tried again, once, and then gives up without    *)
(* another reset.                                                          *)
ConnectionError(s) ==
    LET second == session[s].then \in {"retry", "reconnect"} IN
    /\ session[s].pc = "exec"
    /\ Open(s)
    /\ Fault
    /\ Execute(s) \/ UNCHANGED oracleVars
    /\ IF second THEN Finish(s) /\ Lost(s, "fault")
       ELSE /\ Reset(s, IF session[s].call = "set" THEN "retry" ELSE "fail")
            /\ UNCHANGED gap
    /\ UNCHANGED <<kind, queue, conn, pool, opened, forwarded, gatewayVars,
                   losses>>

(* Mutation: an error of the sale is logged and the order forwarded. *)
MutStatementError(s) ==
    /\ session[s].pc = "exec"
    /\ Open(s)
    /\ Fault
    /\ Lost(s, "fault")
    /\ IF session[s].call = "sell" THEN Goto(s, "forward") ELSE Finish(s)
    /\ UNCHANGED <<kind, queue, conn, pool, opened, oracleVars, forwarded,
                   gatewayVars, losses>>

(* Any other error: the procedure raised it and changed nothing. *)
StatementError(s) ==
    /\ session[s].pc = "exec"
    /\ Open(s)
    /\ Fault
    /\ Finish(s)
    /\ Lost(s, "fault")
    /\ UNCHANGED <<kind, queue, conn, pool, opened, oracleVars, forwarded,
                   gatewayVars, losses>>

(* The order reaches the queue of its gateway. *)
Reach(o) == forwarded' = forwarded \cup {o} /\ Gateway!TakeUp(o)

(* Mutation: the loop's bound is off. *)
MutLastTry(s) == session[s].try > MaxRetries

LastTry(s) == session[s].try + 1 = MaxRetries

(* CallPublisherProvider: a POST that is not answered with 2xx is          *)
(* repeated; it may have been taken all the same.                          *)
Forward(s) ==
    LET o == OrderOf(s) IN
    /\ session[s].pc = "forward"
    /\ UNCHANGED statuses
    /\ \/ Reach(o) /\ Finish(s) /\ UNCHANGED gap
       \/ /\ Reach(o) \/ UNCHANGED <<forwarded, completed, live, excused>>
          /\ IF LastTry(s)
             THEN /\ Finish(s)
                  /\ IF o \in forwarded' THEN UNCHANGED gap
                                         ELSE Lost(s, "forward")
             ELSE session' = [session EXCEPT ![s].try = @ + 1] /\ UNCHANGED gap
    /\ UNCHANGED <<kind, queue, conn, pool, opened, oracleVars, faults, losses>>

Step(s) == \/ Deliver(s)
           \/ Ack(s)
           \/ GetConnection(s)
           \/ GetConnectionFails(s)
           \/ ResetPool(s)
           \/ ExecOnClosedPool(s)
           \/ Exec(s)
           \/ OracleRefuses(s)
           \/ ConnectionError(s)
           \/ StatementError(s)
           \/ Forward(s)

-----------------------------------------------------------------------------
(* The gateways, the broker, the process *)

GatewayTells(o, status) ==
    LET n == Len(statuses[o]) + 1  q == queueOf[o] IN
    /\ n <= MaxTells
    /\ status \notin Range(statuses[o])
    /\ statuses' = [statuses EXCEPT ![o] = Append(@, status)]
    /\ Gateway!Tell(o, status)
    /\ queue' = [queue EXCEPT ![q] = Append(@, [order |-> o, n |-> n])]

(* What happens at the gateways to orders that reached them. *)
GatewayStep(o) ==
    /\ o \in forwarded
    /\ \/ \E status \in {"F", "C", "S"} : GatewayTells(o, status)
       \/ /\ UNCHANGED <<queue, statuses>>
          /\ Gateway!Complete(o) \/ Gateway!TakeUp(o) \/ Gateway!Lose({o} \cap live)
    /\ UNCHANGED <<kind, conn, session, pool, opened, oracleVars, forwarded,
                   gap, faults, losses>>

(* Mutations: messages are acknowledged on delivery; the message comes     *)
(* back behind the others.                                                 *)
MutAutoAck(q) == queue[q]
MutRequeued(q) == IF conn[q] = None \/ session[conn[q]].msg = NoMessage
                  THEN queue[q] ELSE Append(queue[q], session[conn[q]].msg)

(* The queue with the message of its live session back at the head. *)
Requeued(q) == IF conn[q] = None \/ session[conn[q]].msg = NoMessage
               THEN queue[q] ELSE <<session[conn[q]].msg>> \o queue[q]

(* The goroutine finishes the message in hand without knowing. *)
ConnectionLost(q) ==
    /\ losses < MaxLosses
    /\ conn[q] # None
    /\ losses' = losses + 1
    /\ queue' = [queue EXCEPT ![q] = Requeued(q)]
    /\ conn' = [conn EXCEPT ![q] = None]
    /\ session' = [session EXCEPT ![conn[q]] = IF @.pc = "idle" THEN Fresh ELSE @]
    /\ UNCHANGED <<kind, pool, opened, oracleVars, forwarded, gatewayVars, gap,
                   faults>>

(* The order is sold and not forwarded, its message is done with, and only *)
(* a goroutine that lost its connection would still forward it.            *)
OnlyOrphanForwards(o) ==
    LET m == [order |-> o, n |-> 0] IN
    /\ kind[o] = "provider"
    /\ o \in sold \ forwarded
    /\ m \notin ToSet(Requeued(queueOf[o]))
    /\ \E s \in Sessions : session[s].msg = m /\ session[s].pc # "ack"

(* A crash, or the end of the two seconds a shutdown grants. *)
Restart ==
    /\ losses < MaxLosses
    /\ losses' = losses + 1
    /\ queue' = [q \in Queues |-> Requeued(q)]
    /\ conn' = [q \in Queues |-> None]
    /\ session' = [s \in Sessions |-> Fresh]
    /\ pool' = opened + 1 /\ opened' = opened + 1
    /\ gap' = [o \in Orders |-> gap[o] \cup
                 (IF OnlyOrphanForwards(o) THEN {<<"sell", "crash">>} ELSE {})]
    /\ UNCHANGED <<kind, oracleVars, forwarded, gatewayVars, faults>>

Next == \/ \E q \in Queues : (\E s \in Sessions : Dial(q, s)) \/ ConnectionLost(q)
        \/ \E s \in Sessions : Step(s)
        \/ \E o \in Orders : GatewayStep(o)
        \/ Restart

Spec == Init /\ [][Next]_vars

(* The consumer's goroutines run and dial again.  Oracle calls and POSTs   *)
(* end, with or without an answer.  Nothing is assumed of the gateways.    *)
Fairness == /\ \A q \in Queues : WF_vars(\E s \in Sessions : Dial(q, s))
            /\ \A s \in Sessions : WF_vars(Step(s))

FairSpec == Spec /\ Fairness

-----------------------------------------------------------------------------
(* Properties *)

TypeOK ==
    /\ kind \in [Orders -> Kinds]
    /\ \A q \in Queues : ToSet(queue[q]) \subseteq Messages
    /\ conn \in [Queues -> Sessions \cup {None}]
    /\ session \in [Sessions ->
         [pc : Pcs, queue : Queues \cup {None}, msg : Messages \cup {NoMessage},
          call : Calls, then : Thens, db : Nat \cup {None}, try : 0..MaxRetries]]
    /\ pool \in (1..opened) \cup {None}
    /\ opened \in Nat
    /\ {sold, refused, overtaken, forwarded, completed, live, excused}
         \subseteq SUBSET Orders
    /\ applied \in [Orders -> SUBSET (1..MaxTells)]
    /\ \A o \in Orders : /\ Range(statuses[o]) \subseteq {"F", "C", "S"}
                         /\ Len(statuses[o]) <= MaxTells
    /\ gap \in [Orders -> SUBSET (Calls \X {"connect", "fault", "closed", "sold",
                                            "forward", "crash"})]
    /\ {faults, losses} \subseteq Nat

(* The message is in its queue or a goroutine has not finished it. *)
Pending(m) == \/ \E q \in Queues : m \in ToSet(queue[q])
              \/ \E s \in Sessions : session[s].msg = m /\ session[s].pc # "ack"

(* A provider is asked to fulfil an order only after Oracle sold it:       *)
(* whatever is redelivered, repeated or lost, no order is fulfilled that   *)
(* the shop did not sell.                                                  *)
SoldBeforeForwarded == forwarded \cup completed \subseteq sold

(* An order that came in is still in its message, or Oracle refused it, or *)
(* it is sold and Oracle fulfils it itself, or its gateway has it, or a    *)
(* final status of it reached Oracle or is on its way; or it was lost in   *)
(* one of the known holes: every failed call is logged, and the message    *)
(* acknowledged.                                                           *)
Fulfilled(o) == /\ o \in sold
                /\ \/ kind[o] # "provider"
                   \/ /\ o \in forwarded
                      /\ \/ o \in live \cup excused
                         \/ \E n \in DOMAIN statuses[o] :
                               /\ statuses[o][n] \in Final
                               /\ n \in applied[o] \/ Pending([order |-> o, n |-> n])

Accounted ==
    \A o \in Orders : \/ kind[o] = "invalid"
                      \/ Pending([order |-> o, n |-> 0])
                      \/ o \in refused \ sold
                      \/ Fulfilled(o)
                      \/ gap[o] # {}

(* An older status is put over a newer one only by a goroutine whose       *)
(* connection was lost: with one message in hand per connection, restarts  *)
(* and redeliveries alone keep the order of the queue.                     *)
OnlyOrphansOvertake ==
    [][\A o \in overtaken' \ overtaken :
         \E s \in Sessions : /\ session[s].pc = "exec"
                             /\ session[s].msg.order = o
                             /\ session'[s] # session[s]
                             /\ conn[session[s].queue] # s]_vars

(* Under fair scheduling the transaction queues drain: no message, failed  *)
(* call or lost connection stops a consumer for good.                      *)
EventuallyDrained ==
    <>[](\A q \in Queues : conn[q] # None /\ queue[q] = <<>>
                             /\ session[conn[q]].pc = "idle")
=============================================================================
