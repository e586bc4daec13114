-------------------------- MODULE FulfilmentProofs ---------------------------
(***************************************************************************)
(* Proofs about Fulfilment: its types, that nothing is forwarded unsold,   *)
(* that only goroutines without a connection overtake, and that an order   *)
(* is accounted for.                                                       *)
(***************************************************************************)
EXTENDS Fulfilment, FiniteSetTheorems, SequenceTheorems, TLAPS

(* What a goroutine knows of its message.  One that waits has the          *)
(* connection of its queue; one that outlived its connection may still     *)
(* work on its message, whose order was sold before it is forwarded.       *)
Busy(s) == session[s].pc \notin {"free", "idle"}
Works(s) == Busy(s) /\ session[s].pc # "ack"

SessionInvOf(s) ==
    LET r == session[s] IN
    /\ r.try < MaxRetries
    /\ r.pc # "free" => r.queue \in Queues
    /\ ~Busy(s) => r.msg = NoMessage
    /\ r.pc = "idle" => conn[r.queue] = s
    /\ Busy(s) => /\ r.msg \in Messages
                  /\ queueOf[r.msg.order] = r.queue
                  /\ r.msg.n <= Len(statuses[r.msg.order])
    /\ Works(s) => /\ kind[r.msg.order] # "invalid"
                   /\ r.call = "set" <=> r.msg.n # 0
    /\ r.pc = "forward" => /\ r.call = "sell"
                           /\ kind[r.msg.order] = "provider"
                           /\ r.msg.order \in sold

SessionInv ==
    /\ \A s \in Sessions : SessionInvOf(s)
    /\ \A q \in Queues : conn[q] # None =>
          session[conn[q]].queue = q /\ session[conn[q]].pc # "free"

DataInv ==
    /\ queue \in [Queues -> Seq(Messages)]
    /\ statuses \in [Orders -> Seq({"F", "C", "S"})]
    /\ \A q \in Queues : \A m \in ToSet(queue[q]) :
          queueOf[m.order] = q /\ m.n <= Len(statuses[m.order])
    /\ \A o \in Orders : applied[o] \subseteq 1..Len(statuses[o])
    /\ forwarded \subseteq sold
    /\ completed \subseteq forwarded
    /\ \A o \in Orders : /\ o \in forwarded => kind[o] = "provider"
                         /\ Len(statuses[o]) > 0 => o \in forwarded

Inv == TypeOK /\ DataInv /\ SessionInv

(* The line of a queue is what the broker would redeliver.  In it no       *)
(* status of an order comes before an older one, and nothing that some     *)
(* goroutine works on or Oracle took is newer than what is in the line.    *)
Coming(m) ==
    /\ \A k \in applied[m.order] : k <= m.n
    /\ \A s \in Sessions : session[s].msg.order = m.order => session[s].msg.n <= m.n

InOrder(L) == \A i, j \in 1..Len(L) :
                 i < j /\ L[i].order = L[j].order => L[i].n <= L[j].n

LineInvOf(q) == LET L == Requeued(q) IN
                /\ InOrder(L)
                /\ \A i \in 1..Len(L) : Coming(L[i])
LineInv == \A q \in Queues : LineInvOf(q)

(* The message is in its queue, or the goroutine of the connection has not *)
(* finished it.                                                            *)
Held(m) ==
    LET q == queueOf[m.order] IN
    \/ m \in ToSet(queue[q])
    \/ conn[q] # None /\ session[conn[q]].msg = m /\ session[conn[q]].pc # "ack"

(* The message that brings an order in. *)
Entry(o) == [order |-> o, n |-> 0]

(* Some goroutine would still forward an order that is sold. *)
Owed(o) == o \in sold /\ \E s \in Sessions :
               session[s].msg = Entry(o) /\ session[s].pc # "ack"

(* A final status the gateway told reached Oracle, is on its way or was    *)
(* lost in a known hole.                                                   *)
Seen(o) == \A n \in 1..Len(statuses[o]) :
              statuses[o][n] \in Final => \/ n \in applied[o]
                                         \/ Held([order |-> o, n |-> n])
                                         \/ gap[o] # {}

Told(o) == \E n \in 1..Len(statuses[o]) : statuses[o][n] \in Final

AccountOf(o) ==
    /\ Seen(o)
    /\ o \in forwarded => o \in live \cup excused \/ Told(o) \/ gap[o] # {}
    /\ \/ kind[o] = "invalid"
       \/ gap[o] # {}
       \/ Held(Entry(o))
       \/ Owed(o)
       \/ o \in refused \ sold
       \/ o \in sold /\ (kind[o] # "provider" \/ o \in forwarded)

AccountInv == \A o \in Orders : AccountOf(o)

-----------------------------------------------------------------------------
(* What a goroutine does with its message *)

Records == [pc : Pcs, queue : Queues \cup {None}, msg : Messages \cup {NoMessage},
            call : Calls, then : Thens, db : Nat \cup {None}, try : 0..MaxRetries]
Reasons == {"connect", "fault", "closed", "sold", "forward", "crash"}

Changed(s, pc, call) ==
    /\ session' \in [Sessions -> Records]
    /\ \A t \in Sessions \ {s} : session'[t] = session[t]
    /\ session'[s].pc = pc
    /\ session'[s].call = call
    /\ session'[s].queue = session[s].queue
    /\ session'[s].msg = session[s].msg
    /\ session'[s].try < MaxRetries

PoolTypes == pool \in (1..opened) \cup {None} /\ opened \in Nat /\ faults \in Nat

Stays(s) ==
    /\ UNCHANGED <<kind, queue, conn, statuses, losses>>
    /\ Works(s)
    /\ Changed(s, session'[s].pc, session'[s].call)
    /\ PoolTypes'

Executes(s) == \/ UNCHANGED oracleVars
               \/ session[s].pc = "exec" /\ Execute(s)

(* It goes on to another call, or to the same one again.                   *)
Continues(s) ==
    /\ Stays(s) /\ Executes(s)
    /\ session'[s].pc \in {"connect", "reset", "exec"} \ {session[s].pc}
    /\ session'[s].call = "set" <=> session[s].call = "set"
    /\ UNCHANGED <<forwarded, completed, live, excused, gap>>

Sells(s) ==
    /\ Stays(s)
    /\ session[s].pc = "exec" /\ Execute(s)
    /\ session[s].call = "sell" /\ kind[OrderOf(s)] = "provider"
    /\ session'[s].pc = "forward" /\ session'[s].call = "sell"
    /\ UNCHANGED <<forwarded, completed, live, excused, gap>>

(* It has done what the message asks for. *)
Settles(s) ==
    /\ Stays(s)
    /\ session[s].pc = "exec" /\ Execute(s)
    /\ \/ session[s].call = "set"
       \/ session[s].call = "sell" /\ kind[OrderOf(s)] # "provider"
    /\ session'[s].pc = "ack"
    /\ UNCHANGED <<forwarded, completed, live, excused, gap>>

GivesUp(s) ==
    /\ Stays(s) /\ Executes(s)
    /\ session'[s].pc = "ack"
    /\ \E why \in Reasons : Lost(s, why)
    /\ UNCHANGED <<forwarded, completed, live, excused>>

IsRefused(s) ==
    /\ Stays(s)
    /\ session[s].call \in {"upd", "sell"}
    /\ session'[s].pc = "ack"
    /\ refused' = refused \cup {OrderOf(s)}
    /\ IF OrderOf(s) \in sold \ forwarded THEN Lost(s, "sold") ELSE UNCHANGED gap
    /\ UNCHANGED <<sold, applied, overtaken, forwarded, completed, live, excused>>

Forwards(s) ==
    /\ Stays(s)
    /\ session[s].pc = "forward" /\ session'[s].pc \in {"forward", "ack"}
    /\ session'[s].pc = "forward" => session'[s].call = "sell"
    /\ \/ UNCHANGED <<forwarded, completed, live, excused>>
       \/ /\ forwarded' = forwarded \cup {OrderOf(s)}
          /\ live' = live \cup {OrderOf(s)}
          /\ UNCHANGED <<completed, excused>>
    /\ session'[s].pc = "ack" => OrderOf(s) \in forwarded'
    /\ UNCHANGED <<oracleVars, gap>>

Proceeds(s) == \/ Continues(s)
               \/ Sells(s)
               \/ Settles(s)
               \/ GivesUp(s)
               \/ IsRefused(s)
               \/ Forwards(s)

LEMMA SessionTypes ==
    ASSUME Inv
    PROVE  /\ session \in [Sessions -> Records]
           /\ \A s \in Sessions : session[s] \in Records /\ SessionInvOf(s)
           /\ PoolTypes
           /\ MaxRetries \in Nat \ {0} /\ MaxTells \in Nat
BY RetryAssumption, BoundAssumption
   DEF Inv, TypeOK, SessionInv, Records, PoolTypes

LEMMA FreshTypes ==
    /\ Fresh \in Records
    /\ [Fresh EXCEPT !.pc = "idle"] \in Records
BY RetryAssumption DEF Fresh, Records, Pcs, Calls, Thens

LEMMA HandTypes ==
    ASSUME Inv, NEW s \in Sessions, Busy(s)
    PROVE  /\ session[s].msg \in Messages
           /\ OrderOf(s) \in Orders
           /\ session[s].msg.n \in 0..MaxTells
           /\ session[s].msg = [order |-> OrderOf(s), n |-> session[s].msg.n]
           /\ queueOf[OrderOf(s)] = session[s].queue
           /\ session[s].queue \in Queues
BY SessionTypes DEF SessionInvOf, Busy, Messages, OrderOf

LEMMA LenTypes ==
    ASSUME Inv
    PROVE  \A o \in Orders : Len(statuses[o]) \in Nat
BY DEF Inv, DataInv

LEMMA GotoChanged ==
    ASSUME Inv, NEW s \in Sessions, NEW pc \in Pcs, Goto(s, pc)
    PROVE  Changed(s, pc, session[s].call)
<1>1. [session[s] EXCEPT !.pc = pc] \in Records
  BY SessionTypes DEF Records
<1> QED BY <1>1, SessionTypes DEF Goto, Changed, Records, SessionInvOf

LEMMA FinishChanged ==
    ASSUME Inv, NEW s \in Sessions, Finish(s)
    PROVE  Changed(s, "ack", "upd")
<1>1. [session[s] EXCEPT !.pc = "ack", !.call = "upd", !.then = "first",
                         !.db = None, !.try = 0] \in Records
  <2>1. "ack" \in Pcs /\ "upd" \in Calls /\ "first" \in Thens /\ 0 \in 0..MaxRetries
    BY SessionTypes DEF Pcs, Calls, Thens
  <2> QED BY <2>1, SessionTypes DEF Records
<1> QED BY <1>1, SessionTypes DEF Finish, Changed, Records

LEMMA CallChanged ==
    ASSUME Inv, NEW s \in Sessions, NEW call \in Calls, Call(s, call)
    PROVE  Changed(s, "connect", call)
<1>1. [session[s] EXCEPT !.pc = "connect", !.call = call, !.then = "first",
                         !.db = None] \in Records
  BY SessionTypes DEF Records, Pcs, Thens
<1> QED BY <1>1, SessionTypes DEF Call, Changed, Records, SessionInvOf

LEMMA ResetChanged ==
    ASSUME Inv, NEW s \in Sessions, NEW then \in Thens, Reset(s, then)
    PROVE  Changed(s, "reset", session[s].call)
<1>1. [session[s] EXCEPT !.pc = "reset", !.then = then] \in Records
  BY SessionTypes DEF Records, Pcs
<1> QED BY <1>1, SessionTypes DEF Reset, Changed, Records, SessionInvOf

LEMMA PoolSteps ==
    ASSUME Inv, NEW s \in Sessions, Works(s),
           GetConnection(s) \/ GetConnectionFails(s) \/ ResetPool(s)
    PROVE  Continues(s) \/ GivesUp(s)
<1>0. /\ PoolTypes /\ session \in [Sessions -> Records] /\ session[s] \in Records
      /\ session[s].try < MaxRetries
  BY SessionTypes DEF SessionInvOf
<1> USE DEF Stays, oracleVars, gatewayVars
<1>1. CASE GetConnection(s)
  <2>1. /\ pool' \in (1..opened') \cup {None} /\ opened' \in Nat
        /\ pool' \in Nat \cup {None}
    BY <1>0, <1>1 DEF GetConnection, PoolTypes
  <2>2. [session[s] EXCEPT !.pc = "exec", !.db = pool'] \in Records
    BY <1>0, <2>1 DEF Records, Pcs
  <2>3. Changed(s, "exec", session[s].call)
    BY <1>0, <1>1, <2>2 DEF GetConnection, Changed, Records
  <2> QED BY <1>0, <1>1, <2>1, <2>3
          DEF GetConnection, Continues, Executes, PoolTypes, Changed
<1>2. CASE GetConnectionFails(s)
  <2>1. PoolTypes'
    BY <1>0, <1>2 DEF GetConnectionFails, Fault, PoolTypes
  <2>2. ASSUME NEW then \in Thens, Reset(s, then), UNCHANGED gap
        PROVE  Continues(s)
    BY <1>2, <2>1, <2>2, ResetChanged
       DEF GetConnectionFails, Continues, Executes, Changed
  <2>3. CASE Finish(s) /\ Lost(s, "connect")
    BY <1>2, <2>1, <2>3, FinishChanged
       DEF GetConnectionFails, GivesUp, Executes, Changed, Reasons
  <2> QED BY <1>2, <2>2, <2>3 DEF GetConnectionFails, Thens
<1>3. CASE ResetPool(s)
  <2>1. PoolTypes'
    BY <1>0, <1>3 DEF ResetPool, PoolTypes
  <2>2. CASE Finish(s) /\ Lost(s, "fault")
    BY <1>3, <2>1, <2>2, FinishChanged
       DEF ResetPool, GivesUp, Executes, Changed, Reasons
  <2>3. CASE Goto(s, "connect") /\ UNCHANGED gap
    BY <1>3, <2>1, <2>3, GotoChanged
       DEF ResetPool, Continues, Executes, Changed, Pcs
  <2> QED BY <1>3, <2>2, <2>3 DEF ResetPool
<1> QED BY <1>1, <1>2, <1>3

LEMMA CallSteps ==
    ASSUME Inv, NEW s \in Sessions, Works(s),
           \/ ExecOnClosedPool(s)
           \/ Exec(s)
           \/ OracleRefuses(s)
           \/ ConnectionError(s)
           \/ StatementError(s)
    PROVE  Proceeds(s)
<1>0. PoolTypes /\ session[s] \in Records /\ session[s].call \in Calls
  BY SessionTypes DEF Records
<1> USE DEF Stays, gatewayVars, Proceeds
<1>1. CASE ExecOnClosedPool(s)
  BY <1>0, <1>1, FinishChanged
     DEF ExecOnClosedPool, GivesUp, Executes, Changed, PoolTypes, Reasons
<1>2. CASE Exec(s)
  <2>1. PoolTypes'
    BY <1>0, <1>2 DEF Exec, PoolTypes
  <2>2. \/ session[s].call = "upd" /\ Call(s, "sell")
        \/ /\ session[s].call = "sell" /\ kind[OrderOf(s)] = "provider"
           /\ Goto(s, "forward")
        \/ /\ session[s].call = "set" \/ (session[s].call = "sell" /\ kind[OrderOf(s)] # "provider")
           /\ Finish(s)
    BY <1>0, <1>2 DEF Exec, Calls
  <2>3. CASE session[s].call = "upd" /\ Call(s, "sell")
    BY <1>2, <2>1, <2>3, CallChanged DEF Exec, Continues, Executes, Changed, Calls
  <2>4. CASE /\ session[s].call = "sell" /\ kind[OrderOf(s)] = "provider"
             /\ Goto(s, "forward")
    BY <1>2, <2>1, <2>4, GotoChanged DEF Exec, Sells, Changed, Pcs
  <2>5. CASE /\ session[s].call = "set" \/ (session[s].call = "sell" /\ kind[OrderOf(s)] # "provider")
             /\ Finish(s)
    BY <1>2, <2>1, <2>5, FinishChanged DEF Exec, Settles, Changed
  <2> QED BY <2>2, <2>3, <2>4, <2>5
<1>3. CASE OracleRefuses(s)
  BY <1>0, <1>3, FinishChanged DEF OracleRefuses, IsRefused, Changed, PoolTypes
<1>4. CASE ConnectionError(s)
  <2>1. PoolTypes' /\ Executes(s)
    BY <1>0, <1>4 DEF ConnectionError, Fault, PoolTypes, Executes
  <2>2. CASE Finish(s) /\ Lost(s, "fault")
    BY <1>4, <2>1, <2>2, FinishChanged DEF ConnectionError, GivesUp, Changed, Reasons
  <2>3. ASSUME NEW then \in Thens, Reset(s, then), UNCHANGED gap
        PROVE  Continues(s)
    BY <1>4, <2>1, <2>3, ResetChanged DEF ConnectionError, Continues, Changed
  <2> QED BY <1>4, <2>2, <2>3 DEF ConnectionError, Thens
<1>5. CASE StatementError(s)
  BY <1>0, <1>5, FinishChanged
     DEF StatementError, GivesUp, Executes, Changed, Fault, PoolTypes, Reasons
<1> QED BY <1>1, <1>2, <1>3, <1>4, <1>5

LEMMA ForwardSteps ==
    ASSUME Inv, NEW s \in Sessions, Forward(s)
    PROVE  Forwards(s) \/ GivesUp(s)
<1>0. /\ PoolTypes /\ session[s] \in Records /\ SessionInvOf(s)
      /\ session \in [Sessions -> Records] /\ session[s].try \in Nat
      /\ MaxRetries \in Nat
  BY SessionTypes DEF Records
<1>1. /\ PoolTypes' /\ Works(s) /\ session[s].call = "sell"
      /\ UNCHANGED <<kind, queue, conn, statuses, losses, oracleVars>>
  BY <1>0 DEF Forward, PoolTypes, Works, Busy, SessionInvOf
<1>2. ASSUME Reach(OrderOf(s))
      PROVE  /\ forwarded' = forwarded \cup {OrderOf(s)}
             /\ live' = live \cup {OrderOf(s)}
             /\ UNCHANGED <<completed, excused>>
  BY <1>2 DEF Reach, Gateway!TakeUp
<1>3. ASSUME Finish(s)
      PROVE  Stays(s) /\ session'[s].pc = "ack"
  BY <1>1, <1>3, FinishChanged DEF Stays, Changed
<1>4. CASE Reach(OrderOf(s)) /\ Finish(s) /\ UNCHANGED gap
  BY <1>1, <1>2, <1>3, <1>4 DEF Forward, Forwards
<1>5. CASE /\ Reach(OrderOf(s)) \/ UNCHANGED <<forwarded, completed, live, excused>>
           /\ IF LastTry(s)
              THEN /\ Finish(s)
                   /\ IF OrderOf(s) \in forwarded' THEN UNCHANGED gap
                                                   ELSE Lost(s, "forward")
              ELSE session' = [session EXCEPT ![s].try = @ + 1] /\ UNCHANGED gap
  <2>1. CASE LastTry(s) /\ OrderOf(s) \in forwarded'
    BY <1>1, <1>2, <1>3, <1>5, <2>1 DEF Forward, Forwards
  <2>2. CASE LastTry(s) /\ OrderOf(s) \notin forwarded'
    BY <1>1, <1>2, <1>3, <1>5, <2>2 DEF Forward, GivesUp, Executes, Reasons
  <2>3. CASE ~LastTry(s)
    <3>1. session[s].try + 1 \in 0..MaxRetries /\ session[s].try + 1 < MaxRetries
      BY <1>0, <2>3 DEF LastTry, SessionInvOf
    <3>2. [session[s] EXCEPT !.try = @ + 1] \in Records
      BY <1>0, <3>1 DEF Records
    <3>3. Changed(s, "forward", "sell")
      BY <1>0, <1>1, <1>5, <2>3, <3>1, <3>2 DEF Changed, Records, Forward
    <3>4. Stays(s) /\ session'[s].pc = "forward" /\ session'[s].call = "sell"
      BY <1>1, <3>3 DEF Stays, Changed
    <3> QED BY <1>1, <1>2, <1>5, <2>3, <3>4 DEF Forward, Forwards
  <2> QED BY <2>1, <2>2, <2>3
<1> QED BY <1>4, <1>5 DEF Forward

LEMMA SessionSteps ==
    ASSUME Inv, NEW s \in Sessions, Step(s)
    PROVE  Deliver(s) \/ Ack(s) \/ Proceeds(s)
<1>1. CASE GetConnection(s) \/ GetConnectionFails(s) \/ ResetPool(s)
  BY <1>1, PoolSteps
     DEF GetConnection, GetConnectionFails, ResetPool, Works, Busy, Proceeds
<1>2. CASE \/ ExecOnClosedPool(s) \/ Exec(s) \/ OracleRefuses(s)
           \/ ConnectionError(s) \/ StatementError(s)
  BY <1>2, CallSteps DEF ExecOnClosedPool, Exec, OracleRefuses, ConnectionError,
                         StatementError, Works, Busy
<1>3. CASE Forward(s)
  BY <1>3, ForwardSteps DEF Proceeds
<1> QED BY <1>1, <1>2, <1>3 DEF Step

-----------------------------------------------------------------------------
(* Types, the records of the goroutines, and what is sold *)

LEMMA SetOfSeq ==
    ASSUME NEW S, NEW L \in Seq(S)
    PROVE  /\ ToSet(L) \subseteq S
           /\ \A x : x \in ToSet(L) <=> \E i \in 1..Len(L) : L[i] = x
BY DEF ToSet

(* What an execution of a stored procedure may change in Oracle. *)
OracleStep(s) ==
    /\ {sold', refused', overtaken'} \subseteq SUBSET Orders
    /\ sold \subseteq sold' /\ sold' \subseteq sold \cup {OrderOf(s)}
    /\ applied' \in [Orders -> SUBSET (1..MaxTells)]
    /\ \A o \in Orders : /\ applied[o] \subseteq applied'[o]
                         /\ o # OrderOf(s) => applied'[o] = applied[o]
                         /\ applied'[o] \subseteq 1..Len(statuses[o])
    /\ applied'[OrderOf(s)] \subseteq applied[OrderOf(s)] \cup {session[s].msg.n}

LEMMA OracleSteps ==
    ASSUME Inv, NEW s \in Sessions, Proceeds(s)
    PROVE  OracleStep(s)
<1>0. /\ Works(s) /\ SessionInvOf(s) /\ Busy(s)
      /\ OrderOf(s) \in Orders /\ session[s].msg.n \in 0..MaxTells
      /\ session[s].msg.n <= Len(statuses[OrderOf(s)])
      /\ {sold, refused, overtaken} \subseteq SUBSET Orders
      /\ applied \in [Orders -> SUBSET (1..MaxTells)]
      /\ \A o \in Orders : applied[o] \subseteq 1..Len(statuses[o])
      /\ MaxTells \in Nat
      /\ \A o \in Orders : Len(statuses[o]) \in Nat
  <2>1. Works(s) /\ Busy(s)
    BY DEF Proceeds, Continues, Sells, Settles, GivesUp, IsRefused, Forwards,
           Stays, Works
  <2>2. /\ SessionInvOf(s) /\ OrderOf(s) \in Orders
        /\ session[s].msg.n \in 0..MaxTells /\ MaxTells \in Nat
    BY <2>1, SessionTypes, HandTypes
  <2>3. session[s].msg.n <= Len(statuses[OrderOf(s)])
    BY <2>1, <2>2 DEF SessionInvOf, OrderOf
  <2>4. /\ {sold, refused, overtaken} \subseteq SUBSET Orders
        /\ applied \in [Orders -> SUBSET (1..MaxTells)]
        /\ \A o \in Orders : applied[o] \subseteq 1..Len(statuses[o])
    BY DEF Inv, TypeOK, DataInv
  <2> QED BY <2>1, <2>2, <2>3, <2>4, LenTypes
<1>1. CASE UNCHANGED oracleVars
  BY <1>0, <1>1 DEF oracleVars, OracleStep
<1>2. CASE Execute(s) /\ session[s].pc = "exec"
  <2>1. session[s].call \in Calls
    BY SessionTypes DEF Records
  <2>2. CASE session[s].call = "upd"
    <3>1. UNCHANGED oracleVars
      BY <1>2, <2>2 DEF Execute
    <3> QED BY <1>1, <3>1
  <2>3. CASE session[s].call = "sell"
    <3>1. sold' = sold \cup {OrderOf(s)} /\ UNCHANGED <<refused, applied, overtaken>>
      BY <1>2, <2>3 DEF Execute
    <3> QED BY <1>0, <3>1 DEF OracleStep
  <2>4. CASE session[s].call = "set"
    <3>1. /\ applied' = [applied EXCEPT ![OrderOf(s)] = @ \cup {session[s].msg.n}]
          /\ UNCHANGED <<sold, refused>>
          /\ overtaken' = overtaken \cup {OrderOf(s)} \/ overtaken' = overtaken
      BY <1>2, <2>4 DEF Execute
    <3>2. session[s].msg.n \in 1..MaxTells
          /\ session[s].msg.n \in 1..Len(statuses[OrderOf(s)])
      BY <1>0, <2>4 DEF SessionInvOf
    <3> QED BY <1>0, <3>1, <3>2 DEF OracleStep
  <2> QED BY <2>1, <2>2, <2>3, <2>4 DEF Calls
<1>3. CASE IsRefused(s)
  BY <1>0, <1>3 DEF IsRefused, OracleStep
<1> QED BY <1>1, <1>2, <1>3
        DEF Proceeds, Continues, Sells, Settles, GivesUp, Forwards, Executes

LEMMA LostTypes ==
    ASSUME Inv, NEW s \in Sessions, Busy(s), NEW why \in Reasons, Lost(s, why)
    PROVE  gap' \in [Orders -> SUBSET (Calls \X Reasons)]
<1>1. /\ gap \in [Orders -> SUBSET (Calls \X Reasons)]
      /\ <<session[s].call, why>> \in Calls \X Reasons
  BY SessionTypes DEF Inv, TypeOK, Reasons, Records
<1> QED BY <1>1 DEF Lost

LEMMA TypesFrom ==
    ASSUME Inv, UNCHANGED kind,
           queue' \in [Queues -> Seq(Messages)],
           conn' \in [Queues -> Sessions \cup {None}],
           session' \in [Sessions -> Records],
           PoolTypes',
           {sold', refused', overtaken', forwarded', completed', live', excused'}
              \subseteq SUBSET Orders,
           applied' \in [Orders -> SUBSET (1..MaxTells)],
           statuses' \in [Orders -> Seq({"F", "C", "S"})],
           \A o \in Orders : Len(statuses'[o]) <= MaxTells,
           gap' \in [Orders -> SUBSET (Calls \X Reasons)],
           losses' \in Nat
    PROVE  TypeOK'
<1>1. \A q \in Queues : ToSet(queue'[q]) \subseteq Messages
  BY SetOfSeq
<1>2. \A o \in Orders : Range(statuses'[o]) \subseteq {"F", "C", "S"}
  BY DEF Range
<1> QED BY <1>1, <1>2 DEF Inv, TypeOK, Records, Reasons, PoolTypes

(* A goroutine that does not move stays right while statuses and sales are *)
(* added.                                                                  *)
LEMMA SessionKept ==
    ASSUME Inv, NEW t \in Sessions, session'[t] = session[t], UNCHANGED kind,
           sold \subseteq sold',
           \A o \in Orders : /\ Len(statuses[o]) \in Nat /\ Len(statuses'[o]) \in Nat
                             /\ Len(statuses[o]) <= Len(statuses'[o]),
           session[t].pc = "idle" => conn'[session[t].queue] = t
    PROVE  SessionInvOf(t)'
<1>1. SessionInvOf(t)
  BY SessionTypes
<1>2. CASE Busy(t)
  <2>1. /\ session[t].msg.order \in Orders /\ session[t].msg.n \in Nat
        /\ session[t].msg.n <= Len(statuses'[session[t].msg.order])
    <3>1. /\ session[t].msg.order \in Orders /\ session[t].msg.n \in Nat
      <4>1. session[t].msg \in Messages
        BY <1>2, HandTypes
      <4> QED BY <4>1 DEF Messages
    <3>2. session[t].msg.n <= Len(statuses[session[t].msg.order])
      BY <1>1, <1>2 DEF SessionInvOf
    <3> QED BY <3>1, <3>2
  <2> QED BY <1>1, <1>2, <2>1 DEF SessionInvOf, Busy, Works
<1>3. CASE ~Busy(t)
  BY <1>1, <1>3 DEF SessionInvOf, Busy, Works
<1> QED BY <1>2, <1>3

LEMMA ProceedsInv ==
    ASSUME Inv, NEW s \in Sessions, Proceeds(s)
    PROVE  Inv'
<1>0. /\ Stays(s) /\ Works(s) /\ Busy(s) /\ SessionInvOf(s) /\ OrderOf(s) \in Orders
      /\ session'[s] \in Records
      /\ Changed(s, session'[s].pc, session'[s].call)
      /\ PoolTypes'
  <2>1. Stays(s)
    BY DEF Proceeds, Continues, Sells, Settles, GivesUp, IsRefused, Forwards
  <2> QED BY <2>1, SessionTypes, HandTypes DEF Stays, Works, Changed
<1>1. OracleStep(s)
  BY OracleSteps
<1>2. gap' \in [Orders -> SUBSET (Calls \X Reasons)]
  <2>1. CASE UNCHANGED gap
    BY <2>1 DEF Inv, TypeOK, Reasons
  <2>2. CASE \E why \in Reasons : Lost(s, why)
    BY <1>0, <2>2, LostTypes
  <2> QED BY <2>1, <2>2
          DEF Proceeds, Continues, Sells, Settles, GivesUp, IsRefused, Forwards, Reasons
<1>3. /\ {forwarded', completed', live', excused'} \subseteq SUBSET Orders
      /\ UNCHANGED <<completed, excused>>
      /\ forwarded \subseteq forwarded'
      /\ forwarded' \subseteq sold
  <2>1. {forwarded, completed, live, excused} \subseteq SUBSET Orders
        /\ forwarded \subseteq sold
    BY DEF Inv, TypeOK, DataInv
  <2>2. session[s].pc = "forward" => OrderOf(s) \in sold
    BY <1>0 DEF SessionInvOf, OrderOf
  <2> QED BY <1>0, <2>1, <2>2
          DEF Proceeds, Continues, Sells, Settles, GivesUp, IsRefused, Forwards
<1>4. TypeOK'
  BY <1>0, <1>1, <1>2, <1>3, TypesFrom DEF Stays, Changed, OracleStep, Inv,
     TypeOK, DataInv
<1>5. DataInv'
  <2>1. \A o \in forwarded' : kind[o] = "provider"
    <3>1. session[s].pc = "forward" => kind[OrderOf(s)] = "provider"
      BY <1>0 DEF SessionInvOf, OrderOf
    <3>2. forwarded' = forwarded
          \/ (session[s].pc = "forward" /\ forwarded' = forwarded \cup {OrderOf(s)})
      <4>1. CASE Forwards(s)
        BY <4>1 DEF Forwards
      <4>2. CASE ~Forwards(s)
        BY <4>2 DEF Proceeds, Continues, Sells, Settles, GivesUp, IsRefused
      <4> QED BY <4>1, <4>2
    <3>3. \A o \in forwarded : kind[o] = "provider"
      BY DEF Inv, DataInv, TypeOK
    <3> QED BY <3>1, <3>2, <3>3
  <2>2. \A o \in Orders : Len(statuses[o]) > 0 => o \in forwarded'
    BY <1>3 DEF Inv, DataInv
  <2> QED BY <1>0, <1>1, <1>3, <2>1, <2>2 DEF DataInv, Inv, OracleStep, Stays
<1>6. ASSUME NEW t \in Sessions \ {s}
      PROVE  SessionInvOf(t)'
  <2>1. \A o \in Orders : Len(statuses[o]) \in Nat /\ statuses' = statuses
    BY <1>0 DEF Inv, DataInv, Stays
  <2>2. conn' = conn /\ session'[t] = session[t] /\ kind' = kind
    BY <1>0 DEF Stays, Changed
  <2>3. session[t].pc = "idle" => conn[session[t].queue] = t
    BY SessionTypes DEF SessionInvOf
  <2> QED BY <1>1, <2>1, <2>2, <2>3, SessionKept DEF OracleStep
<1>7. SessionInvOf(s)'
  <2>1. session'[s].pc \in {"connect", "reset", "exec", "forward", "ack"}
    BY DEF Proceeds, Continues, Sells, Settles, GivesUp, IsRefused, Forwards
  <2>2. session'[s].pc # "ack" => (session'[s].call = "set" <=> session[s].call = "set")
    BY <1>0 DEF Proceeds, Continues, Sells, Settles, GivesUp, IsRefused, Forwards,
                SessionInvOf
  <2>3. session'[s].pc = "forward" => /\ session'[s].call = "sell"
                                      /\ kind[OrderOf(s)] = "provider"
                                      /\ OrderOf(s) \in sold'
    <3>1. CASE Sells(s)
      <4>1. sold' = sold \cup {OrderOf(s)}
        BY <3>1 DEF Sells, Execute
      <4> QED BY <3>1, <4>1 DEF Sells
    <3>2. CASE Forwards(s)
      BY <1>0, <1>1, <3>2 DEF Forwards, SessionInvOf, OrderOf, OracleStep
    <3> QED BY <3>1, <3>2
            DEF Proceeds, Continues, Settles, GivesUp, IsRefused
  <2>4. /\ session'[s].queue = session[s].queue /\ session'[s].msg = session[s].msg
        /\ session'[s].try < MaxRetries
        /\ UNCHANGED <<kind, statuses>>
    BY <1>0 DEF Stays, Changed
  <2> QED BY <1>0, <2>1, <2>2, <2>3, <2>4 DEF SessionInvOf, Busy, Works, OrderOf
<1>8. \A q \in Queues : conn'[q] # None =>
         session'[conn'[q]].queue = q /\ session'[conn'[q]].pc # "free"
  <2>1. session'[s].pc # "free"
    BY DEF Proceeds, Continues, Sells, Settles, GivesUp, IsRefused, Forwards
  <2>2. conn' = conn /\ \A q \in Queues : conn[q] \in Sessions \cup {None}
    BY <1>0 DEF Stays, Inv, TypeOK
  <2> QED BY <1>0, <2>1, <2>2 DEF Stays, Changed, Inv, SessionInv
<1> QED BY <1>4, <1>5, <1>6, <1>7, <1>8 DEF Inv, SessionInv

(* The line of a queue: the message of its connection, then the others. *)
LEMMA LineTypes ==
    ASSUME Inv, NEW q \in Queues
    PROVE  /\ queue[q] \in Seq(Messages)
           /\ Requeued(q) \in Seq(Messages)
           /\ conn[q] \in Sessions \cup {None}
           /\ conn[q] # None => /\ session[conn[q]].queue = q
                                /\ session[conn[q]].pc # "free"
           /\ \/ /\ Requeued(q) = queue[q]
                 /\ conn[q] = None \/ session[conn[q]].pc = "idle"
              \/ /\ conn[q] \in Sessions /\ Busy(conn[q])
                 /\ session[conn[q]].msg \in Messages
                 /\ Requeued(q) = <<session[conn[q]].msg>> \o queue[q]
<1>1. /\ queue[q] \in Seq(Messages)
      /\ conn[q] \in Sessions \cup {None}
      /\ conn[q] # None => session[conn[q]].queue = q /\ session[conn[q]].pc # "free"
  BY DEF Inv, DataInv, TypeOK, SessionInv
<1>2. NoMessage \notin Messages
  BY OrderAssumption DEF NoMessage, Messages
<1>3. CASE conn[q] = None
  BY <1>1, <1>3 DEF Requeued
<1>4. CASE conn[q] \in Sessions /\ ~Busy(conn[q])
  <2>1. session[conn[q]].msg = NoMessage /\ session[conn[q]].pc = "idle"
    BY <1>1, <1>4, SessionTypes, SessionAssumption DEF SessionInvOf, Busy
  <2> QED BY <1>1, <2>1 DEF Requeued
<1>5. CASE conn[q] \in Sessions /\ Busy(conn[q])
  <2>1. session[conn[q]].msg \in Messages
    BY <1>5, HandTypes
  <2>2. conn[q] # None /\ session[conn[q]].msg # NoMessage
    BY <1>2, <1>5, <2>1, SessionAssumption
  <2>3. Requeued(q) = <<session[conn[q]].msg>> \o queue[q]
    BY <2>2 DEF Requeued
  <2> QED BY <1>1, <1>5, <2>1, <2>3
<1> QED BY <1>1, <1>3, <1>4, <1>5

LEMMA DialInv ==
    ASSUME Inv, NEW q \in Queues, NEW s \in Sessions, Dial(q, s)
    PROVE  Inv'
<1>0. /\ session \in [Sessions -> Records] /\ conn \in [Queues -> Sessions \cup {None}]
      /\ session[s].pc = "free" /\ session[s] \in Records /\ SessionInvOf(s)
      /\ conn[q] = None
  BY SessionTypes DEF Dial, Inv, TypeOK
<1>1. [session[s] EXCEPT !.pc = "idle", !.queue = q] \in Records
  BY <1>0 DEF Records, Pcs
<1>2. /\ session' \in [Sessions -> Records]
      /\ session'[s].pc = "idle" /\ session'[s].queue = q
      /\ session'[s].msg = session[s].msg /\ session'[s].try = session[s].try
      /\ \A t \in Sessions \ {s} : session'[t] = session[t]
      /\ conn' \in [Queues -> Sessions \cup {None}]
      /\ conn'[q] = s /\ \A p \in Queues \ {q} : conn'[p] = conn[p]
  BY <1>0, <1>1 DEF Dial, Records
<1>3. TypeOK'
  BY <1>2, TypesFrom, SessionTypes
     DEF Dial, oracleVars, gatewayVars, Inv, TypeOK, DataInv, PoolTypes, Reasons
<1>4. DataInv'
  BY DEF Dial, oracleVars, gatewayVars, Inv, DataInv
<1>5. ASSUME NEW t \in Sessions \ {s}
      PROVE  SessionInvOf(t)'
  <2>1. session[t].pc = "idle" => conn'[session[t].queue] = t
    BY <1>0, <1>2, SessionTypes, SessionAssumption DEF SessionInvOf
  <2> QED BY <1>2, <2>1, SessionKept, LenTypes DEF Dial, oracleVars, gatewayVars
<1>6. SessionInvOf(s)'
  BY <1>0, <1>2 DEF SessionInvOf, Busy, Works
<1>7. \A p \in Queues : conn'[p] # None =>
         session'[conn'[p]].queue = p /\ session'[conn'[p]].pc # "free"
  <2>1. ASSUME NEW p \in Queues \ {q}, conn[p] # None
        PROVE  conn[p] \in Sessions \ {s} /\ session[conn[p]].queue = p
               /\ session[conn[p]].pc # "free"
    BY <1>0, <2>1, LineTypes
  <2> QED BY <1>2, <2>1
<1> QED BY <1>3, <1>4, <1>5, <1>6, <1>7 DEF Inv, SessionInv

LEMMA DeliverAt ==
    ASSUME Inv, NEW s \in Sessions, Deliver(s)
    PROVE  \E q \in Queues, m \in Messages :
              /\ q = session[s].queue /\ conn[q] = s /\ session[s].pc = "idle"
              /\ queue[q] # <<>> /\ m = Head(queue[q])
              /\ queue' \in [Queues -> Seq(Messages)]
              /\ queue'[q] = Tail(queue[q])
              /\ \A p \in Queues \ {q} : queue'[p] = queue[p]
              /\ session' \in [Sessions -> Records]
              /\ \A t \in Sessions \ {s} : session'[t] = session[t]
              /\ session'[s].pc = IF kind[m.order] = "invalid" THEN "ack" ELSE "connect"
              /\ session'[s].call = IF m.n = 0 THEN "upd" ELSE "set"
              /\ session'[s].msg = m
              /\ session'[s].queue = q
              /\ session'[s].try < MaxRetries
<1> DEFINE q == session[s].queue  m == Head(queue[q])
<1>1. /\ session \in [Sessions -> Records] /\ session[s] \in Records
      /\ session[s].try < MaxRetries
      /\ q \in Queues /\ queue[q] \in Seq(Messages) /\ queue[q] # <<>>
      /\ queue \in [Queues -> Seq(Messages)]
  <2>1. session[s].pc = "idle" /\ queue[q] # <<>>
    BY DEF Deliver
  <2> QED BY <2>1, SessionTypes DEF SessionInvOf, Inv, DataInv
<1>2. m \in Messages /\ Tail(queue[q]) \in Seq(Messages)
  BY <1>1
<1> DEFINE pc == IF kind[m.order] = "invalid" THEN "ack" ELSE "connect"
           call == IF m.n = 0 THEN "upd" ELSE "set"
<1>3. pc \in Pcs /\ call \in Calls
  BY DEF Pcs, Calls
<1>4. /\ session' = [session EXCEPT ![s] =
                       [@ EXCEPT !.msg = m, !.pc = pc, !.call = call]]
      /\ queue' = [queue EXCEPT ![q] = Tail(@)]
      /\ session[s].pc = "idle" /\ conn[q] = s
  BY DEF Deliver
<1> HIDE DEF q, m, pc, call
<1>5. [session[s] EXCEPT !.msg = m, !.pc = pc, !.call = call] \in Records
  BY <1>1, <1>2, <1>3 DEF Records
<1>6. /\ session' \in [Sessions -> Records]
      /\ \A t \in Sessions \ {s} : session'[t] = session[t]
      /\ session'[s].pc = pc /\ session'[s].call = call
      /\ session'[s].msg = m /\ session'[s].queue = q
      /\ session'[s].try = session[s].try
  BY <1>1, <1>4, <1>5 DEF Records, q
<1>7. /\ queue' \in [Queues -> Seq(Messages)]
      /\ queue'[q] = Tail(queue[q])
      /\ \A p \in Queues \ {q} : queue'[p] = queue[p]
  BY <1>1, <1>2, <1>4
<1>8. /\ q = session[s].queue /\ m = Head(queue[q])
      /\ session'[s].pc = IF kind[m.order] = "invalid" THEN "ack" ELSE "connect"
      /\ session'[s].call = IF m.n = 0 THEN "upd" ELSE "set"
  BY <1>6 DEF q, m, pc, call
<1>9. conn[q] = s /\ session[s].pc = "idle" /\ session'[s].try < MaxRetries
  BY <1>1, <1>4, <1>6
<1> QED BY <1>1, <1>2, <1>6, <1>7, <1>8, <1>9

LEMMA DeliverInv ==
    ASSUME Inv, NEW s \in Sessions, Deliver(s)
    PROVE  Inv'
<1>1. PICK q \in Queues, m \in Messages :
         /\ q = session[s].queue /\ conn[q] = s /\ session[s].pc = "idle"
         /\ queue[q] # <<>> /\ m = Head(queue[q])
         /\ queue' \in [Queues -> Seq(Messages)]
         /\ queue'[q] = Tail(queue[q])
         /\ \A p \in Queues \ {q} : queue'[p] = queue[p]
         /\ session' \in [Sessions -> Records]
         /\ \A t \in Sessions \ {s} : session'[t] = session[t]
         /\ session'[s].pc = IF kind[m.order] = "invalid" THEN "ack" ELSE "connect"
         /\ session'[s].call = IF m.n = 0 THEN "upd" ELSE "set"
         /\ session'[s].msg = m
         /\ session'[s].queue = q
         /\ session'[s].try < MaxRetries
  BY DeliverAt
<1>2. UNCHANGED <<kind, conn, pool, opened, oracleVars, forwarded, gatewayVars,
                  gap, faults, losses>>
  BY DEF Deliver
<1>3. TypeOK'
  BY <1>1, <1>2, TypesFrom, SessionTypes
     DEF oracleVars, gatewayVars, Inv, TypeOK, DataInv, PoolTypes, Reasons
<1>4. /\ m \in ToSet(queue[q])
      /\ ToSet(queue'[q]) \subseteq ToSet(queue[q])
  <2>1. queue[q] \in Seq(Messages) /\ queue[q] # <<>> /\ queue'[q] = Tail(queue[q])
    BY <1>1, LineTypes
  <2>2. m = queue[q][1] /\ 1 \in 1..Len(queue[q])
    BY <1>1, <2>1
  <2>3. ASSUME NEW x \in ToSet(queue'[q])
        PROVE  x \in ToSet(queue[q])
    <3>1. queue'[q] \in Seq(Messages) /\ Len(queue'[q]) = Len(queue[q]) - 1
          /\ \A i \in 1..Len(queue'[q]) : queue'[q][i] = queue[q][i + 1]
      BY <2>1
    <3>2. PICK i \in 1..Len(queue'[q]) : queue'[q][i] = x
      BY <2>3, <3>1, SetOfSeq
    <3>3. i + 1 \in 1..Len(queue[q]) /\ queue[q][i + 1] = x
      BY <2>1, <3>1, <3>2
    <3> QED BY <2>1, <3>3, SetOfSeq
  <2> QED BY <2>1, <2>2, <2>3, SetOfSeq
<1>5. DataInv'
  BY <1>1, <1>2, <1>4 DEF oracleVars, gatewayVars, Inv, DataInv
<1>6. ASSUME NEW t \in Sessions \ {s}
      PROVE  SessionInvOf(t)'
  <2>1. session[t].pc = "idle" => conn'[session[t].queue] = t
    BY <1>2, SessionTypes DEF SessionInvOf
  <2> QED BY <1>1, <1>2, <2>1, SessionKept, LenTypes DEF oracleVars, gatewayVars
<1>7. queueOf[m.order] = q /\ m.n <= Len(statuses[m.order])
  BY <1>4 DEF Inv, DataInv
<1>8. SessionInvOf(s)'
  BY <1>1, <1>2, <1>7 DEF SessionInvOf, Busy, Works, gatewayVars
<1>9. ASSUME NEW p \in Queues, conn'[p] # None
      PROVE  session'[conn'[p]].queue = p /\ session'[conn'[p]].pc # "free"
  <2>1. /\ conn'[p] = conn[p] /\ conn[p] \in Sessions
        /\ session[conn[p]].queue = p /\ session[conn[p]].pc # "free"
    BY <1>2, <1>9, LineTypes
  <2> QED BY <1>1, <2>1
<1> QED BY <1>3, <1>5, <1>6, <1>8, <1>9 DEF Inv, SessionInv

LEMMA AckAt ==
    ASSUME Inv, NEW s \in Sessions, Ack(s)
    PROVE  /\ session[s].pc = "ack" /\ session[s].queue \in Queues
           /\ session' \in [Sessions -> Records]
           /\ \A t \in Sessions \ {s} : session'[t] = session[t]
           /\ session'[s].msg = NoMessage /\ session'[s].try = 0
           /\ \/ /\ conn[session[s].queue] = s
                 /\ session'[s].pc = "idle" /\ session'[s].queue = session[s].queue
              \/ /\ conn[session[s].queue] # s
                 /\ session'[s].pc = "free"
<1>1. /\ session \in [Sessions -> Records] /\ session[s].pc = "ack"
      /\ session[s].queue \in Queues
  BY SessionTypes DEF Ack, SessionInvOf
<1>2. CASE conn[session[s].queue] = s
  <2>1. [Fresh EXCEPT !.pc = "idle", !.queue = session[s].queue] \in Records
    BY <1>1, FreshTypes DEF Records, Fresh, Pcs
  <2> QED BY <1>1, <1>2, <2>1 DEF Ack, Fresh
<1>3. CASE conn[session[s].queue] # s
  BY <1>1, <1>3, FreshTypes DEF Ack, Fresh
<1> QED BY <1>2, <1>3

LEMMA AckInv ==
    ASSUME Inv, NEW s \in Sessions, Ack(s)
    PROVE  Inv'
<1>1. /\ session[s].pc = "ack" /\ session[s].queue \in Queues
      /\ session' \in [Sessions -> Records]
      /\ \A t \in Sessions \ {s} : session'[t] = session[t]
      /\ session'[s].msg = NoMessage /\ session'[s].try = 0
      /\ \/ /\ conn[session[s].queue] = s
            /\ session'[s].pc = "idle" /\ session'[s].queue = session[s].queue
         \/ /\ conn[session[s].queue] # s
            /\ session'[s].pc = "free"
  BY AckAt
<1>2. UNCHANGED <<kind, queue, conn, pool, opened, oracleVars, forwarded,
                  gatewayVars, gap, faults, losses>>
  BY DEF Ack
<1>3. TypeOK'
  BY <1>1, <1>2, TypesFrom, SessionTypes
     DEF oracleVars, gatewayVars, Inv, TypeOK, DataInv, PoolTypes, Reasons
<1>4. DataInv'
  BY <1>2 DEF oracleVars, gatewayVars, Inv, DataInv
<1>5. ASSUME NEW t \in Sessions \ {s}
      PROVE  SessionInvOf(t)'
  <2>1. session[t].pc = "idle" => conn'[session[t].queue] = t
    BY <1>2, SessionTypes DEF SessionInvOf
  <2> QED BY <1>1, <1>2, <2>1, SessionKept, LenTypes DEF oracleVars, gatewayVars
<1>6. SessionInvOf(s)'
  BY <1>1, <1>2, RetryAssumption DEF SessionInvOf, Busy, Works
<1>7. ASSUME NEW p \in Queues, conn'[p] # None
      PROVE  session'[conn'[p]].queue = p /\ session'[conn'[p]].pc # "free"
  <2>1. /\ conn'[p] = conn[p] /\ conn[p] \in Sessions
        /\ session[conn[p]].queue = p /\ session[conn[p]].pc # "free"
    BY <1>2, <1>7, LineTypes
  <2> QED BY <1>1, <2>1
<1> QED BY <1>3, <1>4, <1>5, <1>6, <1>7 DEF Inv, SessionInv

(* A message goes to the end of its queue, the gateway's books change.     *)
LEMMA GatewayAt ==
    ASSUME Inv, NEW o \in Orders, GatewayStep(o)
    PROVE  /\ UNCHANGED <<kind, conn, session, pool, opened, oracleVars,
                          forwarded, gap, faults, losses>>
           /\ o \in forwarded
           /\ {live', excused'} \subseteq SUBSET Orders
           /\ completed' \subseteq completed \cup {o}
           /\ \/ UNCHANGED <<queue, statuses>>
              \/ \E status \in {"F", "C", "S"}, n \in 1..MaxTells :
                    /\ n = Len(statuses[o]) + 1
                    /\ statuses' \in [Orders -> Seq({"F", "C", "S"})]
                    /\ statuses'[o] = Append(statuses[o], status)
                    /\ \A x \in Orders \ {o} : statuses'[x] = statuses[x]
                    /\ queue' \in [Queues -> Seq(Messages)]
                    /\ queue'[queueOf[o]] =
                          Append(queue[queueOf[o]], [order |-> o, n |-> n])
                    /\ \A p \in Queues \ {queueOf[o]} : queue'[p] = queue[p]
<1>0. /\ {completed, live, excused} \subseteq SUBSET Orders
      /\ statuses \in [Orders -> Seq({"F", "C", "S"})]
      /\ queue \in [Queues -> Seq(Messages)]
      /\ MaxTells \in Nat
      /\ queueOf[o] \in Queues
  BY QueueAssumption, BoundAssumption DEF Inv, TypeOK, DataInv
<1>1. ASSUME NEW status \in {"F", "C", "S"}, GatewayTells(o, status)
      PROVE  /\ {live', excused'} \subseteq SUBSET Orders
             /\ completed' = completed
             /\ \E n \in 1..MaxTells :
                    /\ n = Len(statuses[o]) + 1
                    /\ statuses' \in [Orders -> Seq({"F", "C", "S"})]
                    /\ statuses'[o] = Append(statuses[o], status)
                    /\ \A x \in Orders \ {o} : statuses'[x] = statuses[x]
                    /\ queue' \in [Queues -> Seq(Messages)]
                    /\ queue'[queueOf[o]] =
                          Append(queue[queueOf[o]], [order |-> o, n |-> n])
                    /\ \A p \in Queues \ {queueOf[o]} : queue'[p] = queue[p]
  <2> DEFINE n == Len(statuses[o]) + 1  m == [order |-> o, n |-> n]
  <2>1. n \in 1..MaxTells
    BY <1>0, <1>1 DEF GatewayTells
  <2>2. m \in Messages
    BY <1>0, <2>1 DEF Messages
  <2>3. /\ statuses' = [statuses EXCEPT ![o] = Append(@, status)]
        /\ queue' = [queue EXCEPT ![queueOf[o]] = Append(@, m)]
    BY <1>1 DEF GatewayTells
  <2> HIDE DEF m
  <2>4. /\ statuses' \in [Orders -> Seq({"F", "C", "S"})]
        /\ statuses'[o] = Append(statuses[o], status)
        /\ \A x \in Orders \ {o} : statuses'[x] = statuses[x]
    BY <1>0, <2>3
  <2>5. /\ queue' \in [Queues -> Seq(Messages)]
        /\ queue'[queueOf[o]] = Append(queue[queueOf[o]], m)
        /\ \A p \in Queues \ {queueOf[o]} : queue'[p] = queue[p]
    BY <1>0, <2>2, <2>3
  <2>6. /\ live' \in {live \ {o}, live, live \cup {o}}
        /\ excused' = excused \/ excused' = excused \cup {o}
        /\ completed' = completed
    BY <1>1 DEF GatewayTells, Gateway!Tell
  <2> QED BY <1>0, <2>1, <2>4, <2>5, <2>6 DEF m
<1>2. ASSUME Gateway!Complete(o) \/ Gateway!TakeUp(o) \/ Gateway!Lose({o} \cap live)
      PROVE  /\ {live', excused'} \subseteq SUBSET Orders
             /\ completed' \subseteq completed \cup {o}
  BY <1>0, <1>2 DEF Gateway!Complete, Gateway!TakeUp, Gateway!Lose
<1> QED BY <1>1, <1>2 DEF GatewayStep

LEMMA AppendSet ==
    ASSUME NEW S, NEW L \in Seq(S), NEW x \in S
    PROVE  ToSet(Append(L, x)) = ToSet(L) \cup {x}
<1> DEFINE K == Append(L, x)
<1>1. /\ K \in Seq(S) /\ Len(K) = Len(L) + 1 /\ K[Len(L) + 1] = x
      /\ \A i \in 1..Len(L) : K[i] = L[i]
      /\ Len(L) \in Nat
  OBVIOUS
<1> HIDE DEF K
<1>2. \A y : y \in ToSet(K) <=> \E i \in 1..(Len(L) + 1) : K[i] = y
  <2>1. \A y : y \in ToSet(K) <=> \E i \in 1..Len(K) : K[i] = y
    BY <1>1, SetOfSeq
  <2> QED BY <1>1, <2>1
<1>3. \A y : y \in ToSet(L) <=> \E i \in 1..Len(L) : L[i] = y
  BY SetOfSeq
<1>4. ToSet(K) = ToSet(L) \cup {x}
  BY <1>1, <1>2, <1>3
<1> QED BY <1>4 DEF K

LEMMA GatewayInv ==
    ASSUME Inv, NEW o \in Orders, GatewayStep(o)
    PROVE  Inv'
<1>1. /\ UNCHANGED <<kind, conn, session, pool, opened, oracleVars,
                     forwarded, gap, faults, losses>>
      /\ o \in forwarded /\ forwarded \subseteq sold
      /\ {live', excused'} \subseteq SUBSET Orders
      /\ completed' \subseteq forwarded /\ completed' \subseteq Orders
  BY GatewayAt DEF Inv, DataInv, TypeOK
<1>2. /\ queue' \in [Queues -> Seq(Messages)]
      /\ statuses' \in [Orders -> Seq({"F", "C", "S"})]
      /\ \A x \in Orders : /\ Len(statuses[x]) \in Nat /\ Len(statuses'[x]) \in Nat
                           /\ Len(statuses[x]) <= Len(statuses'[x])
                           /\ Len(statuses'[x]) <= MaxTells
      /\ \A q \in Queues : \A m \in ToSet(queue'[q]) :
            queueOf[m.order] = q /\ m.n <= Len(statuses'[m.order])
  <2>0. /\ queue \in [Queues -> Seq(Messages)]
        /\ statuses \in [Orders -> Seq({"F", "C", "S"})]
        /\ \A x \in Orders : Len(statuses[x]) \in Nat /\ Len(statuses[x]) <= MaxTells
        /\ \A q \in Queues : \A m \in ToSet(queue[q]) :
              queueOf[m.order] = q /\ m.n <= Len(statuses[m.order])
    BY LenTypes DEF Inv, DataInv, TypeOK
  <2>1. CASE UNCHANGED <<queue, statuses>>
    BY <2>0, <2>1
  <2>2. CASE \E status \in {"F", "C", "S"}, n \in 1..MaxTells :
                /\ n = Len(statuses[o]) + 1
                /\ statuses' \in [Orders -> Seq({"F", "C", "S"})]
                /\ statuses'[o] = Append(statuses[o], status)
                /\ \A x \in Orders \ {o} : statuses'[x] = statuses[x]
                /\ queue' \in [Queues -> Seq(Messages)]
                /\ queue'[queueOf[o]] =
                      Append(queue[queueOf[o]], [order |-> o, n |-> n])
                /\ \A p \in Queues \ {queueOf[o]} : queue'[p] = queue[p]
    <3>1. PICK status \in {"F", "C", "S"}, n \in 1..MaxTells :
                /\ n = Len(statuses[o]) + 1
                /\ statuses' \in [Orders -> Seq({"F", "C", "S"})]
                /\ statuses'[o] = Append(statuses[o], status)
                /\ \A x \in Orders \ {o} : statuses'[x] = statuses[x]
                /\ queue' \in [Queues -> Seq(Messages)]
                /\ queue'[queueOf[o]] =
                      Append(queue[queueOf[o]], [order |-> o, n |-> n])
                /\ \A p \in Queues \ {queueOf[o]} : queue'[p] = queue[p]
      BY <2>2
    <3>2. statuses[o] \in Seq({"F", "C", "S"}) /\ Len(statuses'[o]) = n
      BY <2>0, <3>1
    <3>3. \A x \in Orders : /\ Len(statuses'[x]) \in Nat
                            /\ Len(statuses[x]) <= Len(statuses'[x])
                            /\ Len(statuses'[x]) <= MaxTells
      <4>1. ASSUME NEW x \in Orders \ {o}
            PROVE  statuses'[x] = statuses[x]
        BY <3>1
      <4>2. /\ Len(statuses[o]) \in Nat /\ Len(statuses'[o]) = Len(statuses[o]) + 1
            /\ Len(statuses'[o]) <= MaxTells
        BY <2>0, <3>1, <3>2, BoundAssumption
      <4> QED BY <2>0, <4>1, <4>2
    <3>4. /\ queueOf[o] \in Queues /\ [order |-> o, n |-> n] \in Messages
          /\ queue[queueOf[o]] \in Seq(Messages)
      <4>1. queueOf[o] \in Queues /\ n \in 0..MaxTells
        BY QueueAssumption, BoundAssumption
      <4> QED BY <2>0, <4>1 DEF Messages
    <3>5. ToSet(queue'[queueOf[o]]) = ToSet(queue[queueOf[o]]) \cup {[order |-> o, n |-> n]}
      <4>1. queue'[queueOf[o]] = Append(queue[queueOf[o]], [order |-> o, n |-> n])
        BY <3>1
      <4>2. ToSet(Append(queue[queueOf[o]], [order |-> o, n |-> n]))
               = ToSet(queue[queueOf[o]]) \cup {[order |-> o, n |-> n]}
        BY <3>4, AppendSet
      <4> QED BY <4>1, <4>2
    <3>6. ASSUME NEW q \in Queues, NEW m \in ToSet(queue'[q])
          PROVE  queueOf[m.order] = q /\ m.n <= Len(statuses'[m.order])
      <4>1. CASE m \in ToSet(queue[q])
        <5>1. queue[q] \in Seq(Messages)
          BY <2>0
        <5>2. m \in Messages
          BY <4>1, <5>1, SetOfSeq
        <5>3. m.order \in Orders /\ m.n \in Nat
          BY <5>2 DEF Messages
        <5> QED BY <2>0, <3>3, <4>1, <5>3
      <4>2. CASE q = queueOf[o] /\ m = [order |-> o, n |-> n]
        BY <3>2, <4>2
      <4> QED BY <3>1, <3>5, <3>6, <4>1, <4>2
    <3> QED BY <2>0, <3>1, <3>3, <3>6
  <2> QED BY <2>1, <2>2, GatewayAt
<1>3. TypeOK'
  <2>1. /\ conn' \in [Queues -> Sessions \cup {None}]
        /\ session' \in [Sessions -> Records] /\ PoolTypes'
    BY <1>1, SessionTypes DEF Inv, TypeOK, PoolTypes
  <2>2. /\ {sold', refused', overtaken', forwarded', completed', live', excused'}
              \subseteq SUBSET Orders
        /\ applied' \in [Orders -> SUBSET (1..MaxTells)]
        /\ gap' \in [Orders -> SUBSET (Calls \X Reasons)]
        /\ losses' \in Nat
    BY <1>1 DEF oracleVars, Inv, TypeOK, Reasons
  <2> QED BY <1>1, <1>2, <2>1, <2>2, TypesFrom
<1>4. \A x \in Orders : applied'[x] \subseteq 1..Len(statuses'[x])
  <2>1. \A x \in Orders : applied'[x] = applied[x] /\ applied[x] \subseteq 1..Len(statuses[x])
    BY <1>1 DEF oracleVars, Inv, DataInv
  <2>2. \A x \in Orders : 1..Len(statuses[x]) \subseteq 1..Len(statuses'[x])
    BY <1>2
  <2> QED BY <2>1, <2>2
<1>5. DataInv'
  <2>1. \A x \in Orders : Len(statuses'[x]) > 0 => x \in forwarded
    BY <1>1, GatewayAt DEF Inv, DataInv
  <2> QED BY <1>1, <1>2, <1>4, <2>1 DEF oracleVars, Inv, DataInv
<1>6. ASSUME NEW t \in Sessions
      PROVE  SessionInvOf(t)'
  <2>1. session[t].pc = "idle" => conn'[session[t].queue] = t
    BY <1>1, SessionTypes DEF SessionInvOf
  <2> QED BY <1>1, <1>2, <2>1, SessionKept DEF oracleVars
<1> QED BY <1>1, <1>3, <1>5, <1>6 DEF Inv, SessionInv

LEMMA PrependSet ==
    ASSUME NEW S, NEW L \in Seq(S), NEW x \in S
    PROVE  ToSet(<<x>> \o L) = {x} \cup ToSet(L)
<1> DEFINE K == <<x>> \o L
<1>1. /\ K \in Seq(S) /\ Len(K) = Len(L) + 1 /\ K[1] = x
      /\ \A i \in 1..Len(L) : K[i + 1] = L[i]
      /\ Len(L) \in Nat
  OBVIOUS
<1> HIDE DEF K
<1>2. \A y : y \in ToSet(K) <=> \E i \in 1..(Len(L) + 1) : K[i] = y
  <2>1. \A y : y \in ToSet(K) <=> \E i \in 1..Len(K) : K[i] = y
    BY <1>1, SetOfSeq
  <2> QED BY <1>1, <2>1
<1>3. \A y : y \in ToSet(L) <=> \E i \in 1..Len(L) : L[i] = y
  BY SetOfSeq
<1>4. ASSUME NEW i \in 1..(Len(L) + 1)
      PROVE  i = 1 \/ \E j \in 1..Len(L) : i = j + 1
  <2>1. i = 1 \/ (i - 1 \in 1..Len(L) /\ i = (i - 1) + 1)
    BY <1>1
  <2> QED BY <2>1
<1>5. ToSet(K) = ToSet(L) \cup {x}
  <2>1. ASSUME NEW y \in ToSet(K)
        PROVE  y = x \/ y \in ToSet(L)
    <3>1. PICK i \in 1..(Len(L) + 1) : K[i] = y
      BY <1>2, <2>1
    <3> QED BY <1>1, <1>3, <1>4, <3>1
  <2>2. ASSUME NEW y \in ToSet(L)
        PROVE  y \in ToSet(K)
    <3>1. PICK i \in 1..Len(L) : L[i] = y
      BY <1>3, <2>2
    <3>2. i + 1 \in 1..(Len(L) + 1) /\ K[i + 1] = y
      BY <1>1, <3>1
    <3> QED BY <1>2, <3>2
  <2>3. x \in ToSet(K)
    BY <1>1, <1>2
  <2> QED BY <2>1, <2>2, <2>3
<1> QED BY <1>5 DEF K

LEMMA LineMembers ==
    ASSUME Inv, NEW q \in Queues, NEW m
    PROVE  /\ m \in ToSet(Requeued(q)) <=>
                \/ m \in ToSet(queue[q])
                \/ conn[q] \in Sessions /\ Busy(conn[q]) /\ session[conn[q]].msg = m
           /\ m \in ToSet(Requeued(q)) =>
                m \in Messages /\ queueOf[m.order] = q /\ m.n <= Len(statuses[m.order])
<1>1. queue[q] \in Seq(Messages)
  BY LineTypes
<1>2. m \in ToSet(queue[q]) =>
         m \in Messages /\ queueOf[m.order] = q /\ m.n <= Len(statuses[m.order])
  BY <1>1, SetOfSeq DEF Inv, DataInv
<1>3. CASE Requeued(q) = queue[q] /\ (conn[q] = None \/ session[conn[q]].pc = "idle")
  <2>1. ~(conn[q] \in Sessions /\ Busy(conn[q]))
    BY <1>3, SessionAssumption DEF Busy
  <2> QED BY <1>2, <1>3, <2>1
<1>4. CASE /\ conn[q] \in Sessions /\ Busy(conn[q])
           /\ session[conn[q]].msg \in Messages
           /\ Requeued(q) = <<session[conn[q]].msg>> \o queue[q]
  <2>1. ToSet(Requeued(q)) = {session[conn[q]].msg} \cup ToSet(queue[q])
    BY <1>1, <1>4, PrependSet
  <2>2. LET x == session[conn[q]].msg IN
        queueOf[x.order] = q /\ x.n <= Len(statuses[x.order])
    BY <1>4, SessionTypes, LineTypes, SessionAssumption DEF SessionInvOf
  <2> QED BY <1>2, <1>4, <2>1, <2>2
<1> QED BY <1>3, <1>4, LineTypes

LEMMA ConnectionLostInv ==
    ASSUME Inv, NEW q \in Queues, ConnectionLost(q)
    PROVE  Inv'
<1> DEFINE s == conn[q]
<1>0. /\ s \in Sessions /\ session[s].queue = q /\ session[s].pc # "free"
      /\ session \in [Sessions -> Records] /\ conn \in [Queues -> Sessions \cup {None}]
      /\ queue \in [Queues -> Seq(Messages)] /\ Requeued(q) \in Seq(Messages)
      /\ losses \in Nat
  BY SessionTypes, LineTypes DEF ConnectionLost, Inv, TypeOK, DataInv
<1>1. /\ queue' \in [Queues -> Seq(Messages)]
      /\ queue'[q] = Requeued(q)
      /\ \A p \in Queues \ {q} : queue'[p] = queue[p]
      /\ conn' \in [Queues -> Sessions \cup {None}]
      /\ conn'[q] = None
      /\ \A p \in Queues \ {q} : conn'[p] = conn[p]
      /\ losses' \in Nat
      /\ UNCHANGED <<kind, pool, opened, oracleVars, forwarded, gatewayVars, gap,
                     faults>>
  BY <1>0 DEF ConnectionLost
<1>2. /\ session' \in [Sessions -> Records]
      /\ \A t \in Sessions \ {s} : session'[t] = session[t]
      /\ session'[s] = IF session[s].pc = "idle" THEN Fresh ELSE session[s]
  BY <1>0, FreshTypes DEF ConnectionLost
<1> HIDE DEF s
<1>3. TypeOK'
  <2>1. /\ {sold', refused', overtaken', forwarded', completed', live', excused'}
              \subseteq SUBSET Orders
        /\ applied' \in [Orders -> SUBSET (1..MaxTells)]
        /\ gap' \in [Orders -> SUBSET (Calls \X Reasons)]
        /\ statuses' \in [Orders -> Seq({"F", "C", "S"})]
        /\ \A o \in Orders : Len(statuses'[o]) <= MaxTells
        /\ PoolTypes'
    BY <1>1, SessionTypes
       DEF oracleVars, gatewayVars, Inv, TypeOK, DataInv, Reasons, PoolTypes
  <2> QED BY <1>1, <1>2, <2>1, TypesFrom
<1>4. DataInv'
  <2>1. \A p \in Queues : \A m \in ToSet(queue'[p]) :
           queueOf[m.order] = p /\ m.n <= Len(statuses[m.order])
    BY <1>1, LineMembers DEF Inv, DataInv
  <2> QED BY <1>1, <2>1 DEF oracleVars, gatewayVars, Inv, DataInv
<1>5. ASSUME NEW t \in Sessions
      PROVE  SessionInvOf(t)'
  <2>1. CASE session'[t] = session[t]
    <3>1. session[t].pc = "idle" => conn[session[t].queue] = t /\ t # s
      BY <1>2, <2>1, SessionTypes DEF SessionInvOf, Fresh
    <3>2. session[t].pc = "idle" => session[t].queue \in Queues /\ session[t].queue # q
      BY <3>1, SessionTypes DEF SessionInvOf, s
    <3>3. session[t].pc = "idle" => conn'[session[t].queue] = t
      BY <1>1, <3>1, <3>2
    <3> QED BY <1>1, <2>1, <3>3, SessionKept, LenTypes DEF oracleVars, gatewayVars
  <2>2. CASE session'[t] = Fresh
    BY <2>2, RetryAssumption DEF SessionInvOf, Fresh, Busy, Works
  <2> QED BY <1>2, <2>1, <2>2
<1>6. ASSUME NEW p \in Queues, conn'[p] # None
      PROVE  session'[conn'[p]].queue = p /\ session'[conn'[p]].pc # "free"
  <2>1. /\ p # q /\ conn'[p] = conn[p] /\ conn[p] \in Sessions
        /\ session[conn[p]].queue = p /\ session[conn[p]].pc # "free"
    BY <1>1, <1>6, LineTypes
  <2>2. conn[p] # s
    BY <1>0, <2>1
  <2> QED BY <1>2, <2>1, <2>2
<1> QED BY <1>3, <1>4, <1>5, <1>6 DEF Inv, SessionInv

LEMMA RestartInv ==
    ASSUME Inv, Restart
    PROVE  Inv'
<1>1. /\ losses' \in Nat
      /\ queue' = [q \in Queues |-> Requeued(q)]
      /\ conn' = [q \in Queues |-> None]
      /\ session' = [s \in Sessions |-> Fresh]
      /\ pool' = opened + 1 /\ opened' = opened + 1
      /\ UNCHANGED <<kind, oracleVars, forwarded, gatewayVars, faults>>
      /\ gap' = [o \in Orders |-> gap[o] \cup
                  (IF OnlyOrphanForwards(o) THEN {<<"sell", "crash">>} ELSE {})]
  BY DEF Restart, Inv, TypeOK
<1>2. queue' \in [Queues -> Seq(Messages)]
  BY <1>1, LineTypes
<1>3. TypeOK'
  <2>1. /\ {sold', refused', overtaken', forwarded', completed', live', excused'}
              \subseteq SUBSET Orders
        /\ applied' \in [Orders -> SUBSET (1..MaxTells)]
        /\ statuses' \in [Orders -> Seq({"F", "C", "S"})]
        /\ \A o \in Orders : Len(statuses'[o]) <= MaxTells
        /\ PoolTypes'
    <3>1. PoolTypes'
      BY <1>1, SessionTypes DEF PoolTypes
    <3> QED BY <1>1, <3>1 DEF oracleVars, gatewayVars, Inv, TypeOK, DataInv
  <2>2. gap' \in [Orders -> SUBSET (Calls \X Reasons)]
    <3>1. /\ gap \in [Orders -> SUBSET (Calls \X Reasons)]
          /\ <<"sell", "crash">> \in Calls \X Reasons
      BY DEF Inv, TypeOK, Reasons, Calls
    <3> QED BY <1>1, <3>1
  <2>3. /\ conn' \in [Queues -> Sessions \cup {None}]
        /\ session' \in [Sessions -> Records]
    BY <1>1, FreshTypes
  <2> QED BY <1>1, <1>2, <2>1, <2>2, <2>3, TypesFrom
<1>4. DataInv'
  <2>1. \A p \in Queues : \A m \in ToSet(queue'[p]) :
           queueOf[m.order] = p /\ m.n <= Len(statuses[m.order])
    BY <1>1, LineMembers
  <2> QED BY <1>1, <1>2, <2>1 DEF oracleVars, gatewayVars, Inv, DataInv
<1>5. SessionInv'
  BY <1>1, RetryAssumption DEF SessionInv, SessionInvOf, Fresh, Busy, Works
<1> QED BY <1>3, <1>4, <1>5 DEF Inv

-----------------------------------------------------------------------------
(* The initial queues hold each order once *)

LEMMA SetAsSeq ==
    ASSUME NEW S, IsFiniteSet(S)
    PROVE  /\ SetToSeq(S) \in Seq(S)
           /\ ToSet(SetToSeq(S)) = S
           /\ IsInjective(SetToSeq(S))
<1>1. /\ Cardinality(S) \in Nat
      /\ ExistsBijection(1..Cardinality(S), S)
  BY FS_CardinalityType
<1>2. \E f \in [1..Cardinality(S) -> S] : IsInjective(f)
  BY <1>1 DEF ExistsBijection, Bijection, Injection
<1>3. SetToSeq(S) \in [1..Cardinality(S) -> S] /\ IsInjective(SetToSeq(S))
  BY <1>2 DEF SetToSeq
<1>4. SetToSeq(S) \in Injection(1..Cardinality(S), S)
  BY <1>3 DEF Injection
<1>5. Cardinality(1..Cardinality(S)) = Cardinality(S)
  BY <1>1, FS_Interval
<1>6. SetToSeq(S) \in Surjection(1..Cardinality(S), S)
  BY <1>4, <1>5, FS_Injection
<1>7. SetToSeq(S) \in Seq(S) /\ DOMAIN SetToSeq(S) = 1..Cardinality(S)
  BY <1>1, <1>3
<1>8. ToSet(SetToSeq(S)) = S
  BY <1>3, <1>6, <1>7 DEF ToSet, Surjection
<1> QED BY <1>3, <1>7, <1>8

NewOrders(q) == {[order |-> o, n |-> 0] : o \in {x \in Orders : queueOf[x] = q}}

LEMMA InitialQueues ==
    ASSUME Init, NEW q \in Queues
    PROVE  /\ queue[q] \in Seq(Messages)
           /\ ToSet(queue[q]) = NewOrders(q)
           /\ IsInjective(queue[q])
           /\ \A m \in ToSet(queue[q]) :
                 m.order \in Orders /\ queueOf[m.order] = q /\ m.n = 0
<1> DEFINE X == {x \in Orders : queueOf[x] = q}
           S == {[order |-> o, n |-> 0] : o \in X}
<1>1. IsFiniteSet(X)
  BY OrderAssumption, FS_Subset
<1>2. [o \in X |-> [order |-> o, n |-> 0]] \in Surjection(X, S)
  BY DEF Surjection
<1>3. IsFiniteSet(S)
  BY <1>1, <1>2, FS_Surjection
<1>4. queue[q] = SetToSeq(S)
  BY DEF Init
<1>5. S \subseteq Messages
  BY BoundAssumption DEF Messages
<1>6. S = NewOrders(q)
  BY DEF NewOrders
<1> HIDE DEF S
<1>7. queue[q] \in Seq(S) /\ ToSet(queue[q]) = S /\ IsInjective(queue[q])
  BY <1>3, <1>4, SetAsSeq
<1>8. queue[q] \in Seq(Messages)
  BY <1>5, <1>7
<1>9. \A m \in ToSet(queue[q]) : m.order \in Orders /\ queueOf[m.order] = q /\ m.n = 0
  BY <1>7 DEF S
<1> QED BY <1>6, <1>7, <1>8, <1>9

LEMMA InitInv ==
    ASSUME Init
    PROVE  Inv
<1>1. queue \in [Queues -> Seq(Messages)]
  <2>1. \A q \in Queues : queue[q] \in Seq(Messages)
    BY InitialQueues
  <2> QED BY <2>1 DEF Init
<1>2. \A q \in Queues : \A m \in ToSet(queue[q]) : queueOf[m.order] = q /\ m.n = 0
  BY InitialQueues
<1>3. /\ statuses \in [Orders -> Seq({"F", "C", "S"})]
      /\ \A o \in Orders : Len(statuses[o]) = 0 /\ Range(statuses[o]) = {}
  BY DEF Init, Range
<1>4. session \in [Sessions -> Records]
  BY FreshTypes DEF Init
<1>5. TypeOK
  <2>1. \A q \in Queues : ToSet(queue[q]) \subseteq Messages
    BY <1>1, SetOfSeq
  <2>2. /\ kind \in [Orders -> Kinds] /\ conn \in [Queues -> Sessions \cup {None}]
        /\ pool \in (1..opened) \cup {None} /\ opened \in Nat
        /\ {sold, refused, overtaken, forwarded, completed, live, excused}
             \subseteq SUBSET Orders
        /\ applied \in [Orders -> SUBSET (1..MaxTells)]
        /\ gap \in [Orders -> SUBSET (Calls \X Reasons)]
        /\ {faults, losses} \subseteq Nat
    BY DEF Init
  <2>3. \A o \in Orders : Len(statuses[o]) <= MaxTells
    BY <1>3, BoundAssumption
  <2> QED BY <1>3, <1>4, <2>1, <2>2, <2>3 DEF TypeOK, Records, Reasons
<1>6. DataInv
  <2>1. \A q \in Queues : \A m \in ToSet(queue[q]) :
           queueOf[m.order] = q /\ m.n <= Len(statuses[m.order])
    BY <1>2, <1>3, InitialQueues
  <2>2. /\ \A o \in Orders : applied[o] \subseteq 1..Len(statuses[o])
        /\ forwarded \subseteq sold /\ completed \subseteq forwarded
        /\ forwarded = {}
    BY DEF Init
  <2> QED BY <1>1, <1>3, <2>1, <2>2 DEF DataInv
<1>7. SessionInv
  BY RetryAssumption DEF Init, SessionInv, SessionInvOf, Fresh, Busy, Works
<1> QED BY <1>5, <1>6, <1>7 DEF Inv

LEMMA InvStep ==
    ASSUME Inv, [Next]_vars
    PROVE  Inv'
<1>1. CASE UNCHANGED vars
  BY <1>1 DEF vars, oracleVars, gatewayVars, Inv, TypeOK, DataInv, SessionInv,
     SessionInvOf, Busy, Works
<1>2. ASSUME NEW q \in Queues, NEW s \in Sessions, Dial(q, s)
      PROVE  Inv'
  BY <1>2, DialInv
<1>3. ASSUME NEW q \in Queues, ConnectionLost(q)
      PROVE  Inv'
  BY <1>3, ConnectionLostInv
<1>4. ASSUME NEW s \in Sessions, Step(s)
      PROVE  Inv'
  BY <1>4, SessionSteps, DeliverInv, AckInv, ProceedsInv
<1>5. ASSUME NEW o \in Orders, GatewayStep(o)
      PROVE  Inv'
  BY <1>5, GatewayInv
<1>6. CASE Restart
  BY <1>6, RestartInv
<1> QED BY <1>1, <1>2, <1>3, <1>4, <1>5, <1>6 DEF Next

(* Fulfilment keeps its types and the records of its goroutines.           *)
THEOREM InvCorrect == Spec => []Inv
<1>1. Init => Inv
  BY InitInv
<1>2. Inv /\ [Next]_vars => Inv'
  BY InvStep
<1> QED BY <1>1, <1>2, PTL DEF Spec

(* Every variable of Fulfilment keeps the type its code gives it.          *)
THEOREM TypeCorrect == Spec => []TypeOK
<1>1. Inv => TypeOK
  BY DEF Inv
<1> QED BY <1>1, InvCorrect, PTL

(* No provider is asked for an order that Oracle did not sell, whatever is *)
(* redelivered, repeated or lost.                                          *)
THEOREM SoldCorrect == Spec => []SoldBeforeForwarded
<1>1. Inv => SoldBeforeForwarded
  BY DEF Inv, DataInv, SoldBeforeForwarded
<1> QED BY <1>1, InvCorrect, PTL

-----------------------------------------------------------------------------
(* The line of a queue *)

LEMMA HeadAndTail ==
    ASSUME NEW S, NEW L \in Seq(S), L # <<>>
    PROVE  <<Head(L)>> \o Tail(L) = L
<1> DEFINE K == <<Head(L)>> \o Tail(L)
<1>1. /\ Head(L) \in S /\ Tail(L) \in Seq(S) /\ Head(L) = L[1]
      /\ Len(Tail(L)) = Len(L) - 1 /\ Len(L) \in Nat \ {0}
      /\ \A i \in 1..Len(Tail(L)) : Tail(L)[i] = L[i + 1]
  BY HeadTailProperties
<1>2. /\ K \in Seq(S) /\ Len(K) = Len(L)
      /\ \A i \in 1..Len(L) : K[i] = IF i <= 1 THEN Head(L) ELSE Tail(L)[i - 1]
  BY <1>1, ConcatProperties
<1> HIDE DEF K
<1>3. ASSUME NEW i \in 1..Len(L)
      PROVE  K[i] = L[i]
  <2>1. CASE i = 1
    BY <1>1, <1>2, <2>1
  <2>2. CASE i # 1
    <3>1. i - 1 \in 1..Len(Tail(L)) /\ (i - 1) + 1 = i
      BY <1>1, <2>2
    <3> QED BY <1>1, <1>2, <2>2, <3>1
  <2> QED BY <2>1, <2>2
<1>4. K = L
  BY <1>2, <1>3, SeqEqual
<1> QED BY <1>4 DEF K

(* Which line is which after a step. *)
LEMMA LineSame ==
    ASSUME Inv, NEW q \in Queues,
           \/ \E p \in Queues, s \in Sessions : Dial(p, s)
           \/ \E s \in Sessions : Deliver(s) \/ Proceeds(s)
           \/ \E s \in Sessions : Ack(s) /\ conn[session[s].queue] # s
           \/ \E p \in Queues : ConnectionLost(p)
           \/ Restart
    PROVE  Requeued(q)' = Requeued(q)
<1>0. /\ queue[q] \in Seq(Messages) /\ Requeued(q) \in Seq(Messages)
      /\ conn[q] \in Sessions \cup {None}
      /\ conn[q] # None => /\ session[conn[q]].queue = q
                           /\ session[conn[q]].pc # "free"
      /\ session \in [Sessions -> Records] /\ conn \in [Queues -> Sessions \cup {None}]
      /\ queue \in [Queues -> Seq(Messages)]
      /\ None \notin Sessions /\ NoMessage \notin Messages
  BY LineTypes, SessionTypes, SessionAssumption, OrderAssumption
     DEF Inv, DataInv, TypeOK, NoMessage, Messages
<1>1. ASSUME conn'[q] = conn[q], queue'[q] = queue[q],
             conn[q] # None => session'[conn[q]].msg = session[conn[q]].msg
      PROVE  Requeued(q)' = Requeued(q)
  BY <1>1 DEF Requeued
<1>2. ASSUME NEW p \in Queues, NEW s \in Sessions, Dial(p, s)
      PROVE  Requeued(q)' = Requeued(q)
  <2>1. /\ conn[p] = None /\ session[s].pc = "free" /\ session[s].msg = NoMessage
        /\ conn' = [conn EXCEPT ![p] = s] /\ queue' = queue
        /\ \A t \in Sessions : session'[t].msg = session[t].msg
    BY <1>0, <1>2, SessionTypes DEF Dial, SessionInvOf, Busy, Records
  <2>2. CASE q = p
    BY <1>0, <2>1, <2>2 DEF Requeued
  <2>3. CASE q # p
    BY <1>0, <1>1, <2>1, <2>3
  <2> QED BY <2>2, <2>3
<1>3. ASSUME NEW s \in Sessions, Deliver(s)
      PROVE  Requeued(q)' = Requeued(q)
  <2>1. PICK p \in Queues, m \in Messages :
           /\ p = session[s].queue /\ conn[p] = s /\ session[s].pc = "idle"
           /\ queue[p] # <<>> /\ m = Head(queue[p])
           /\ queue'[p] = Tail(queue[p])
           /\ \A r \in Queues \ {p} : queue'[r] = queue[r]
           /\ \A t \in Sessions \ {s} : session'[t] = session[t]
           /\ session'[s].msg = m
    BY <1>3, DeliverAt
  <2>2. conn' = conn
    BY <1>3 DEF Deliver
  <2>3. CASE q = p
    <3>1. Requeued(q) = queue[q]
      BY <2>1, <2>3, LineTypes DEF Busy
    <3>2. Requeued(q)' = <<m>> \o Tail(queue[q])
      BY <1>0, <2>1, <2>2, <2>3 DEF Requeued
    <3> QED BY <1>0, <2>1, <2>3, <3>1, <3>2, HeadAndTail
  <2>4. CASE q # p
    <3>1. conn[q] # s
      BY <1>0, <2>1, <2>4
    <3> QED BY <1>0, <1>1, <2>1, <2>2, <2>4, <3>1
  <2> QED BY <2>3, <2>4
<1>4. ASSUME NEW s \in Sessions, Proceeds(s)
      PROVE  Requeued(q)' = Requeued(q)
  <2>1. Stays(s)
    BY <1>4 DEF Proceeds, Continues, Sells, Settles, GivesUp, IsRefused, Forwards
  <2> QED BY <1>0, <1>1, <2>1 DEF Stays, Changed
<1>5. ASSUME NEW s \in Sessions, Ack(s), conn[session[s].queue] # s
      PROVE  Requeued(q)' = Requeued(q)
  <2>1. \A t \in Sessions \ {s} : session'[t] = session[t]
    BY <1>5, AckAt
  <2>2. conn' = conn /\ queue' = queue
    BY <1>5 DEF Ack
  <2>3. conn[q] # s
    BY <1>0, <1>5
  <2> QED BY <1>0, <1>1, <2>1, <2>2, <2>3
<1>6. ASSUME NEW p \in Queues, ConnectionLost(p)
      PROVE  Requeued(q)' = Requeued(q)
  <2>1. /\ conn[p] # None
        /\ queue' = [queue EXCEPT ![p] = Requeued(p)]
        /\ conn' = [conn EXCEPT ![p] = None]
        /\ session' = [session EXCEPT ![conn[p]] = IF @.pc = "idle" THEN Fresh ELSE @]
    BY <1>6 DEF ConnectionLost
  <2>2. CASE q = p
    BY <1>0, <2>1, <2>2 DEF Requeued
  <2>3. CASE q # p
    <3>1. conn[q] # None => conn[q] # conn[p]
      BY <1>0, <2>1, <2>3, LineTypes
    <3> QED BY <1>0, <1>1, <2>1, <2>3, <3>1
  <2> QED BY <2>2, <2>3
<1>7. CASE Restart
  BY <1>7 DEF Restart, Requeued
<1> QED BY <1>2, <1>3, <1>4, <1>5, <1>6, <1>7

LEMMA LineAcked ==
    ASSUME Inv, NEW s \in Sessions, Ack(s), conn[session[s].queue] = s,
           NEW q \in Queues
    PROVE  IF q = session[s].queue
           THEN /\ Requeued(q)' = queue[q]
                /\ Requeued(q) = <<session[s].msg>> \o queue[q]
                /\ session[s].msg \in Messages
           ELSE Requeued(q)' = Requeued(q)
<1>1. /\ \A t \in Sessions \ {s} : session'[t] = session[t]
      /\ session'[s].msg = NoMessage /\ session[s].pc = "ack"
      /\ conn' = conn /\ queue' = queue
  BY AckAt DEF Ack
<1>2. CASE q = session[s].queue
  <2>1. conn[q] = s /\ s # None /\ session[s].pc # "idle"
    BY <1>1, <1>2, SessionAssumption
  <2>2. /\ Requeued(q) = <<session[s].msg>> \o queue[q]
        /\ session[s].msg \in Messages
    BY <2>1, LineTypes
  <2>3. Requeued(q)' = queue[q]
    BY <1>1, <2>1 DEF Requeued
  <2> QED BY <1>2, <2>2, <2>3
<1>3. CASE q # session[s].queue
  <2>1. conn[q] \in Sessions \cup {None} /\ conn[q] # s
    BY <1>3, LineTypes, SessionAssumption
  <2> QED BY <1>1, <1>3, <2>1 DEF Requeued
<1> QED BY <1>2, <1>3

LEMMA LineTold ==
    ASSUME Inv, NEW q \in Queues, NEW m \in Messages, UNCHANGED <<conn, session>>,
           queue'[q] = Append(queue[q], m)
    PROVE  Requeued(q)' = Append(Requeued(q), m)
<1>1. queue[q] \in Seq(Messages)
  BY LineTypes
<1>2. CASE Requeued(q) = queue[q] /\ (conn[q] = None \/ session[conn[q]].pc = "idle")
  <2>1. conn[q] = None \/ session[conn[q]].msg = NoMessage
    BY <1>2, LineTypes, SessionTypes DEF SessionInvOf, Busy
  <2> QED BY <1>2, <2>1 DEF Requeued
<1>3. CASE /\ conn[q] \in Sessions /\ Busy(conn[q])
           /\ session[conn[q]].msg \in Messages
           /\ Requeued(q) = <<session[conn[q]].msg>> \o queue[q]
  <2>1. conn[q] # None /\ session[conn[q]].msg # NoMessage
    BY <1>3, SessionAssumption, OrderAssumption DEF NoMessage, Messages
  <2>2. Requeued(q)' = <<session[conn[q]].msg>> \o Append(queue[q], m)
    BY <2>1 DEF Requeued
  <2>3. ASSUME NEW x \in Messages, NEW L \in Seq(Messages)
        PROVE  <<x>> \o Append(L, m) = Append(<<x>> \o L, m)
    <3>1. /\ <<x>> \o Append(L, m) \in Seq(Messages)
          /\ Append(<<x>> \o L, m) \in Seq(Messages)
          /\ Len(<<x>> \o Append(L, m)) = Len(Append(<<x>> \o L, m))
          /\ \A i \in 1..Len(<<x>> \o Append(L, m)) :
                (<<x>> \o Append(L, m))[i] = Append(<<x>> \o L, m)[i]
      OBVIOUS
    <3> QED BY <3>1, SeqEqual
  <2> QED BY <1>1, <1>3, <2>2, <2>3
<1> QED BY <1>2, <1>3, LineTypes

(* No step puts something newer in the way of a message of the line.       *)
LEMMA ComingKept ==
    ASSUME Inv, NEW m \in Messages, Coming(m),
           \A s \in Sessions :
              \/ session'[s].msg = session[s].msg
              \/ session'[s].msg = NoMessage
              \/ session'[s].msg.order = m.order => session'[s].msg.n <= m.n,
           \A k \in applied'[m.order] : k \in applied[m.order] \/ k <= m.n
    PROVE  Coming(m)'
<1>1. NoMessage.order # m.order
  BY OrderAssumption DEF NoMessage, Messages
<1> QED BY <1>1 DEF Coming

LEMMA LineFrom ==
    ASSUME NEW q \in Queues, NEW K, Requeued(q)' = K, InOrder(K),
           \A i \in 1..Len(K) : Coming(K[i])'
    PROVE  LineInvOf(q)'
BY DEF LineInvOf, InOrder, Coming

LEMMA LineSameInv ==
    ASSUME Inv, LineInv, NEW q \in Queues, Requeued(q)' = Requeued(q),
           \A m \in Messages : Coming(m) /\ m \in ToSet(Requeued(q)) => Coming(m)'
    PROVE  LineInvOf(q)'
<1>1. PICK K \in Seq(Messages) : K = Requeued(q)
  BY LineTypes
<1>2. InOrder(K) /\ \A i \in 1..Len(K) : Coming(K[i])
  BY <1>1 DEF LineInv, LineInvOf
<1>3. ASSUME NEW i \in 1..Len(K)
      PROVE  Coming(K[i])'
  <2>1. K[i] \in Messages /\ K[i] \in ToSet(K)
    BY SetOfSeq
  <2> QED BY <1>1, <1>2, <2>1
<1> QED BY <1>1, <1>2, <1>3, LineFrom

LEMMA LineProceeds ==
    ASSUME Inv, LineInv, NEW s \in Sessions, Proceeds(s)
    PROVE  LineInv'
<1>1. OracleStep(s) /\ Stays(s) /\ Busy(s) /\ OrderOf(s) \in Orders
  <2>1. Stays(s) /\ Busy(s)
    BY DEF Proceeds, Continues, Sells, Settles, GivesUp, IsRefused, Forwards,
           Stays, Works
  <2> QED BY <2>1, OracleSteps, HandTypes
<1>2. ASSUME NEW m \in Messages, Coming(m)
      PROVE  Coming(m)'
  <2>1. \A t \in Sessions : session'[t].msg = session[t].msg
    BY <1>1 DEF Stays, Changed
  <2>2. m.order \in Orders /\ (OrderOf(s) = m.order => session[s].msg.n <= m.n)
    BY <1>2 DEF Coming, OrderOf, Messages
  <2>3. \A k \in applied'[m.order] : k \in applied[m.order] \/ k <= m.n
    BY <1>1, <2>2 DEF OracleStep
  <2> QED BY <1>2, <2>1, <2>3, ComingKept
<1>3. ASSUME NEW q \in Queues
      PROVE  LineInvOf(q)'
  BY <1>2, LineSame, LineSameInv
<1> QED BY <1>3 DEF LineInv

LEMMA LineDelivered ==
    ASSUME Inv, LineInv, NEW s \in Sessions, Deliver(s)
    PROVE  LineInv'
<1>1. PICK p \in Queues, x \in Messages :
         /\ p = session[s].queue /\ conn[p] = s /\ session[s].pc = "idle"
         /\ queue[p] # <<>> /\ x = Head(queue[p])
         /\ \A t \in Sessions \ {s} : session'[t] = session[t]
         /\ session'[s].msg = x
  BY DeliverAt
<1>2. applied' = applied
  BY DEF Deliver, oracleVars
<1>3. PICK K \in Seq(Messages) : K = Requeued(p)
  BY LineTypes
<1>4. K = queue[p] /\ K # <<>> /\ x = K[1] /\ 1 \in 1..Len(K)
  <2>1. K = queue[p]
    BY <1>1, <1>3, LineTypes DEF Busy
  <2> QED BY <1>1, <2>1
<1>5. InOrder(K) /\ \A i \in 1..Len(K) : Coming(K[i]) /\ K[i] \in Messages
  BY <1>3 DEF LineInv, LineInvOf
<1>6. ASSUME NEW i \in 1..Len(K)
      PROVE  x.order = K[i].order => x.n <= K[i].n
  <2>1. CASE i = 1
    BY <1>4, <2>1 DEF Messages
  <2>2. CASE i # 1
    BY <1>4, <1>5, <2>2 DEF InOrder
  <2> QED BY <2>1, <2>2
<1>7. ASSUME NEW i \in 1..Len(K)
      PROVE  Coming(K[i])'
  <2>1. PICK m \in Messages : m = K[i]
    BY <1>5
  <2>2. Coming(m) /\ (x.order = m.order => x.n <= m.n)
    BY <1>5, <1>6, <2>1
  <2>3. Coming(m)'
    BY <1>1, <1>2, <2>2, ComingKept
  <2> QED BY <2>1, <2>3
<1>8. ASSUME NEW q \in Queues \ {p}, NEW m \in Messages, Coming(m),
             m \in ToSet(Requeued(q))
      PROVE  Coming(m)'
  <2>1. queueOf[m.order] = q
    BY <1>8, LineMembers
  <2>2. x \in ToSet(Requeued(p))
    BY <1>3, <1>4, SetOfSeq
  <2>3. queueOf[x.order] = p
    BY <2>2, LineMembers
  <2> QED BY <1>1, <1>2, <1>8, <2>1, <2>3, ComingKept
<1>9. LineInvOf(p)'
  <2>1. Requeued(p)' = K
    BY <1>3, LineSame
  <2> QED BY <1>5, <1>7, <2>1, LineFrom
<1>10. ASSUME NEW q \in Queues \ {p}
       PROVE  LineInvOf(q)'
  BY <1>8, LineSame, LineSameInv
<1> QED BY <1>9, <1>10 DEF LineInv

LEMMA LineQuiet ==
    ASSUME Inv, LineInv,
           \/ \E p \in Queues, s \in Sessions : Dial(p, s)
           \/ \E p \in Queues : ConnectionLost(p)
           \/ \E s \in Sessions : Ack(s) /\ conn[session[s].queue] # s
           \/ Restart
    PROVE  LineInv'
<1>0. session \in [Sessions -> Records]
  BY SessionTypes
<1>1. /\ applied' = applied
      /\ \A t \in Sessions : session'[t].msg \in {session[t].msg, NoMessage}
  <2>1. ASSUME NEW p \in Queues, NEW s \in Sessions, Dial(p, s)
        PROVE  /\ applied' = applied
               /\ \A t \in Sessions : session'[t].msg \in {session[t].msg, NoMessage}
    BY <1>0, <2>1 DEF Dial, oracleVars, Records
  <2>2. ASSUME NEW p \in Queues, ConnectionLost(p)
        PROVE  /\ applied' = applied
               /\ \A t \in Sessions : session'[t].msg \in {session[t].msg, NoMessage}
    BY <1>0, <2>2 DEF ConnectionLost, oracleVars, Fresh
  <2>3. ASSUME NEW s \in Sessions, Ack(s)
        PROVE  /\ applied' = applied
               /\ \A t \in Sessions : session'[t].msg \in {session[t].msg, NoMessage}
    BY <2>3, AckAt DEF Ack, oracleVars
  <2>4. CASE Restart
    BY <2>4 DEF Restart, oracleVars, Fresh
  <2> QED BY <2>1, <2>2, <2>3, <2>4
<1>2. ASSUME NEW m \in Messages, Coming(m)
      PROVE  Coming(m)'
  BY <1>1, <1>2, ComingKept
<1>3. ASSUME NEW q \in Queues
      PROVE  LineInvOf(q)'
  BY <1>2, LineSame, LineSameInv
<1> QED BY <1>3 DEF LineInv

LEMMA LineAck ==
    ASSUME Inv, LineInv, NEW s \in Sessions, Ack(s), conn[session[s].queue] = s
    PROVE  LineInv'
<1>1. /\ \A t \in Sessions \ {s} : session'[t] = session[t]
      /\ session'[s].msg = NoMessage /\ session[s].queue \in Queues
      /\ applied' = applied
  BY AckAt DEF Ack, oracleVars
<1>2. ASSUME NEW m \in Messages, Coming(m)
      PROVE  Coming(m)'
  BY <1>1, <1>2, ComingKept
<1>3. ASSUME NEW q \in Queues, q # session[s].queue
      PROVE  LineInvOf(q)'
  <2>1. Requeued(q)' = Requeued(q)
    BY <1>3, LineAcked
  <2> QED BY <1>2, <2>1, LineSameInv
<1>4. ASSUME NEW q \in Queues, q = session[s].queue
      PROVE  LineInvOf(q)'
  <2>1. PICK K \in Seq(Messages), x \in Messages :
           K = queue[q] /\ Requeued(q)' = K /\ Requeued(q) = <<x>> \o K
    <3>1. /\ Requeued(q)' = queue[q] /\ session[s].msg \in Messages
          /\ Requeued(q) = <<session[s].msg>> \o queue[q]
      BY <1>4, LineAcked
    <3>2. queue[q] \in Seq(Messages)
      BY LineTypes
    <3> QED BY <3>1, <3>2
  <2>2. PICK L \in Seq(Messages) : L = <<x>> \o K
    <3>1. <<x>> \o K \in Seq(Messages)
      OBVIOUS
    <3> QED BY <3>1
  <2>3. /\ Len(L) = Len(K) + 1 /\ Len(K) \in Nat
        /\ \A i \in 1..Len(K) : i + 1 \in 1..Len(L) /\ K[i] = L[i + 1]
    BY <2>2
  <2>4. InOrder(L) /\ \A i \in 1..Len(L) : Coming(L[i])
    BY <2>1, <2>2 DEF LineInv, LineInvOf
  <2>5. InOrder(K)
    <3>1. ASSUME NEW i \in 1..Len(K), NEW j \in 1..Len(K), i < j,
                 K[i].order = K[j].order
          PROVE  K[i].n <= K[j].n
      <4>1. /\ i + 1 \in 1..Len(L) /\ j + 1 \in 1..Len(L) /\ i + 1 < j + 1
            /\ K[i] = L[i + 1] /\ K[j] = L[j + 1]
        BY <2>3, <3>1
      <4> QED BY <2>4, <3>1, <4>1 DEF InOrder
    <3> QED BY <3>1 DEF InOrder
  <2>6. \A i \in 1..Len(K) : K[i] \in Messages /\ Coming(K[i])
    BY <2>3, <2>4
  <2>7. \A i \in 1..Len(K) : Coming(K[i])'
    BY <1>2, <2>6
  <2> QED BY <2>1, <2>5, <2>7, LineFrom
<1> QED BY <1>3, <1>4 DEF LineInv

LEMMA LineGateway ==
    ASSUME Inv, LineInv, NEW o \in Orders, GatewayStep(o)
    PROVE  LineInv'
<1>1. /\ UNCHANGED <<conn, session>> /\ applied' = applied
  BY GatewayAt DEF oracleVars
<1>2. ASSUME NEW m \in Messages, Coming(m)
      PROVE  Coming(m)'
  BY <1>1, <1>2, ComingKept
<1>3. ASSUME NEW q \in Queues, queue'[q] = queue[q]
      PROVE  LineInvOf(q)'
  <2>1. Requeued(q)' = Requeued(q)
    BY <1>1, <1>3 DEF Requeued
  <2> QED BY <1>2, <2>1, LineSameInv
<1>4. CASE UNCHANGED <<queue, statuses>>
  BY <1>3, <1>4 DEF LineInv
<1>5. CASE \E status \in {"F", "C", "S"}, n \in 1..MaxTells :
              /\ n = Len(statuses[o]) + 1
              /\ queue'[queueOf[o]] = Append(queue[queueOf[o]], [order |-> o, n |-> n])
              /\ \A p \in Queues \ {queueOf[o]} : queue'[p] = queue[p]
  <2> DEFINE q == queueOf[o]
  <2>1. PICK n \in 1..MaxTells :
              /\ n = Len(statuses[o]) + 1
              /\ queue'[q] = Append(queue[q], [order |-> o, n |-> n])
              /\ \A p \in Queues \ {q} : queue'[p] = queue[p]
    BY <1>5
  <2>2. q \in Queues
    BY QueueAssumption
  <2>3. PICK m \in Messages : m = [order |-> o, n |-> n]
    <3>1. n \in 0..MaxTells
      BY BoundAssumption
    <3> QED BY <3>1 DEF Messages
  <2> HIDE DEF q
  <2>4. PICK L \in Seq(Messages) : L = Requeued(q)
    BY <2>2, LineTypes
  <2>5. PICK K \in Seq(Messages) : K = Append(L, m)
    <3>1. Append(L, m) \in Seq(Messages)
      OBVIOUS
    <3> QED BY <3>1
  <2>6. Requeued(q)' = K
    BY <1>1, <2>1, <2>2, <2>3, <2>4, <2>5, LineTold
  <2>7. /\ Len(K) = Len(L) + 1 /\ Len(L) \in Nat /\ K[Len(K)] = m
        /\ \A i \in 1..Len(L) : K[i] = L[i]
    BY <2>5
  <2>8. InOrder(L) /\ \A i \in 1..Len(L) : Coming(L[i])
    BY <2>2, <2>4 DEF LineInv, LineInvOf
  <2>9. \A i \in 1..Len(L) : /\ L[i] \in Messages
                             /\ L[i].n \in Nat
                             /\ L[i].order = o => L[i].n <= n
    <3>1. ASSUME NEW i \in 1..Len(L)
          PROVE  L[i].n <= Len(statuses[L[i].order]) /\ L[i] \in Messages
      BY <2>2, <2>4, SetOfSeq, LineMembers
    <3>2. \A i \in 1..Len(L) : L[i].n \in Nat
      BY <3>1 DEF Messages
    <3>3. Len(statuses[o]) \in Nat
      BY LenTypes
    <3> QED BY <2>1, <3>1, <3>2, <3>3
  <2>10. InOrder(K)
    <3>1. ASSUME NEW i \in 1..Len(K), NEW j \in 1..Len(K), i < j, K[i].order = K[j].order
          PROVE  K[i].n <= K[j].n
      <4>1. i \in 1..Len(L) /\ K[i] = L[i]
        BY <2>7, <3>1
      <4>2. CASE j \in 1..Len(L)
        BY <2>7, <2>8, <3>1, <4>1, <4>2 DEF InOrder
      <4>3. CASE j = Len(K)
        BY <2>3, <2>7, <2>9, <3>1, <4>1, <4>3
      <4> QED BY <2>7, <4>2, <4>3
    <3> QED BY <3>1 DEF InOrder
  <2>11. Coming(m)
    <3>1. \A k \in applied[o] : k <= n
      <4>1. applied[o] \subseteq 1..Len(statuses[o]) /\ Len(statuses[o]) \in Nat
        BY LenTypes DEF Inv, DataInv
      <4> QED BY <2>1, <4>1
    <3>2. ASSUME NEW s \in Sessions, session[s].msg.order = o
          PROVE  session[s].msg.n <= n
      <4>1. Busy(s)
        BY <3>2, SessionTypes, OrderAssumption DEF SessionInvOf, NoMessage
      <4>2. session[s].msg \in Messages /\ session[s].msg.n <= Len(statuses[o])
        BY <3>2, <4>1, SessionTypes DEF SessionInvOf
      <4>3. session[s].msg.n \in Nat /\ Len(statuses[o]) \in Nat
        BY <4>2, LenTypes DEF Messages
      <4> QED BY <2>1, <4>2, <4>3
    <3> QED BY <2>3, <3>1, <3>2 DEF Coming
  <2>12. ASSUME NEW i \in 1..Len(K)
         PROVE  Coming(K[i])'
    <3>1. CASE i \in 1..Len(L)
      <4>1. PICK x \in Messages : x = K[i] /\ Coming(x)
        BY <2>7, <2>8, <2>9, <3>1
      <4> QED BY <1>2, <4>1
    <3>2. CASE i = Len(K)
      <4>1. Coming(m)'
        BY <1>2, <2>11
      <4> QED BY <2>7, <3>2, <4>1
    <3> QED BY <2>7, <3>1, <3>2
  <2>13. LineInvOf(q)'
    BY <2>2, <2>6, <2>10, <2>12, LineFrom
  <2> QED BY <1>3, <2>1, <2>13 DEF LineInv
<1> QED BY <1>4, <1>5, GatewayAt

LEMMA LineStep ==
    ASSUME Inv, LineInv, [Next]_vars
    PROVE  LineInv'
<1>1. CASE UNCHANGED vars
  <2>1. UNCHANGED <<queue, conn, session, applied>>
    BY <1>1 DEF vars, oracleVars
  <2>2. ASSUME NEW q \in Queues
        PROVE  LineInvOf(q)'
    <3>1. Requeued(q)' = Requeued(q)
      BY <2>1 DEF Requeued
    <3>2. \A m \in Messages : Coming(m) => Coming(m)'
      BY <2>1 DEF Coming
    <3> QED BY <3>1, <3>2, LineSameInv
  <2> QED BY <2>2 DEF LineInv
<1>2. ASSUME NEW s \in Sessions, Step(s)
      PROVE  LineInv'
  <2>1. CASE Deliver(s)
    BY <2>1, LineDelivered
  <2>2. CASE Proceeds(s)
    BY <2>2, LineProceeds
  <2>3. CASE Ack(s)
    BY <2>3, LineQuiet, LineAck
  <2> QED BY <1>2, <2>1, <2>2, <2>3, SessionSteps
<1>3. ASSUME NEW q \in Queues, NEW s \in Sessions, Dial(q, s)
      PROVE  LineInv'
  BY <1>3, LineQuiet
<1>4. ASSUME NEW q \in Queues, ConnectionLost(q)
      PROVE  LineInv'
  BY <1>4, LineQuiet
<1>5. ASSUME NEW o \in Orders, GatewayStep(o)
      PROVE  LineInv'
  BY <1>5, LineGateway
<1>6. CASE Restart
  BY <1>6, LineQuiet
<1> QED BY <1>1, <1>2, <1>3, <1>4, <1>5, <1>6 DEF Next

LEMMA LineInit ==
    ASSUME Init
    PROVE  LineInv
<1>1. ASSUME NEW q \in Queues
      PROVE  LineInvOf(q)
  <2>1. PICK K \in Seq(Messages) : K = queue[q]
    BY InitialQueues
  <2>2. Requeued(q) = K
    BY <2>1 DEF Init, Requeued
  <2>3. ASSUME NEW i \in 1..Len(K)
        PROVE  K[i].order \in Orders /\ K[i].n = 0
    <3>1. K[i] \in ToSet(queue[q])
      BY <2>1, SetOfSeq
    <3> QED BY <3>1, InitialQueues
  <2>4. InOrder(K)
    BY <2>3 DEF InOrder
  <2>5. ASSUME NEW i \in 1..Len(K)
        PROVE  Coming(K[i])
    BY <2>3, OrderAssumption DEF Init, Coming, Fresh, NoMessage
  <2> QED BY <2>2, <2>4, <2>5 DEF LineInvOf
<1> QED BY <1>1 DEF LineInv

LEMMA LineCorrect == Spec => [](Inv /\ LineInv)
<1>1. Init => Inv /\ LineInv
  BY InitInv, LineInit
<1>2. Inv /\ LineInv /\ [Next]_vars => Inv' /\ LineInv'
  BY InvStep, LineStep
<1> QED BY <1>1, <1>2, PTL DEF Spec

(* An older status is put over a newer one only by a goroutine whose       *)
(* connection was lost.  What a live connection has in hand is the head of *)
(* its line, and nothing newer of that order was taken: the statuses of an *)
(* order come back in the order in which the gateway told them.            *)
THEOREM OvertakeCorrect == Spec => OnlyOrphansOvertake
<1> DEFINE P == \A o \in overtaken' \ overtaken :
                  \E s \in Sessions : /\ session[s].pc = "exec"
                                      /\ session[s].msg.order = o
                                      /\ session'[s] # session[s]
                                      /\ conn[session[s].queue] # s
<1>1. ASSUME Inv, LineInv, NEW s \in Sessions, Proceeds(s)
      PROVE  P
  <2>1. SUFFICES ASSUME overtaken' # overtaken
                 PROVE  P
    OBVIOUS
  <2>2. session[s].pc = "exec" /\ Execute(s) /\ Busy(s)
    BY <1>1, <2>1 DEF Proceeds, Continues, Sells, Settles, GivesUp, IsRefused,
                      Forwards, Executes, oracleVars, Busy
  <2>3. session[s].call = "set"
    BY <2>1, <2>2, SessionTypes, <1>1 DEF Execute, oracleVars, Records, Calls
  <2>4. /\ overtaken' = overtaken \cup {OrderOf(s)}
        /\ \E later \in applied[OrderOf(s)] : later > session[s].msg.n
    BY <2>1, <2>2, <2>3 DEF Execute
  <2>5. session'[s] # session[s]
    <3>1. session'[s].pc # session[s].pc
      BY <1>1, <2>2 DEF Proceeds, Continues, Sells, Settles, GivesUp, IsRefused,
                        Forwards
    <3> QED BY <3>1
  <2>6. conn[session[s].queue] # s
    <3> DEFINE q == session[s].queue
    <3>1. SUFFICES ASSUME conn[q] = s
                   PROVE  FALSE
      OBVIOUS
    <3>2. q \in Queues /\ session[s].msg \in Messages /\ OrderOf(s) \in Orders
          /\ session[s].msg.n \in Nat
      <4>1. session[s].queue \in Queues /\ session[s].msg \in Messages
            /\ OrderOf(s) \in Orders
        BY <1>1, <2>2, HandTypes
      <4>2. session[s].msg.n \in Nat
        BY <4>1 DEF Messages
      <4> QED BY <4>1, <4>2
    <3>3. Requeued(q) = <<session[s].msg>> \o queue[q] /\ queue[q] \in Seq(Messages)
      BY <1>1, <2>2, <3>1, <3>2, LineTypes, SessionAssumption
    <3>4. /\ Requeued(q)[1] = session[s].msg
          /\ 1 \in 1..Len(Requeued(q))
      BY <3>2, <3>3
    <3>5. Coming(session[s].msg)
      BY <1>1, <3>2, <3>4 DEF LineInv, LineInvOf
    <3>6. \A k \in applied[OrderOf(s)] : k <= session[s].msg.n
      BY <3>5 DEF Coming, OrderOf
    <3>7. applied[OrderOf(s)] \subseteq Nat
      BY <1>1, <3>2 DEF Inv, TypeOK
    <3> QED BY <2>4, <3>2, <3>6, <3>7
  <2> QED BY <2>2, <2>4, <2>5, <2>6 DEF OrderOf
<1>2. ASSUME overtaken' = overtaken
      PROVE  P
  BY <1>2
<1>3. Inv /\ LineInv /\ [Next]_vars => [P]_vars
  <2> SUFFICES ASSUME Inv, LineInv, [Next]_vars
               PROVE  P
    OBVIOUS
  <2>1. ASSUME NEW s \in Sessions, Step(s)
        PROVE  P
    <3>1. CASE Deliver(s) \/ Ack(s)
      BY <1>2, <3>1 DEF Deliver, Ack, oracleVars
    <3> QED BY <1>1, <2>1, <3>1, SessionSteps
  <2>2. CASE UNCHANGED vars
    BY <1>2, <2>2 DEF vars, oracleVars
  <2> QED BY <1>2, <2>1, <2>2 DEF Next, Dial, ConnectionLost, GatewayStep, Restart,
                                 oracleVars
<1> QED BY <1>3, LineCorrect, PTL DEF Spec, OnlyOrphansOvertake

-----------------------------------------------------------------------------
(* Every order is accounted for *)

LEMMA EntryTypes ==
    ASSUME NEW o \in Orders
    PROVE  Entry(o) \in Messages /\ Entry(o).order = o /\ Entry(o).n = 0
BY BoundAssumption DEF Entry, Messages

LEMMA StatusTypes ==
    ASSUME Inv, NEW o \in Orders, NEW n \in 1..Len(statuses[o])
    PROVE  /\ [order |-> o, n |-> n] \in Messages
           /\ n \in 1..MaxTells
           /\ o \in forwarded
<1>1. Len(statuses[o]) \in Nat /\ Len(statuses[o]) <= MaxTells /\ MaxTells \in Nat
  BY LenTypes, BoundAssumption DEF Inv, TypeOK
<1> QED BY <1>1 DEF Messages, Inv, DataInv

(* A message is held by its queue or its live connection until the         *)
(* goroutine of that connection has finished it.                           *)
LEMMA HeldProceeds ==
    ASSUME Inv, NEW s \in Sessions, Proceeds(s), NEW m \in Messages, Held(m)
    PROVE  Held(m)' \/ (m = session[s].msg /\ session'[s].pc = "ack")
<1>1. Stays(s)
  BY DEF Proceeds, Continues, Sells, Settles, GivesUp, IsRefused, Forwards
<1>2. queueOf[m.order] \in Queues
  BY QueueAssumption DEF Messages
<1> QED BY <1>1, <1>2, LineTypes DEF Held, Stays, Changed

LEMMA HeldDelivered ==
    ASSUME Inv, NEW s \in Sessions, Deliver(s), NEW m \in Messages, Held(m),
           kind[m.order] # "invalid"
    PROVE  Held(m)'
<1>1. PICK p \in Queues, x \in Messages :
         /\ p = session[s].queue /\ conn[p] = s /\ session[s].pc = "idle"
         /\ queue[p] # <<>> /\ x = Head(queue[p])
         /\ queue'[p] = Tail(queue[p])
         /\ \A r \in Queues \ {p} : queue'[r] = queue[r]
         /\ \A t \in Sessions \ {s} : session'[t] = session[t]
         /\ session'[s].pc = IF kind[x.order] = "invalid" THEN "ack" ELSE "connect"
         /\ session'[s].msg = x
  BY DeliverAt
<1>2. conn' = conn
  BY DEF Deliver
<1> DEFINE q == queueOf[m.order]
<1>3. q \in Queues
  BY QueueAssumption DEF Messages
<1>4. CASE q = p
  <2>1. session[s].msg = NoMessage /\ NoMessage # m
    BY <1>1, SessionTypes, OrderAssumption DEF SessionInvOf, Busy, NoMessage, Messages
  <2>2. m \in ToSet(queue[p])
    BY <1>1, <1>4, <2>1 DEF Held
  <2>3. m = x \/ m \in ToSet(Tail(queue[p]))
    <3>1. queue[p] = <<x>> \o Tail(queue[p]) /\ Tail(queue[p]) \in Seq(Messages)
      <4>1. PICK L \in Seq(Messages) : L = queue[p] /\ L # <<>>
        BY <1>1, LineTypes
      <4>2. L = <<Head(L)>> \o Tail(L) /\ Tail(L) \in Seq(Messages)
        BY <4>1, HeadAndTail
      <4> QED BY <1>1, <4>1, <4>2
    <3>2. ToSet(<<x>> \o Tail(queue[p])) = {x} \cup ToSet(Tail(queue[p]))
      BY <3>1, PrependSet
    <3> QED BY <2>2, <3>1, <3>2
  <2>4. CASE m = x
    <3>1. session'[s].pc = "connect" /\ session'[s].msg = m /\ conn'[q] = s /\ s # None
      BY <1>1, <1>2, <1>4, <2>4, SessionAssumption
    <3> QED BY <3>1 DEF Held
  <2>5. CASE m \in ToSet(queue'[p])
    BY <1>4, <2>5 DEF Held
  <2> QED BY <1>1, <2>3, <2>4, <2>5
<1>5. CASE q # p
  <2>1. conn[q] # None => conn[q] \in Sessions \ {s}
    BY <1>1, <1>3, <1>5, LineTypes
  <2> QED BY <1>1, <1>2, <1>3, <1>5, <2>1 DEF Held
<1> QED BY <1>4, <1>5

LEMMA HeldAck ==
    ASSUME Inv, NEW s \in Sessions, Ack(s), NEW m \in Messages, Held(m)
    PROVE  Held(m)'
<1>1. /\ session[s].pc = "ack" /\ \A t \in Sessions \ {s} : session'[t] = session[t]
      /\ conn' = conn /\ queue' = queue
  BY AckAt DEF Ack
<1>2. queueOf[m.order] \in Queues
  BY QueueAssumption DEF Messages
<1> QED BY <1>1, <1>2, LineTypes DEF Held

LEMMA HeldDial ==
    ASSUME Inv, NEW p \in Queues, NEW s \in Sessions, Dial(p, s),
           NEW m \in Messages, Held(m)
    PROVE  Held(m)'
<1> DEFINE q == queueOf[m.order]
<1>1. q \in Queues
  BY QueueAssumption DEF Messages
<1>2. /\ conn[p] = None /\ session[s].pc = "free" /\ queue' = queue
      /\ \A r \in Queues \ {p} : conn'[r] = conn[r]
      /\ \A t \in Sessions \ {s} : session'[t] = session[t]
  BY SessionTypes DEF Dial, Inv, TypeOK
<1>3. CASE m \in ToSet(queue[q])
  BY <1>2, <1>3 DEF Held
<1>4. CASE conn[q] # None /\ session[conn[q]].msg = m /\ session[conn[q]].pc # "ack"
  <2>1. q # p /\ conn[q] \in Sessions \ {s}
    BY <1>1, <1>2, <1>4, LineTypes
  <2> QED BY <1>1, <1>2, <1>4, <2>1 DEF Held
<1> QED BY <1>3, <1>4 DEF Held

(* What is held is in the line, which the broker redelivers. *)
LEMMA HeldInLine ==
    ASSUME Inv, NEW m \in Messages, Held(m)
    PROVE  m \in ToSet(Requeued(queueOf[m.order]))
<1> DEFINE q == queueOf[m.order]
<1>1. q \in Queues /\ m # NoMessage
  BY QueueAssumption, OrderAssumption DEF Messages, NoMessage
<1>2. CASE m \in ToSet(queue[q])
  BY <1>1, <1>2, LineMembers
<1>3. CASE conn[q] # None /\ session[conn[q]].msg = m
  <2>1. conn[q] \in Sessions /\ Busy(conn[q])
    BY <1>1, <1>3, LineTypes, SessionTypes DEF SessionInvOf
  <2> QED BY <1>1, <1>3, <2>1, LineMembers
<1> QED BY <1>2, <1>3 DEF Held

LEMMA HeldRequeued ==
    ASSUME Inv, NEW p \in Queues, ConnectionLost(p) \/ Restart,
           NEW m \in Messages, Held(m)
    PROVE  Held(m)'
<1> DEFINE q == queueOf[m.order]
<1>1. q \in Queues /\ m \in ToSet(Requeued(q))
  BY HeldInLine, QueueAssumption DEF Messages
<1>2. CASE Restart
  <2>1. queue'[q] = Requeued(q)
    BY <1>1, <1>2 DEF Restart
  <2> QED BY <1>1, <2>1 DEF Held
<1>3. CASE ConnectionLost(p)
  <2>1. /\ queue'[p] = Requeued(p)
        /\ \A r \in Queues \ {p} : queue'[r] = queue[r] /\ conn'[r] = conn[r]
        /\ \A t \in Sessions \ {conn[p]} : session'[t] = session[t]
        /\ conn[p] # None
    BY <1>3, SessionTypes DEF ConnectionLost, Inv, DataInv, TypeOK
  <2>2. CASE q = p
    BY <1>1, <2>1, <2>2 DEF Held
  <2>3. CASE q # p
    <3>1. conn[q] # None => conn[q] \in Sessions \ {conn[p]}
      BY <1>1, <2>1, <2>3, LineTypes
    <3> QED BY <1>1, <2>1, <2>3, <3>1 DEF Held
  <2> QED BY <2>2, <2>3
<1> QED BY <1>2, <1>3

LEMMA HeldGateway ==
    ASSUME Inv, NEW o \in Orders, GatewayStep(o), NEW m \in Messages, Held(m)
    PROVE  Held(m)'
<1> DEFINE q == queueOf[m.order]
<1>1. q \in Queues /\ conn' = conn /\ session' = session
  BY QueueAssumption, GatewayAt DEF Messages
<1>0. queueOf[m.order] = q
  OBVIOUS
<1> HIDE DEF q
<1>2. ToSet(queue[q]) \subseteq ToSet(queue'[q])
  <2>1. CASE queue'[q] = queue[q]
    BY <2>1
  <2>2. CASE \E n \in 1..MaxTells : queue'[q] = Append(queue[q], [order |-> o, n |-> n])
    <3>1. PICK x \in Messages : queue'[q] = Append(queue[q], x)
      <4>1. PICK n \in 1..MaxTells : queue'[q] = Append(queue[q], [order |-> o, n |-> n])
        BY <2>2
      <4>2. n \in 0..MaxTells
        BY BoundAssumption
      <4>3. [order |-> o, n |-> n] \in Messages
        BY <4>2 DEF Messages
      <4> QED BY <4>1, <4>3
    <3>2. queue[q] \in Seq(Messages)
      BY <1>1, LineTypes
    <3>3. ToSet(Append(queue[q], x)) = ToSet(queue[q]) \cup {x}
      BY <3>2, AppendSet
    <3> QED BY <3>1, <3>3
  <2>3. \/ queue' = queue
        \/ \E n \in 1..MaxTells :
              /\ queue'[queueOf[o]] =
                    Append(queue[queueOf[o]], [order |-> o, n |-> n])
              /\ \A p \in Queues \ {queueOf[o]} : queue'[p] = queue[p]
    <3>1. CASE UNCHANGED <<queue, statuses>>
      BY <3>1
    <3>2. CASE ~UNCHANGED <<queue, statuses>>
      <4>1. \E status \in {"F", "C", "S"}, n \in 1..MaxTells :
              /\ queue'[queueOf[o]] =
                    Append(queue[queueOf[o]], [order |-> o, n |-> n])
              /\ \A p \in Queues \ {queueOf[o]} : queue'[p] = queue[p]
        BY <3>2, GatewayAt
      <4> QED BY <4>1
    <3> QED BY <3>1, <3>2
  <2>4. CASE q = queueOf[o]
    BY <2>1, <2>2, <2>3, <2>4
  <2>5. CASE q # queueOf[o]
    BY <1>1, <2>1, <2>3, <2>5
  <2> QED BY <2>4, <2>5
<1> QED BY <1>0, <1>1, <1>2 DEF Held

(* What a failed call leaves in the books. *)
LEMMA LostGap ==
    ASSUME Inv, NEW s \in Sessions, Busy(s), NEW why \in Reasons, Lost(s, why)
    PROVE  /\ \A x \in Orders : /\ gap[x] \subseteq gap'[x]
                                /\ x # OrderOf(s) => gap'[x] = gap[x]
           /\ session[s].call # "set" \/ StatusOf(s) \in Final => gap'[OrderOf(s)] # {}
<1>1. gap \in [Orders -> SUBSET (Calls \X Reasons)] /\ OrderOf(s) \in Orders
  BY HandTypes DEF Inv, TypeOK, Reasons
<1> QED BY <1>1 DEF Lost

LEMMA SeenKept ==
    ASSUME Inv, NEW o \in Orders, Seen(o), statuses'[o] = statuses[o],
           applied[o] \subseteq applied'[o], gap[o] # {} => gap'[o] # {},
           \A n \in 1..Len(statuses[o]) :
              /\ Held([order |-> o, n |-> n])
              /\ statuses[o][n] \in Final
              => \/ Held([order |-> o, n |-> n])'
                 \/ n \in applied'[o]
                 \/ gap'[o] # {}
    PROVE  Seen(o)'
<1>1. ASSUME NEW n \in 1..Len(statuses[o]), statuses[o][n] \in Final
      PROVE  \/ n \in applied'[o]
             \/ Held([order |-> o, n |-> n])'
             \/ gap'[o] # {}
  BY <1>1 DEF Seen
<1> QED BY <1>1 DEF Seen, Final, Gateway!Final

(* A step that does not concern an order leaves its account alone.         *)
LEMMA AccountKept ==
    ASSUME Inv, NEW o \in Orders, AccountOf(o), UNCHANGED kind,
           statuses'[o] = statuses[o], applied[o] \subseteq applied'[o],
           gap[o] \subseteq gap'[o],
           \A m \in Messages : m.order = o /\ Held(m) => Held(m)' \/ kind[o] = "invalid",
           Owed(o) => Owed(o)' \/ gap'[o] # {} \/ Held(Entry(o))'
                               \/ kind[o] # "provider" \/ o \in forwarded',
           o \in refused => o \in refused',
           o \in sold' <=> o \in sold, o \in forwarded' <=> o \in forwarded,
           o \in live \cup excused => o \in live' \cup excused' \/ Told(o)'
    PROVE  AccountOf(o)'
<1>1. Seen(o)'
  <2>1. ASSUME NEW n \in 1..Len(statuses[o]), Held([order |-> o, n |-> n])
        PROVE  Held([order |-> o, n |-> n])'
    <3>1. kind[o] # "invalid"
      BY StatusTypes DEF Inv, DataInv
    <3> QED BY <2>1, <3>1, StatusTypes
  <2> QED BY <2>1, SeenKept DEF AccountOf
<1>2. Told(o) => Told(o)'
  BY DEF Told, Final, Gateway!Final
<1>3. Held(Entry(o)) => Held(Entry(o))' \/ kind[o] = "invalid"
  BY EntryTypes
<1>4. Owed(o) => o \in sold
  BY DEF Owed
<1> QED BY <1>1, <1>2, <1>3, <1>4 DEF AccountOf

LEMMA AccountOthers ==
    ASSUME Inv, NEW s \in Sessions, Proceeds(s), NEW o \in Orders,
           o # OrderOf(s), AccountOf(o)
    PROVE  AccountOf(o)'
<1>1. OracleStep(s) /\ Stays(s) /\ Busy(s)
  <2>1. Stays(s) /\ Busy(s)
    BY DEF Proceeds, Continues, Sells, Settles, GivesUp, IsRefused, Forwards,
           Stays, Works
  <2> QED BY <2>1, OracleSteps
<1>2. gap'[o] = gap[o]
  <2>1. CASE UNCHANGED gap
    BY <2>1
  <2>2. CASE \E why \in Reasons : Lost(s, why)
    BY <1>1, <2>2, LostGap
  <2> QED BY <2>1, <2>2
          DEF Proceeds, Continues, Sells, Settles, GivesUp, IsRefused, Forwards, Reasons
<1>3. ASSUME NEW m \in Messages, m.order = o, Held(m)
      PROVE  Held(m)'
  BY <1>3, HeldProceeds DEF OrderOf
<1>4. Owed(o) => Owed(o)'
  <2>1. session[s].msg # Entry(o)
    BY EntryTypes DEF OrderOf
  <2> QED BY <1>1, <2>1 DEF Owed, OracleStep, Stays, Changed
<1>5. /\ o \in refused => o \in refused'
      /\ o \in forwarded' <=> o \in forwarded
      /\ live \subseteq live' /\ excused' = excused
  <2>1. CASE IsRefused(s)
    BY <2>1 DEF IsRefused
  <2>2. CASE Forwards(s)
    BY <2>2 DEF Forwards, oracleVars
  <2>3. CASE Continues(s) \/ Sells(s) \/ Settles(s) \/ GivesUp(s)
    <3>1. refused' = refused
      <4>1. CASE UNCHANGED oracleVars
        BY <4>1 DEF oracleVars
      <4>2. CASE Execute(s)
        BY <4>2, SessionTypes DEF Execute, Records, Calls, oracleVars
      <4> QED BY <2>3, <4>1, <4>2 DEF Continues, Sells, Settles, GivesUp, Executes
    <3> QED BY <2>3, <3>1 DEF Continues, Sells, Settles, GivesUp
  <2> QED BY <2>1, <2>2, <2>3 DEF Proceeds
<1>6. /\ statuses'[o] = statuses[o] /\ kind' = kind /\ applied[o] \subseteq applied'[o]
      /\ o \in sold' <=> o \in sold
  BY <1>1 DEF OracleStep, Stays
<1> QED BY <1>2, <1>3, <1>4, <1>5, <1>6, AccountKept

(* What the goroutine's own order keeps while it stays in hand.            *)
LEMMA AccountInHand ==
    ASSUME Inv, NEW s \in Sessions, Proceeds(s), NEW o \in Orders, o = OrderOf(s),
           AccountOf(o), gap' = gap,
           live \subseteq live', excused' = excused,
           o \in forwarded' => o \in forwarded \/ o \in live',
           \/ session'[s].pc # "ack"
           \/ session[s].msg.n = 0
           \/ session[s].msg.n \in applied'[o]
           \/ StatusOf(s) \notin Final
    PROVE  /\ Seen(o)'
           /\ (o \in forwarded => o \in live \cup excused \/ Told(o) \/ gap[o] # {})'
<1>1. OracleStep(s) /\ Stays(s) /\ o \in Orders
      /\ session[s].msg = [order |-> o, n |-> session[s].msg.n]
  <2>1. Stays(s) /\ Busy(s)
    BY DEF Proceeds, Continues, Sells, Settles, GivesUp, IsRefused, Forwards,
           Stays, Works
  <2> QED BY <2>1, OracleSteps, HandTypes
<1>2. ASSUME NEW n \in 1..Len(statuses[o]), Held([order |-> o, n |-> n]),
             statuses[o][n] \in Final
      PROVE  Held([order |-> o, n |-> n])' \/ n \in applied'[o]
  <2>1. [order |-> o, n |-> n] \in Messages
    BY <1>1, StatusTypes
  <2>2. CASE [order |-> o, n |-> n] = session[s].msg /\ session'[s].pc = "ack"
    <3>1. session[s].msg.n = n /\ n # 0
      BY <2>2
    <3> QED BY <1>2, <2>2, <3>1 DEF StatusOf
  <2> QED BY <1>2, <2>1, <2>2, HeldProceeds
<1>3. statuses' = statuses /\ applied[o] \subseteq applied'[o]
  BY <1>1 DEF OracleStep, Stays
<1>4. Seen(o)'
  BY <1>1, <1>2, <1>3, SeenKept DEF AccountOf
<1>5. Told(o) => Told(o)'
  BY <1>3 DEF Told, Final, Gateway!Final
<1>6. o \in forwarded' => o \in live' \cup excused' \/ Told(o)' \/ gap'[o] # {}
  BY <1>5 DEF AccountOf
<1> QED BY <1>4, <1>6

LEMMA AccountProceeds ==
    ASSUME Inv, NEW s \in Sessions, Proceeds(s), NEW o \in Orders, o = OrderOf(s),
           AccountOf(o)
    PROVE  AccountOf(o)'
<1>1. /\ OracleStep(s) /\ Stays(s) /\ Works(s) /\ Busy(s) /\ o \in Orders
      /\ session[s].msg = [order |-> o, n |-> session[s].msg.n]
      /\ session[s].call = "set" <=> session[s].msg.n # 0
      /\ session'[s].msg = session[s].msg
      /\ \A t \in Sessions \ {s} : session'[t] = session[t]
      /\ kind' = kind
  <2>1. Stays(s) /\ Works(s) /\ Busy(s)
    BY DEF Proceeds, Continues, Sells, Settles, GivesUp, IsRefused, Forwards,
           Stays, Works
  <2> QED BY <2>1, OracleSteps, HandTypes, SessionTypes
          DEF SessionInvOf, Stays, Changed
<1>2. /\ forwarded \subseteq sold
      /\ o \in forwarded => kind[o] = "provider"
  BY <1>1 DEF Inv, DataInv
<1>3. session[s].msg.n = 0 => session[s].msg = Entry(o)
  BY <1>1 DEF Entry
<1>4. session[s].msg.n # 0 => session[s].msg # Entry(o)
  BY DEF Entry
<1>5. Held(Entry(o)) => Held(Entry(o))' \/ (session[s].msg = Entry(o) /\ session'[s].pc = "ack")
  BY <1>1, EntryTypes, HeldProceeds
<1>6. Owed(o) => \/ Owed(o)'
                 \/ session[s].msg = Entry(o) /\ session'[s].pc = "ack"
  BY <1>1 DEF Owed, OracleStep
<1> DEFINE Booked == \/ kind[o] = "invalid"
                     \/ gap[o] # {}
                     \/ Held(Entry(o))
                     \/ Owed(o)
                     \/ o \in refused \ sold
                     \/ o \in sold /\ (kind[o] # "provider" \/ o \in forwarded)
           Followed == o \in forwarded => o \in live \cup excused \/ Told(o) \/ gap[o] # {}
<1>7. Booked /\ Followed /\ Seen(o)
  BY DEF AccountOf
<1>8. ASSUME Seen(o)', Followed', Booked'
      PROVE  AccountOf(o)'
  BY <1>8 DEF AccountOf
<1>9. CASE Continues(s) \/ Sells(s)
  <2>1. /\ session'[s].pc # "ack" /\ gap' = gap /\ live' = live /\ excused' = excused
        /\ forwarded' = forwarded
    BY <1>9 DEF Continues, Sells
  <2>2. Seen(o)' /\ Followed'
    BY <2>1, AccountInHand
  <2>3. CASE sold' = sold
    <3>1. refused' = refused
      <4>1. CASE UNCHANGED oracleVars
        BY <4>1 DEF oracleVars
      <4>2. CASE Execute(s)
        BY <4>2, SessionTypes DEF Execute, Records, Calls, oracleVars
      <4> QED BY <1>9, <4>1, <4>2 DEF Continues, Sells, Executes
    <3>2. Booked'
      BY <1>1, <1>5, <1>6, <1>7, <2>1, <2>3, <3>1
    <3> QED BY <1>8, <2>2, <3>2
  <2>4. CASE sold' # sold
    <3>1. Execute(s) /\ session[s].call = "sell"
      <4>1. Execute(s)
        BY <1>9, <2>4 DEF Continues, Sells, Executes, oracleVars
      <4> QED BY <2>4, <4>1, SessionTypes DEF Execute, Records, Calls, oracleVars
    <3>2. o \in sold'
      BY <3>1 DEF Execute
    <3>3. session'[s].msg = Entry(o)
      BY <1>1, <1>3, <3>1
    <3>4. Owed(o)'
      BY <2>1, <3>2, <3>3 DEF Owed, Entry
    <3> QED BY <1>8, <2>2, <3>4
  <2> QED BY <2>3, <2>4
<1>10. CASE Settles(s)
  <2>1. /\ gap' = gap /\ live' = live /\ excused' = excused /\ forwarded' = forwarded
        /\ Execute(s)
    BY <1>10 DEF Settles
  <2>2. CASE session[s].call = "set"
    <3>1. /\ applied' = [applied EXCEPT ![o] = @ \cup {session[s].msg.n}]
          /\ sold' = sold /\ refused' = refused
      BY <2>1, <2>2 DEF Execute
    <3>2. session[s].msg.n \in applied'[o]
      BY <1>1, <3>1 DEF Inv, TypeOK
    <3>3. Seen(o)' /\ Followed'
      BY <2>1, <3>2, AccountInHand
    <3>4. Booked'
      BY <1>1, <1>4, <1>5, <1>6, <1>7, <2>1, <2>2, <3>1
    <3> QED BY <1>8, <3>3, <3>4
  <2>3. CASE session[s].call = "sell" /\ kind[o] # "provider"
    <3>1. o \in sold'
      BY <2>1, <2>3 DEF Execute
    <3>2. Seen(o)' /\ Followed'
      BY <1>1, <2>1, <2>3, AccountInHand
    <3> QED BY <1>1, <1>8, <2>3, <3>1, <3>2
  <2> QED BY <1>10, <2>2, <2>3 DEF Settles
<1>11. CASE GivesUp(s)
  <2>1. PICK why \in Reasons : Lost(s, why)
    BY <1>11 DEF GivesUp
  <2>2. UNCHANGED <<forwarded, live, excused>>
    BY <1>11 DEF GivesUp
  <2>3. CASE gap'[o] # {}
    <3>1. Booked' /\ Followed'
      BY <2>3
    <3>2. Seen(o)'
      BY <2>3 DEF Seen
    <3> QED BY <1>8, <3>1, <3>2
  <2>4. CASE gap'[o] = {}
    <3>1. session[s].call = "set" /\ StatusOf(s) \notin Final
      BY <1>1, <2>1, <2>4, LostGap
    <3>2. gap' = gap
      BY <2>1, <3>1, <1>1 DEF Lost, Inv, TypeOK
    <3>3. Seen(o)' /\ Followed'
      BY <2>2, <3>1, <3>2, AccountInHand
    <3>4. sold' = sold /\ refused' = refused
      BY <1>11, <3>1 DEF GivesUp, Executes, Execute, oracleVars
    <3>5. Booked'
      BY <1>1, <1>4, <1>5, <1>6, <1>7, <2>2, <3>1, <3>2, <3>4
    <3> QED BY <1>8, <3>3, <3>5
  <2> QED BY <2>3, <2>4
<1>12. CASE IsRefused(s)
  <2>1. /\ session[s].msg.n = 0 /\ refused' = refused \cup {o}
        /\ UNCHANGED <<sold, forwarded, live, excused>>
        /\ IF o \in sold \ forwarded THEN Lost(s, "sold") ELSE UNCHANGED gap
    BY <1>1, <1>12 DEF IsRefused
  <2>2. CASE o \in sold \ forwarded
    <3>1. gap'[o] # {}
      BY <1>1, <2>1, <2>2, LostGap DEF Reasons
    <3>2. Booked' /\ Followed'
      BY <3>1
    <3>3. Seen(o)'
      BY <3>1 DEF Seen
    <3> QED BY <1>8, <3>2, <3>3
  <2>3. CASE o \notin sold \ forwarded
    <3>1. gap' = gap
      BY <2>1, <2>3
    <3>2. Seen(o)' /\ Followed'
      BY <2>1, <3>1, AccountInHand
    <3>3. Booked'
      BY <1>2, <2>1, <2>3
    <3> QED BY <1>8, <3>2, <3>3
  <2> QED BY <2>2, <2>3
<1>13. CASE Forwards(s)
  <2>1. /\ session[s].msg.n = 0 /\ o \in sold
        /\ UNCHANGED <<sold, refused, gap, excused>>
        /\ live \subseteq live'
        /\ o \in forwarded' => o \in forwarded \/ o \in live'
        /\ forwarded \subseteq forwarded'
    BY <1>1, <1>13, SessionTypes DEF Forwards, oracleVars, SessionInvOf, OrderOf
  <2>2. Seen(o)' /\ Followed'
    BY <2>1, AccountInHand
  <2>3. CASE session'[s].pc = "ack"
    <3>1. Booked'
      BY <1>13, <2>1, <2>3 DEF Forwards
    <3> QED BY <1>8, <2>2, <3>1
  <2>4. CASE session'[s].pc # "ack"
    <3>1. Booked'
      BY <1>1, <1>5, <1>6, <1>7, <2>1, <2>4
    <3> QED BY <1>8, <2>2, <3>1
  <2> QED BY <2>3, <2>4
<1> QED BY <1>9, <1>10, <1>11, <1>12, <1>13 DEF Proceeds

(* Steps that leave the books of an order as they are.                     *)
LEMMA AccountQuiet ==
    ASSUME Inv, NEW o \in Orders, AccountOf(o),
           UNCHANGED <<kind, oracleVars, forwarded, gatewayVars, gap>>,
           \A m \in Messages : m.order = o /\ Held(m) => Held(m)' \/ kind[o] = "invalid",
           \A t \in Sessions : \/ session'[t] = session[t]
                               \/ session[t].msg = NoMessage
                               \/ session[t].pc = "ack"
    PROVE  AccountOf(o)'
<1>1. Entry(o) # NoMessage
  BY OrderAssumption DEF Entry, NoMessage
<1>2. Owed(o) => Owed(o)'
  BY <1>1 DEF Owed, oracleVars
<1>3. /\ UNCHANGED kind /\ statuses'[o] = statuses[o]
      /\ applied[o] \subseteq applied'[o] /\ gap[o] \subseteq gap'[o]
      /\ o \in refused => o \in refused'
      /\ o \in sold' <=> o \in sold
      /\ o \in forwarded' <=> o \in forwarded
      /\ o \in live \cup excused => o \in live' \cup excused'
  BY DEF oracleVars, gatewayVars
<1> QED BY <1>2, <1>3, AccountKept

LEMMA AccountSession ==
    ASSUME Inv, NEW s \in Sessions, Deliver(s) \/ Ack(s), NEW o \in Orders, AccountOf(o)
    PROVE  AccountOf(o)'
<1>1. UNCHANGED <<kind, oracleVars, forwarded, gatewayVars, gap>>
  BY DEF Deliver, Ack, oracleVars, gatewayVars
<1>2. ASSUME NEW m \in Messages, m.order = o, Held(m)
      PROVE  Held(m)' \/ kind[o] = "invalid"
  BY <1>2, HeldDelivered, HeldAck
<1>3. ASSUME NEW t \in Sessions
      PROVE  \/ session'[t] = session[t]
             \/ session[t].msg = NoMessage
             \/ session[t].pc = "ack"
  <2>1. CASE Deliver(s)
    <3>1. session[s].pc = "idle"
      BY <2>1 DEF Deliver
    <3>2. session[s].msg = NoMessage
      BY <3>1, SessionTypes DEF SessionInvOf, Busy
    <3> QED BY <2>1, <3>2, DeliverAt
  <2>2. CASE Ack(s)
    BY <2>2, AckAt
  <2> QED BY <2>1, <2>2
<1> QED BY <1>1, <1>2, <1>3, AccountQuiet

LEMMA AccountConnection ==
    ASSUME Inv, NEW q \in Queues, NEW o \in Orders, AccountOf(o),
           (\E s \in Sessions : Dial(q, s)) \/ ConnectionLost(q)
    PROVE  AccountOf(o)'
<1>1. UNCHANGED <<kind, oracleVars, forwarded, gatewayVars, gap>>
  BY DEF Dial, ConnectionLost, oracleVars, gatewayVars
<1>2. ASSUME NEW m \in Messages, m.order = o, Held(m)
      PROVE  Held(m)'
  BY <1>2, HeldDial, HeldRequeued
<1>3. ASSUME NEW t \in Sessions
      PROVE  session'[t] = session[t] \/ session[t].msg = NoMessage
  <2>1. session[t].pc \in {"free", "idle"} => session[t].msg = NoMessage
    BY SessionTypes DEF SessionInvOf, Busy
  <2>2. ASSUME NEW s \in Sessions, Dial(q, s)
        PROVE  session'[t] = session[t] \/ session[t].msg = NoMessage
    <3>1. session[s].pc = "free" /\ (t # s => session'[t] = session[t])
      BY <2>2, SessionTypes DEF Dial
    <3> QED BY <2>1, <3>1
  <2>3. CASE ConnectionLost(q)
    <3>1. session'[t] = session[t] \/ session[t].pc = "idle"
      BY <2>3, SessionTypes DEF ConnectionLost
    <3> QED BY <2>1, <3>1
  <2> QED BY <2>2, <2>3
<1> QED BY <1>1, <1>2, <1>3, AccountQuiet

(* A crash takes the goroutines that outlived their connections with it:   *)
(* what only they would still have forwarded is lost.                      *)
LEMMA AccountRestart ==
    ASSUME Inv, Restart, NEW o \in Orders, AccountOf(o)
    PROVE  AccountOf(o)'
<1>1. /\ UNCHANGED <<kind, oracleVars, forwarded, gatewayVars>>
      /\ queue' = [q \in Queues |-> Requeued(q)]
      /\ gap'[o] = gap[o] \cup
                   (IF OnlyOrphanForwards(o) THEN {<<"sell", "crash">>} ELSE {})
  BY DEF Restart
<1>2. queueOf[o] \in Queues
  BY QueueAssumption
<1>3. ASSUME NEW m \in Messages, m.order = o, Held(m)
      PROVE  Held(m)'
  BY <1>2, <1>3, HeldRequeued
<1>4. ASSUME Owed(o)
      PROVE  \/ gap'[o] # {} \/ Held(Entry(o))'
             \/ kind[o] # "provider" \/ o \in forwarded'
  <2>1. CASE Entry(o) \in ToSet(Requeued(queueOf[o]))
    <3>1. Entry(o) \in ToSet(queue'[queueOf[o]])
      BY <1>1, <1>2, <2>1
    <3> QED BY <3>1, EntryTypes DEF Held, Entry
  <2>2. CASE Entry(o) \notin ToSet(Requeued(queueOf[o]))
    <3>1. CASE kind[o] = "provider" /\ o \notin forwarded
      <4>1. OnlyOrphanForwards(o)
        BY <1>4, <2>2, <3>1 DEF Owed, OnlyOrphanForwards, Entry
      <4> QED BY <1>1, <4>1
    <3> QED BY <1>1, <3>1
  <2> QED BY <2>1, <2>2
<1>5. /\ UNCHANGED kind /\ statuses'[o] = statuses[o]
      /\ applied[o] \subseteq applied'[o] /\ gap[o] \subseteq gap'[o]
      /\ o \in refused => o \in refused'
      /\ o \in sold' <=> o \in sold
      /\ o \in forwarded' <=> o \in forwarded
      /\ o \in live \cup excused => o \in live' \cup excused'
  BY <1>1 DEF oracleVars, gatewayVars
<1> QED BY <1>3, <1>4, <1>5, AccountKept

(* A gateway lets go of an order once it told a final status, or excused.  *)
LEMMA GatewayKeeps ==
    ASSUME Inv, NEW o \in Orders, GatewayStep(o), NEW x \in Orders,
           x \in live \cup excused
    PROVE  x \in live' \cup excused' \/ Told(x)'
<1>1. CASE Gateway!Complete(o) \/ Gateway!TakeUp(o)
  BY <1>1 DEF Gateway!Complete, Gateway!TakeUp
<1>2. CASE \/ Gateway!Lose({o} \cap live)
           \/ \E status \in {"F", "C", "S"} : GatewayTells(o, status)
  <2>1. Gateway!LetGo /\ excused \subseteq excused'
    BY <1>2 DEF GatewayTells, Gateway!Tell, Gateway!Lose
  <2>2. x \in live \ live' => x \in excused' \/ Range(statuses'[x]) \cap Final # {}
    BY <2>1 DEF Gateway!LetGo, Final
  <2>3. Range(statuses'[x]) \cap Final # {} => Told(x)'
    <3>1. PICK L \in Seq({"F", "C", "S"}) : L = statuses'[x]
      BY GatewayInv DEF Inv, DataInv
    <3>2. \A y \in Range(L) : \E n \in 1..Len(L) : L[n] = y
      BY <3>1 DEF Range
    <3> QED BY <3>1, <3>2 DEF Told, Final, Gateway!Final
  <2> QED BY <2>1, <2>2, <2>3
<1> QED BY <1>1, <1>2 DEF GatewayStep

LEMMA AccountGateway ==
    ASSUME Inv, NEW o \in Orders, GatewayStep(o), NEW x \in Orders, AccountOf(x)
    PROVE  AccountOf(x)'
<1>1. /\ UNCHANGED <<kind, conn, session, oracleVars, forwarded, gap>>
      /\ o \in forwarded
  BY GatewayAt DEF oracleVars
<1>2. ASSUME NEW m \in Messages, Held(m)
      PROVE  Held(m)'
  BY <1>2, HeldGateway
<1>3. Owed(x) => Owed(x)'
  BY <1>1 DEF Owed, oracleVars
<1>4. x \in live \cup excused => x \in live' \cup excused' \/ Told(x)'
  BY GatewayKeeps
<1>5. CASE statuses'[x] = statuses[x]
  BY <1>1, <1>2, <1>3, <1>4, <1>5, AccountKept DEF oracleVars
<1>6. CASE statuses'[x] # statuses[x]
  <2>1. PICK status \in {"F", "C", "S"}, n \in 1..MaxTells :
          /\ n = Len(statuses[o]) + 1
          /\ statuses'[o] = Append(statuses[o], status)
          /\ \A y \in Orders \ {o} : statuses'[y] = statuses[y]
          /\ queue' \in [Queues -> Seq(Messages)]
          /\ queue'[queueOf[o]] = Append(queue[queueOf[o]], [order |-> o, n |-> n])
    BY <1>6, GatewayAt
  <2>2. x = o
    BY <1>6, <2>1
  <2>3. PICK K \in Seq({"F", "C", "S"}) : K = statuses[o]
    BY DEF Inv, DataInv
  <2>4. /\ Len(statuses'[o]) = n
        /\ Len(statuses[o]) \in Nat
        /\ \A k \in 1..Len(statuses[o]) : statuses'[o][k] = statuses[o][k]
        /\ \A k \in 1..n : k = n \/ k \in 1..Len(statuses[o])
    BY <2>1, <2>3
  <2>5. ASSUME Told(o)
        PROVE  Told(o)'
    <3>1. PICK k \in 1..Len(statuses[o]) : statuses[o][k] \in Final
      BY <2>5 DEF Told
    <3>2. k \in 1..Len(statuses'[o]) /\ statuses'[o][k] = statuses[o][k]
      BY <2>1, <2>4, <3>1
    <3> QED BY <3>1, <3>2 DEF Told, Final, Gateway!Final
  <2>6. Held([order |-> o, n |-> n])'
    <3>1. [order |-> o, n |-> n] \in Messages /\ queueOf[o] \in Queues
      BY QueueAssumption, BoundAssumption DEF Messages
    <3>2. queue[queueOf[o]] \in Seq(Messages)
      BY <3>1, LineTypes
    <3>3. [order |-> o, n |-> n] \in ToSet(queue'[queueOf[o]])
      <4>1. [order |-> o, n |-> n] \in
               ToSet(Append(queue[queueOf[o]], [order |-> o, n |-> n]))
        BY <3>1, <3>2, AppendSet
      <4> QED BY <2>1, <4>1
    <3> QED BY <3>3 DEF Held
  <2>7. ASSUME NEW k \in 1..n, statuses'[o][k] \in Final
        PROVE  \/ k \in applied'[o]
               \/ Held([order |-> o, n |-> k])'
               \/ gap'[o] # {}
    <3>1. CASE k = n
      BY <2>6, <3>1
    <3>2. CASE k \in 1..Len(statuses[o])
      <4>1. \/ k \in applied[o]
            \/ Held([order |-> o, n |-> k])
            \/ gap[o] # {}
        BY <2>2, <2>4, <2>7, <3>2 DEF AccountOf, Seen
      <4> QED BY <1>1, <1>2, <3>2, <4>1, StatusTypes DEF oracleVars
    <3> QED BY <2>4, <3>1, <3>2
  <2>8. Seen(o)'
    BY <2>4, <2>7 DEF Seen, Final, Gateway!Final
  <2>9. o \in forwarded' => o \in live' \cup excused' \/ Told(o)' \/ gap'[o] # {}
    BY <1>1, <1>4, <2>2, <2>5 DEF AccountOf
  <2>10. o \in sold' /\ o \in forwarded'
    BY <1>1 DEF oracleVars, Inv, DataInv
  <2> QED BY <2>2, <2>8, <2>9, <2>10 DEF AccountOf
<1> QED BY <1>5, <1>6

LEMMA AccountStep ==
    ASSUME Inv, AccountInv, [Next]_vars
    PROVE  AccountInv'
<1> SUFFICES ASSUME NEW o \in Orders
             PROVE  AccountOf(o)'
  BY DEF AccountInv
<1>1. AccountOf(o)
  BY DEF AccountInv
<1>2. CASE UNCHANGED vars
  <2>1. \A m \in Messages : Held(m) => Held(m)'
    BY <1>2 DEF vars, Held
  <2> QED BY <1>1, <1>2, <2>1, AccountQuiet DEF vars, oracleVars, gatewayVars
<1>3. ASSUME NEW q \in Queues, (\E s \in Sessions : Dial(q, s)) \/ ConnectionLost(q)
      PROVE  AccountOf(o)'
  BY <1>1, <1>3, AccountConnection
<1>4. ASSUME NEW s \in Sessions, Step(s)
      PROVE  AccountOf(o)'
  BY <1>1, <1>4, SessionSteps, AccountSession, AccountProceeds, AccountOthers
<1>5. ASSUME NEW x \in Orders, GatewayStep(x)
      PROVE  AccountOf(o)'
  BY <1>1, <1>5, AccountGateway
<1>6. CASE Restart
  BY <1>1, <1>6, AccountRestart
<1> QED BY <1>2, <1>3, <1>4, <1>5, <1>6 DEF Next

LEMMA AccountInit ==
    ASSUME Init
    PROVE  AccountInv
<1>1. ASSUME NEW o \in Orders
      PROVE  AccountOf(o)
  <2>1. queueOf[o] \in Queues
    BY QueueAssumption
  <2>2. Entry(o) \in ToSet(queue[queueOf[o]])
    BY <2>1, InitialQueues DEF NewOrders, Entry
  <2>3. Held(Entry(o))
    BY <2>2 DEF Held, Entry
  <2>4. Len(statuses[o]) = 0 /\ o \notin forwarded
    BY DEF Init
  <2> QED BY <2>3, <2>4 DEF AccountOf, Seen
<1> QED BY <1>1 DEF AccountInv

LEMMA HeldPending ==
    ASSUME Inv, NEW m \in Messages, Held(m)
    PROVE  Pending(m)
<1>1. queueOf[m.order] \in Queues
  BY QueueAssumption DEF Messages
<1> QED BY <1>1, LineTypes DEF Held, Pending

LEMMA AccountedHolds ==
    ASSUME Inv, AccountInv
    PROVE  Accounted
<1> SUFFICES ASSUME NEW o \in Orders, kind[o] # "invalid", gap[o] = {},
                    ~Pending(Entry(o)), o \notin refused \ sold
             PROVE  Fulfilled(o)
  BY DEF Accounted, Entry
<1>1. AccountOf(o)
  BY DEF AccountInv
<1>2. ~Held(Entry(o)) /\ ~Owed(o)
  BY EntryTypes, HeldPending DEF Owed, Pending
<1>3. o \in sold /\ (kind[o] # "provider" \/ o \in forwarded)
  BY <1>1, <1>2 DEF AccountOf
<1>4. ASSUME o \in forwarded, o \notin live \cup excused
      PROVE  \E n \in DOMAIN statuses[o] :
                /\ statuses[o][n] \in Final
                /\ n \in applied[o] \/ Pending([order |-> o, n |-> n])
  <2>1. PICK n \in 1..Len(statuses[o]) : statuses[o][n] \in Final
    BY <1>1, <1>4 DEF AccountOf, Told
  <2>2. n \in applied[o] \/ Held([order |-> o, n |-> n])
    BY <1>1, <2>1 DEF AccountOf, Seen
  <2>3. n \in applied[o] \/ Pending([order |-> o, n |-> n])
    BY <2>2, StatusTypes, HeldPending
  <2>4. n \in DOMAIN statuses[o]
    <3>1. PICK L \in Seq({"F", "C", "S"}) : L = statuses[o]
      BY DEF Inv, DataInv
    <3> QED BY <2>1, <3>1
  <2> QED BY <2>1, <2>3, <2>4
<1> QED BY <1>3, <1>4 DEF Fulfilled

(* An order that came in is never lost without a trace: it is in its       *)
(* message, in Oracle, at its gateway or told of, or the log of a known    *)
(* hole names it, however many connections are lost, whatever calls fail   *)
(* and whenever the process restarts.                                      *)
THEOREM AccountedCorrect == Spec => []Accounted
<1>1. Init => Inv /\ AccountInv
  BY InitInv, AccountInit
<1>2. Inv /\ AccountInv /\ [Next]_vars => (Inv /\ AccountInv)'
  BY InvStep, AccountStep
<1>3. Inv /\ AccountInv => Accounted
  BY AccountedHolds
<1> QED BY <1>1, <1>2, <1>3, PTL DEF Spec

=============================================================================
