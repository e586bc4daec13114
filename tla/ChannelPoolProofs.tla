-------------------------- MODULE ChannelPoolProofs --------------------------
(***************************************************************************)
(* The safety of the channel pool for any number of requests, any pool     *)
(* size and any number of faults.                                          *)
(***************************************************************************)
EXTENDS ChannelPool, FiniteSetTheorems, TLAPS

USE DEF netVars, poolVars, watcherVars, waitVars, pubVars

Holding == {"send", "put", "return"}
Marked == Holding \cup {"sleep"}

(* Whoever is about to use a channel has one, connect included; the sleepers *)
(* are those on the list of requests to be notified.                         *)
HandsInv ==
  /\ \A p \in Pubs : p \in waiters <=> pc[p] = "sleep"
  /\ \A p \in Pubs : held[p] # None <=> pc[p] \in Holding
  /\ fresh # None <=> watcher = "push"
  /\ watcher = "push" => filled < Size

TypeInv == TypeOK /\ HandsInv

(* Every channel in use was opened, and its number tells it from a new one. *)
Opened(c) == c[1] \in DOMAIN made /\ c[2] \in 1..made[c[1]]

OpenedInv ==
  /\ \A c \in open \cup pool : Opened(c)
  /\ fresh # None => Opened(fresh)
  /\ \A p \in Pubs : held[p] # None => Opened(held[p])

OwnerInv == OpenedInv /\ SingleOwner /\ fresh \notin pool

(* While connect fills the pool, nobody else opens channels on its          *)
(* connection, so that their numbers run up to its loop index.              *)
FillInv ==
  watcher \in {"fill", "push"} =>
    /\ made[conn] = IF watcher = "push" THEN filled + 1 ELSE filled
    /\ watcher = "push" => fresh = <<conn, filled + 1>>
    /\ \A p \in Pubs : via[p] # conn

SlotInv == IsFiniteSet(pool) /\ SlotsAccounted

-----------------------------------------------------------------------------
(* Single steps *)

LEMMA GotoFacts ==
  ASSUME TypeOK, NEW p \in Pubs, NEW state \in PubStates, Goto(p, state)
  PROVE  /\ pc' \in [Pubs -> PubStates]
         /\ pc'[p] = state
         /\ \A q \in Pubs \ {p} : pc'[q] = pc[q]
BY DEF Goto, TypeOK

LEMMA RetryFacts ==
  ASSUME TypeOK, NEW p \in Pubs, Retry(p)
  PROVE  /\ pc' \in [Pubs -> PubStates]
         /\ tries' \in [Pubs -> 0..Attempts]
         /\ pc'[p] \in {"get", "failed"}
         /\ \A q \in Pubs \ {p} : pc'[q] = pc[q]
<1>1. CASE tries[p] < Attempts /\ Goto(p, "get")
           /\ tries' = [tries EXCEPT ![p] = @ + 1]
  <2>1. tries' \in [Pubs -> 0..Attempts]
    BY <1>1, BoundsAssumption DEF TypeOK
  <2> QED BY <1>1, <2>1, GotoFacts DEF PubStates
<1>2. CASE Goto(p, "failed") /\ UNCHANGED tries
  BY <1>2, GotoFacts DEF PubStates, TypeOK
<1> QED BY <1>1, <1>2 DEF Retry

LEMMA FinishFacts ==
  ASSUME TypeOK, NEW p \in Pubs, Finish(p)
  PROVE  /\ pc' \in [Pubs -> PubStates]
         /\ tries' \in [Pubs -> 0..Attempts]
         /\ held' \in [Pubs -> Channels \cup {None}]
         /\ ok' \in [Pubs -> BOOLEAN]
         /\ pc'[p] \in {"get", "failed", "done"}
         /\ held'[p] = None
         /\ \A q \in Pubs \ {p} : pc'[q] = pc[q] /\ held'[q] = held[q]
<1>1. /\ held' \in [Pubs -> Channels \cup {None}]
      /\ ok' \in [Pubs -> BOOLEAN]
      /\ held'[p] = None
      /\ \A q \in Pubs \ {p} : held'[q] = held[q]
  BY DEF Finish, TypeOK
<1>2. CASE ok[p]
  <2>1. Goto(p, "done") /\ UNCHANGED tries
    BY <1>2 DEF Finish
  <2> QED BY <1>1, <2>1, GotoFacts DEF PubStates, TypeOK
<1>3. CASE ~ok[p]
  <2>1. Retry(p)
    BY <1>3 DEF Finish
  <2> QED BY <1>1, <2>1, RetryFacts
<1> QED BY <1>2, <1>3

LEMMA OpenFacts ==
  ASSUME TypeOK, NEW k \in DOMAIN made, OpenChannel(k)
  PROVE  /\ made' \in Seq(Nat) /\ DOMAIN made' = DOMAIN made
         /\ made'[k] = made[k] + 1
         /\ \A j \in DOMAIN made \ {k} : made'[j] = made[j]
         /\ open' = open \cup {NextOn(k)}
         /\ NextOn(k) \in Channels
         /\ NextOn(k)[1] = k /\ NextOn(k)[2] = made[k] + 1
         /\ alive' = alive
BY DEF OpenChannel, NextOn, Channels, TypeOK

-----------------------------------------------------------------------------
(* Type correctness *)

LEMMA TypeInit == Init => TypeInv
<1> SUFFICES ASSUME Init PROVE TypeInv
  OBVIOUS
<1>1. made \in Seq(Nat) /\ DOMAIN made = {1}
  BY SizeAssumption DEF Init
<1>2. open \subseteq Channels /\ pool \subseteq Channels
  BY SizeAssumption DEF Init, Channels
<1>3. filled \in 0..Size /\ 0 \in 0..Attempts /\ 0 \in 0..MaxFaults
  BY SizeAssumption, BoundsAssumption DEF Init
<1>4. TypeOK
  BY <1>1, <1>2, <1>3 DEF Init, TypeOK, PubStates, WatcherStates
<1>5. HandsInv
  BY DEF Init, HandsInv, Holding, Marked
<1> QED BY <1>4, <1>5 DEF TypeInv

\* Steps that leave the network, the pool and the watcher alone
LEMMA TypePublish ==
  ASSUME TypeInv, NEW p \in Pubs, Arrive(p) \/ Publish(p)
  PROVE  TypeInv'
<1> USE DEF At
<1>a. TypeOK /\ HandsInv
  BY DEF TypeInv
<1>1. CASE Arrive(p)
  <2>1. "ensure" \in PubStates
    BY DEF PubStates
  <2> QED BY <1>a, <1>1, <2>1, GotoFacts DEF Arrive, TypeInv, TypeOK, HandsInv, Holding, Marked
<1>2. CASE EnsureQueue(p)
  <2>1. "get" \in PubStates /\ "declare" \in PubStates
    BY DEF PubStates
  <2>2. via' \in [Pubs -> DOMAIN made \cup {0}]
    BY <1>a, <1>2 DEF EnsureQueue, TypeOK
  <2>3. /\ pc' \in [Pubs -> PubStates]
        /\ pc'[p] \notin Marked /\ pc[p] \notin Marked
        /\ \A q \in Pubs \ {p} : pc'[q] = pc[q]
    BY <1>a, <1>2, <2>1, GotoFacts DEF EnsureQueue, Holding, Marked
  <2> QED BY <1>a, <1>2, <2>2, <2>3 DEF EnsureQueue, TypeInv, TypeOK, HandsInv, Holding, Marked
<1>3. CASE DeclareQueue(p)
  <2>1. "get" \in PubStates /\ "failed" \in PubStates
    BY DEF PubStates
  <2>2. via' \in [Pubs -> DOMAIN made \cup {0}] /\ verified' \in BOOLEAN
    BY <1>a, <1>3 DEF DeclareQueue, TypeOK
  <2>3. /\ pc' \in [Pubs -> PubStates]
        /\ pc'[p] \notin Marked /\ pc[p] \notin Marked
        /\ \A q \in Pubs \ {p} : pc'[q] = pc[q]
    BY <1>a, <1>3, <2>1, GotoFacts DEF DeclareQueue, Holding, Marked
  <2> QED BY <1>a, <1>3, <2>2, <2>3 DEF DeclareQueue, TypeInv, TypeOK, HandsInv, Holding, Marked
<1>4. CASE GetChannel(p)
  <2>1. "register" \in PubStates /\ "take" \in PubStates
    BY DEF PubStates
  <2>2. /\ pc' \in [Pubs -> PubStates] /\ tries' \in [Pubs -> 0..Attempts]
        /\ pc'[p] \notin Marked /\ pc[p] \notin Marked
        /\ \A q \in Pubs \ {p} : pc'[q] = pc[q]
    BY <1>a, <1>4, <2>1, GotoFacts, RetryFacts DEF GetChannel, TypeOK, Holding, Marked
  <2> QED BY <1>a, <1>4, <2>2 DEF GetChannel, TypeInv, TypeOK, HandsInv, Holding, Marked
<1>5. CASE WaitForReconnect(p)
  <2>1. "sleep" \in PubStates
    BY DEF PubStates
  <2>2. waiters' \subseteq Pubs /\ late' \in [Pubs -> BOOLEAN]
    BY <1>a, <1>5 DEF WaitForReconnect, TypeOK
  <2>3. /\ pc' \in [Pubs -> PubStates]
        /\ pc'[p] = "sleep" /\ pc[p] \notin Marked
        /\ \A q \in Pubs \ {p} : pc'[q] = pc[q]
    BY <1>a, <1>5, <2>1, GotoFacts DEF WaitForReconnect, Holding, Marked
  <2> QED BY <1>a, <1>5, <2>2, <2>3 DEF WaitForReconnect, TypeInv, TypeOK, HandsInv, Holding, Marked
<1>6. CASE TakeChannel(p)
  <2>1. "send" \in PubStates /\ "replace" \in PubStates
    BY DEF PubStates
  <2>2. PICK c \in pool :
          /\ pool' = pool \ {c}
          /\ IF c \in open
             THEN held' = [held EXCEPT ![p] = c] /\ Goto(p, "send")
             ELSE UNCHANGED held /\ Goto(p, "replace")
    BY <1>6 DEF TakeChannel
  <2>3. c \in Channels /\ c # None /\ pool' \subseteq Channels
    BY <1>a, <2>2, NoneAssumption DEF TypeOK, Channels
  <2>4. held[p] = None /\ pc[p] = "take"
    BY <1>a, <1>6 DEF TakeChannel, HandsInv, Holding, Marked
  <2>5. /\ pc' \in [Pubs -> PubStates]
        /\ pc'[p] \in {"send", "replace"} /\ (pc'[p] = "send" <=> c \in open)
        /\ \A q \in Pubs \ {p} : pc'[q] = pc[q]
    BY <1>a, <2>1, <2>2, GotoFacts
  <2>6. /\ held' \in [Pubs -> Channels \cup {None}]
        /\ held'[p] # None <=> c \in open
        /\ \A q \in Pubs \ {p} : held'[q] = held[q]
    BY <1>a, <2>2, <2>3, <2>4 DEF TypeOK
  <2> QED BY <1>a, <1>6, <2>3, <2>5, <2>6 DEF TakeChannel, TypeInv, TypeOK, HandsInv, Holding, Marked
<1>7. CASE TakeNothing(p)
  <2>1. /\ pc' \in [Pubs -> PubStates] /\ tries' \in [Pubs -> 0..Attempts]
        /\ pc'[p] \notin Marked /\ pc[p] \notin Marked
        /\ \A q \in Pubs \ {p} : pc'[q] = pc[q]
    BY <1>a, <1>7, RetryFacts DEF TakeNothing, TypeOK, Holding, Marked
  <2>2. panicked' \in BOOLEAN
    BY <1>a, <1>7 DEF TakeNothing, TypeOK
  <2> QED BY <1>a, <1>7, <2>1, <2>2 DEF TakeNothing, TypeInv, TypeOK, HandsInv, Holding, Marked
<1>8. CASE ReadConnection(p)
  <2>1. "reopen" \in PubStates
    BY DEF PubStates
  <2>2. via' \in [Pubs -> DOMAIN made \cup {0}]
    BY <1>a, <1>8 DEF ReadConnection, TypeOK
  <2>3. /\ pc' \in [Pubs -> PubStates]
        /\ pc'[p] \notin Marked /\ pc[p] \notin Marked
        /\ \A q \in Pubs \ {p} : pc'[q] = pc[q]
    BY <1>a, <1>8, <2>1, GotoFacts DEF ReadConnection, Holding, Marked
  <2> QED BY <1>a, <1>8, <2>2, <2>3 DEF ReadConnection, TypeInv, TypeOK, HandsInv, Holding, Marked
<1>9. CASE ReplaceChannel(p)
  <2>a. held[p] = None /\ pc[p] = "reopen"
    BY <1>a, <1>9 DEF ReplaceChannel, HandsInv, Holding, Marked
  <2>b. /\ via' = [via EXCEPT ![p] = 0]
        /\ UNCHANGED <<pool, watcherVars, waitVars, ok, verified, closer, faults, panicked>>
    BY <1>9 DEF ReplaceChannel
  <2>1. CASE /\ via[p] \in alive
             /\ OpenChannel(via[p])
             /\ held' = [held EXCEPT ![p] = NextOn(via[p])]
             /\ Goto(p, "send")
             /\ UNCHANGED <<lost, tries>>
    <3>1. via[p] \in DOMAIN made
      BY <1>a, <2>1 DEF TypeOK
    <3>2. NextOn(via[p]) \in Channels /\ NextOn(via[p]) # None
      BY <1>a, <2>1, <3>1, OpenFacts, NoneAssumption DEF Channels
    <3>3. /\ made' \in Seq(Nat) /\ DOMAIN made' = DOMAIN made
          /\ open' \subseteq Channels /\ alive' = alive
      BY <1>a, <2>1, <3>1, <3>2, OpenFacts DEF TypeOK
    <3>4. /\ pc' \in [Pubs -> PubStates] /\ pc'[p] = "send"
          /\ \A q \in Pubs \ {p} : pc'[q] = pc[q]
      BY <1>a, <2>1, GotoFacts DEF PubStates
    <3>5. /\ held' \in [Pubs -> Channels \cup {None}] /\ held'[p] # None
          /\ \A q \in Pubs \ {p} : held'[q] = held[q]
      BY <1>a, <2>1, <3>2 DEF TypeOK
    <3>6. via' \in [Pubs -> DOMAIN made' \cup {0}]
      BY <1>a, <2>b, <3>3 DEF TypeOK
    <3>7. HandsInv'
      BY <1>a, <2>a, <2>b, <3>4, <3>5 DEF HandsInv, Holding, Marked
    <3> QED BY <1>a, <2>1, <2>b, <3>3, <3>4, <3>5, <3>6, <3>7 DEF TypeInv, TypeOK
  <2>2. CASE /\ lost' = lost + 1
             /\ Retry(p)
             /\ UNCHANGED <<netVars, held>>
    <3>1. /\ pc' \in [Pubs -> PubStates] /\ tries' \in [Pubs -> 0..Attempts]
          /\ pc'[p] \notin Marked
          /\ \A q \in Pubs \ {p} : pc'[q] = pc[q]
      BY <1>a, <2>2, RetryFacts DEF Holding, Marked
    <3>2. via' \in [Pubs -> DOMAIN made \cup {0}] /\ lost' \in Nat
      BY <1>a, <2>2, <2>b DEF TypeOK
    <3>3. HandsInv'
      BY <1>a, <2>a, <2>b, <2>2, <3>1 DEF HandsInv, Holding, Marked
    <3> QED BY <1>a, <2>2, <2>b, <3>1, <3>2, <3>3 DEF TypeInv, TypeOK
  <2> QED BY <1>9, <2>1, <2>2 DEF ReplaceChannel
<1>10. CASE PublishMessage(p)
  <2>1. "put" \in PubStates
    BY DEF PubStates
  <2>2. ok' \in [Pubs -> BOOLEAN]
    BY <1>a, <1>10 DEF PublishMessage, TypeOK
  <2>3. /\ pc' \in [Pubs -> PubStates]
        /\ pc'[p] \in Holding /\ pc[p] \in Holding
        /\ \A q \in Pubs \ {p} : pc'[q] = pc[q]
    BY <1>a, <1>10, <2>1, GotoFacts DEF PublishMessage, Holding, Marked
  <2> QED BY <1>a, <1>10, <2>2, <2>3 DEF PublishMessage, TypeInv, TypeOK, HandsInv, Holding, Marked
<1>11. CASE PutChannel(p)
  <2>a. pc[p] \in Holding /\ UNCHANGED <<netVars, pool, watcherVars, waitVars, via, verified,
                                          closer, faults, panicked>>
    BY <1>11 DEF PutChannel, Holding
  <2>1. CASE held[p] \in open
    <3>1. Goto(p, "return") /\ UNCHANGED <<held, ok, tries, lost>>
      BY <1>11, <2>1 DEF PutChannel
    <3>2. /\ pc' \in [Pubs -> PubStates] /\ pc'[p] \in Holding
          /\ \A q \in Pubs \ {p} : pc'[q] = pc[q]
      BY <1>a, <3>1, GotoFacts DEF PubStates, Holding
    <3> QED BY <1>a, <2>a, <3>1, <3>2 DEF TypeInv, TypeOK, HandsInv, Holding, Marked
  <2>2. CASE held[p] \notin open
    <3>1. Finish(p) /\ lost' = lost + 1
      BY <1>11, <2>2 DEF PutChannel
    <3>2. pc'[p] \notin Marked
      BY <1>a, <3>1, FinishFacts DEF Holding, Marked
    <3>3. HandsInv'
      BY <1>a, <2>a, <3>1, <3>2, FinishFacts DEF HandsInv, Holding, Marked
    <3>4. lost' \in Nat
      BY <1>a, <3>1 DEF TypeOK
    <3> QED BY <1>a, <2>a, <3>1, <3>3, <3>4, FinishFacts DEF TypeInv, TypeOK
  <2> QED BY <2>1, <2>2
<1>12. CASE ReturnChannel(p)
  <2>a. pc[p] \in Holding /\ UNCHANGED <<made, alive, lost, watcherVars, waitVars, via, verified,
                                          closer, faults>>
    BY <1>12 DEF ReturnChannel, Holding
  <2>1. CASE Finish(p) /\ UNCHANGED panicked
             /\ \/ pool' = pool \cup {held[p]} /\ UNCHANGED open
                \/ open' = open \ {held[p]} /\ UNCHANGED pool
    <3>1. held[p] \in Channels
      BY <1>a, <2>a DEF TypeOK, HandsInv, Holding, Marked
    <3>2. pool' \subseteq Channels /\ open' \subseteq Channels
      BY <1>a, <2>1, <3>1 DEF TypeOK
    <3>3. pc'[p] \notin Marked
      BY <1>a, <2>1, FinishFacts DEF Holding, Marked
    <3>4. HandsInv'
      BY <1>a, <2>a, <2>1, <3>3, FinishFacts DEF HandsInv, Holding, Marked
    <3> QED BY <1>a, <2>a, <2>1, <3>2, <3>4, FinishFacts DEF TypeInv, TypeOK
  <2>2. CASE panicked' = TRUE /\ UNCHANGED <<open, pool, pc, held, ok, tries>>
    BY <1>a, <2>a, <2>2 DEF TypeInv, TypeOK, HandsInv, Holding, Marked
  <2> QED BY <1>12, <2>1, <2>2 DEF ReturnChannel
<1> QED BY <1>1, <1>2, <1>3, <1>4, <1>5, <1>6, <1>7, <1>8, <1>9, <1>10, <1>11, <1>12
        DEF Publish

LEMMA TypeWatcher ==
  ASSUME TypeInv, Watcher
  PROVE  TypeInv'
<1> USE DEF WatcherAt
<1>a. TypeOK /\ HandsInv
  BY DEF TypeInv
<1>1. CASE ConnectionDown
  BY <1>a, <1>1 DEF ConnectionDown, TypeInv, TypeOK, HandsInv, WatcherStates
<1>2. CASE StartAttempt
  BY <1>a, <1>2 DEF StartAttempt, TypeInv, TypeOK, HandsInv, WatcherStates
<1>3. CASE Dial
  <2>a. UNCHANGED <<waitVars, pubVars, reconnecting, fresh, verified, closer>>
    BY <1>3 DEF Dial
  <2>b. fresh = None
    BY <1>a, <1>3 DEF Dial, HandsInv
  <2>1. CASE /\ faults < MaxFaults /\ faults' = faults + 1
             /\ watcher' = "attempt"
             /\ UNCHANGED <<netVars, poolVars, conn, filled, panicked>>
    <3>1. faults' \in 0..MaxFaults
      BY <1>a, <2>1, BoundsAssumption DEF TypeOK
    <3> QED BY <1>a, <2>a, <2>b, <2>1, <3>1 DEF TypeInv, TypeOK, HandsInv, WatcherStates
  <2>2. CASE /\ made' = Append(made, 0)
             /\ conn' = Len(made) + 1
             /\ alive' = alive \cup {conn'}
             /\ open' = open \ pool
             /\ pool' = {}
             /\ panicked' = PoolGone
             /\ watcher' = "fill"
             /\ filled' = 0
             /\ lost' = 0
             /\ UNCHANGED faults
    <3>1. /\ made' \in Seq(Nat) /\ conn' \in DOMAIN made'
          /\ DOMAIN made \subseteq DOMAIN made'
      BY <1>a, <2>2 DEF TypeOK
    <3>2. via' \in [Pubs -> DOMAIN made' \cup {0}] /\ alive' \subseteq DOMAIN made'
      BY <1>a, <2>a, <2>2, <3>1 DEF TypeOK
    <3>3. filled' \in 0..Size /\ panicked' \in BOOLEAN
      BY <2>2, SizeAssumption DEF PoolGone
    <3>4. HandsInv'
      BY <1>a, <2>a, <2>b, <2>2 DEF HandsInv
    <3> QED BY <1>a, <2>a, <2>2, <3>1, <3>2, <3>3, <3>4 DEF TypeInv, TypeOK, WatcherStates
  <2> QED BY <1>3, <2>1, <2>2 DEF Dial
<1>4. CASE FillPool
  <2>a. /\ watcher = "fill" /\ fresh = None
        /\ UNCHANGED <<poolVars, waitVars, pubVars, conn, reconnecting, filled, verified,
                       closer, faults, panicked>>
    BY <1>a, <1>4 DEF FillPool, HandsInv
  <2>1. CASE watcher' \in {"setup", "attempt"} /\ UNCHANGED <<netVars, fresh>>
    BY <1>a, <2>a, <2>1 DEF TypeInv, TypeOK, HandsInv, WatcherStates
  <2>2. CASE /\ filled < Size /\ conn \in alive
             /\ OpenChannel(conn)
             /\ fresh' = NextOn(conn)
             /\ watcher' = "push"
    <3>1. /\ made' \in Seq(Nat) /\ DOMAIN made' = DOMAIN made /\ alive' = alive
          /\ open' = open \cup {NextOn(conn)} /\ NextOn(conn) \in Channels
      BY <1>a, <2>2, OpenFacts DEF TypeOK
    <3>2. open' \subseteq Channels /\ fresh' \in Channels /\ fresh' # None
      BY <1>a, <2>2, <3>1, NoneAssumption DEF TypeOK, Channels
    <3>3. HandsInv'
      BY <1>a, <2>a, <2>2, <3>2 DEF HandsInv
    <3> QED BY <1>a, <2>a, <2>2, <3>1, <3>2, <3>3 DEF TypeInv, TypeOK, WatcherStates
  <2> QED BY <1>4, <2>1, <2>2 DEF FillPool
<1>5. CASE PushChannel
  <2>1. CASE panicked' = TRUE /\ UNCHANGED <<pool, fresh, filled, watcher>>
    BY <1>a, <1>5, <2>1 DEF PushChannel, TypeInv, TypeOK, HandsInv
  <2>2. CASE /\ pool' = pool \cup {fresh}
             /\ fresh' = None
             /\ filled' = filled + 1
             /\ watcher' = "fill"
             /\ UNCHANGED panicked
    <3>1. fresh # None /\ filled < Size
      BY <1>a, <1>5 DEF PushChannel, HandsInv
    <3>2. pool' \subseteq Channels /\ filled' \in 0..Size
      BY <1>a, <2>2, <3>1, SizeAssumption DEF TypeOK
    <3> QED BY <1>a, <1>5, <2>2, <3>2
            DEF PushChannel, TypeInv, TypeOK, HandsInv, WatcherStates
  <2> QED BY <1>5, <2>1, <2>2 DEF PushChannel
<1>6. CASE SetupExchange
  <2>1. faults' \in 0..MaxFaults
    BY <1>a, <1>6, BoundsAssumption DEF SetupExchange, TypeOK
  <2> QED BY <1>a, <1>6, <2>1 DEF SetupExchange, TypeInv, TypeOK, HandsInv, WatcherStates
<1>7. CASE NotifyWaiters
  <2>1. pc' \in [Pubs -> PubStates] /\ late' \in [Pubs -> BOOLEAN] /\ waiters' \subseteq Pubs
    BY <1>a, <1>7 DEF NotifyWaiters, TypeOK, PubStates
  <2> QED BY <1>a, <1>7, <2>1
          DEF NotifyWaiters, TypeInv, TypeOK, HandsInv, WatcherStates, Holding, Marked
<1>8. CASE ClearReconnecting
  BY <1>a, <1>8 DEF ClearReconnecting, TypeInv, TypeOK, HandsInv, WatcherStates
<1> QED BY <1>1, <1>2, <1>3, <1>4, <1>5, <1>6, <1>7, <1>8 DEF Watcher

LEMMA TypeRest ==
  ASSUME TypeInv,
         \/ Close
         \/ \E k \in alive : ConnectionLost(k)
         \/ \E c \in open : ChannelException(c)
         \/ UNCHANGED vars
  PROVE  TypeInv'
<1>a. TypeOK /\ HandsInv
  BY DEF TypeInv
<1>b. \A k : CloseConnection(k) =>
        made' = made /\ alive' \subseteq alive /\ open' \subseteq open
  BY DEF CloseConnection
<1>1. CASE MarkClosed
  BY <1>a, <1>1 DEF MarkClosed, TypeInv, TypeOK, HandsInv
<1>2. CASE ClosePool
  BY <1>a, <1>2 DEF ClosePool, TypeInv, TypeOK, HandsInv
<1>3. CASE CloseConn
  <2>1. made' = made /\ alive' \subseteq alive /\ open' \subseteq open
    BY <1>3, <1>b DEF CloseConn
  <2> QED BY <1>a, <1>3, <2>1 DEF CloseConn, TypeInv, TypeOK, HandsInv
<1>4. ASSUME NEW k \in alive, ConnectionLost(k) PROVE TypeInv'
  <2>1. made' = made /\ alive' \subseteq alive /\ open' \subseteq open
    BY <1>4, <1>b DEF ConnectionLost
  <2>2. faults' \in 0..MaxFaults
    BY <1>a, <1>4, BoundsAssumption DEF ConnectionLost, TypeOK
  <2> QED BY <1>a, <1>4, <2>1, <2>2 DEF ConnectionLost, TypeInv, TypeOK, HandsInv
<1>5. ASSUME NEW c \in open, ChannelException(c) PROVE TypeInv'
  <2>1. faults' \in 0..MaxFaults
    BY <1>a, <1>5, BoundsAssumption DEF ChannelException, TypeOK
  <2> QED BY <1>a, <1>5, <2>1 DEF ChannelException, TypeInv, TypeOK, HandsInv
<1>6. CASE UNCHANGED vars
  BY <1>a, <1>6 DEF vars, TypeInv, TypeOK, HandsInv
<1> QED BY <1>1, <1>2, <1>3, <1>4, <1>5, <1>6 DEF Close

LEMMA TypeStep == TypeInv /\ [Next]_vars => TypeInv'
<1> SUFFICES ASSUME TypeInv, [Next]_vars PROVE TypeInv'
  OBVIOUS
<1> QED BY TypePublish, TypeWatcher, TypeRest DEF Next

(* Every variable keeps its type; connect's loop stays within the pool and  *)
(* no request holds a channel outside of tryPublish.                        *)
THEOREM TypeCorrect == Spec => []TypeOK
<1>1. TypeInv => TypeOK
  BY DEF TypeInv
<1> QED BY <1>1, TypeInit, TypeStep, PTL DEF Spec

-----------------------------------------------------------------------------
(* One owner per channel *)

(* What a step can do to the channels: nothing but close or drop some, or   *)
(* one of the six moves of a channel from one place to the next.            *)
Quiet ==
  /\ made' = made /\ open' \subseteq open /\ pool' \subseteq pool /\ fresh' = fresh
  /\ \A q \in Pubs : held'[q] \in {held[q], None}

Taken(p) == \E c \in pool :
  /\ made' = made /\ open' = open /\ pool' = pool \ {c} /\ fresh' = fresh
  /\ held'[p] = c /\ \A q \in Pubs \ {p} : held'[q] = held[q]

Reopened(p) ==
  /\ via[p] \in DOMAIN made /\ OpenChannel(via[p])
  /\ pool' = pool /\ fresh' = fresh
  /\ held'[p] = NextOn(via[p]) /\ \A q \in Pubs \ {p} : held'[q] = held[q]

Returned(p) ==
  /\ made' = made /\ open' = open /\ fresh' = fresh
  /\ held[p] # None /\ pool' = pool \cup {held[p]}
  /\ held'[p] = None /\ \A q \in Pubs \ {p} : held'[q] = held[q]

Dialed ==
  /\ made' = Append(made, 0) /\ open' \subseteq open /\ pool' = {}
  /\ fresh' = fresh /\ held' = held

Created ==
  /\ OpenChannel(conn) /\ fresh' = NextOn(conn) /\ pool' = pool /\ held' = held

Pushed ==
  /\ made' = made /\ open' = open /\ held' = held
  /\ fresh # None /\ fresh' = None /\ pool' = pool \cup {fresh}

LEMMA PublishMoves ==
  ASSUME TypeInv, NEW p \in Pubs, Arrive(p) \/ Publish(p)
  PROVE  Quiet \/ Taken(p) \/ Reopened(p) \/ Returned(p)
<1> USE DEF At
<1>a. TypeOK /\ HandsInv
  BY DEF TypeInv
<1>1. CASE \/ Arrive(p) \/ EnsureQueue(p) \/ DeclareQueue(p) \/ GetChannel(p)
           \/ WaitForReconnect(p) \/ TakeNothing(p) \/ ReadConnection(p) \/ PublishMessage(p)
  BY <1>1 DEF Quiet, Arrive, EnsureQueue, DeclareQueue, GetChannel, WaitForReconnect,
              TakeNothing, ReadConnection, PublishMessage
<1>2. CASE TakeChannel(p)
  <2>1. PICK c \in pool :
          /\ pool' = pool \ {c}
          /\ IF c \in open THEN held' = [held EXCEPT ![p] = c] ELSE UNCHANGED held
    BY <1>2 DEF TakeChannel
  <2>2. UNCHANGED netVars /\ fresh' = fresh
    BY <1>2 DEF TakeChannel
  <2>3. CASE c \in open
    <3>1. held'[p] = c /\ \A q \in Pubs \ {p} : held'[q] = held[q]
      BY <1>a, <2>1, <2>3 DEF TypeOK
    <3> QED BY <2>1, <2>2, <3>1 DEF Taken
  <2>4. CASE c \notin open
    BY <2>1, <2>2, <2>4 DEF Quiet
  <2> QED BY <2>3, <2>4
<1>3. CASE ReplaceChannel(p)
  <2>1. pool' = pool /\ fresh' = fresh
    BY <1>3 DEF ReplaceChannel
  <2>2. CASE /\ via[p] \in alive
             /\ OpenChannel(via[p])
             /\ held' = [held EXCEPT ![p] = NextOn(via[p])]
    <3>1. /\ via[p] \in DOMAIN made
          /\ held'[p] = NextOn(via[p])
          /\ \A q \in Pubs \ {p} : held'[q] = held[q]
      BY <1>a, <2>2 DEF TypeOK
    <3> QED BY <2>1, <2>2, <3>1 DEF Reopened
  <2>3. CASE UNCHANGED <<netVars, held>>
    BY <2>1, <2>3 DEF Quiet
  <2> QED BY <1>3, <2>2, <2>3 DEF ReplaceChannel
<1>4. CASE PutChannel(p)
  <2>1. UNCHANGED <<netVars, pool, fresh>>
    BY <1>4 DEF PutChannel
  <2>2. UNCHANGED held \/ Finish(p)
    BY <1>4 DEF PutChannel
  <2> QED BY <1>a, <2>1, <2>2, FinishFacts DEF Quiet
<1>5. CASE ReturnChannel(p)
  <2>1. held[p] # None /\ made' = made /\ fresh' = fresh
    BY <1>a, <1>5 DEF ReturnChannel, HandsInv, Holding
  <2>2. CASE pool' = pool \cup {held[p]} /\ Finish(p) /\ open' = open
    BY <1>a, <2>1, <2>2, FinishFacts DEF Returned
  <2>3. CASE open' \subseteq open /\ pool' = pool /\ (Finish(p) \/ held' = held)
    BY <1>a, <2>1, <2>3, FinishFacts DEF Quiet
  <2> QED BY <1>5, <2>2, <2>3 DEF ReturnChannel
<1> QED BY <1>1, <1>2, <1>3, <1>4, <1>5 DEF Publish

LEMMA OtherMoves ==
  ASSUME TypeInv,
         \/ Watcher \/ Close
         \/ \E k \in alive : ConnectionLost(k)
         \/ \E c \in open : ChannelException(c)
         \/ UNCHANGED vars
  PROVE  Quiet \/ Dialed \/ Created \/ Pushed
<1> USE DEF WatcherAt
<1>a. TypeOK /\ HandsInv
  BY DEF TypeInv
<1>b. \A k : CloseConnection(k) => made' = made /\ open' \subseteq open
  BY DEF CloseConnection
<1>1. CASE Dial
  BY <1>1 DEF Dial, Dialed, Quiet
<1>2. CASE FillPool
  BY <1>2 DEF FillPool, Created, Quiet
<1>3. CASE PushChannel
  BY <1>a, <1>3 DEF PushChannel, Pushed, Quiet, HandsInv
<1>4. CASE \/ ConnectionDown \/ StartAttempt \/ SetupExchange \/ NotifyWaiters
           \/ ClearReconnecting \/ MarkClosed \/ ClosePool
           \/ \E c \in open : ChannelException(c)
           \/ UNCHANGED vars
  BY <1>4 DEF ConnectionDown, StartAttempt, SetupExchange, NotifyWaiters, ClearReconnecting,
              MarkClosed, ClosePool, ChannelException, vars, Quiet
<1>5. CASE CloseConn \/ \E k \in alive : ConnectionLost(k)
  BY <1>5, <1>b DEF CloseConn, ConnectionLost, Quiet
<1> QED BY <1>1, <1>2, <1>3, <1>4, <1>5 DEF Watcher, Close

\* What was opened stays so, and the next number of a connection is new.
LEMMA OpenedStays ==
  ASSUME TypeInv, TypeInv',
         \/ made' = made
         \/ made' = Append(made, 0)
         \/ \E k \in DOMAIN made : OpenChannel(k)
  PROVE  \A c : Opened(c) => Opened(c)'
<1>a. made \in Seq(Nat)
  BY DEF TypeInv, TypeOK
<1>1. CASE made' = made
  BY <1>1 DEF Opened
<1>2. CASE made' = Append(made, 0)
  BY <1>a, <1>2 DEF Opened
<1>3. ASSUME NEW k \in DOMAIN made, OpenChannel(k)
      PROVE  \A c : Opened(c) => Opened(c)'
  <2>1. /\ DOMAIN made' = DOMAIN made
        /\ \A j \in DOMAIN made : made[j] \in Nat /\ made'[j] \in {made[j], made[j] + 1}
    BY <1>a, <1>3, OpenFacts DEF TypeInv
  <2> QED BY <2>1 DEF Opened
<1> QED BY <1>1, <1>2, <1>3

LEMMA NextIsNew ==
  ASSUME TypeInv, NEW k \in DOMAIN made, OpenChannel(k), NEW CONSTANT c, c = NextOn(k)
  PROVE  ~Opened(c) /\ Opened(c)' /\ c # None
<1>1. /\ c[1] = k /\ c[2] = made[k] + 1 /\ c \in Channels
      /\ made'[k] = made[k] + 1 /\ DOMAIN made' = DOMAIN made /\ made[k] \in Nat
  <2>1. TypeOK
    BY DEF TypeInv
  <2>2. made[k] \in Nat
    BY <2>1 DEF TypeOK
  <2> QED BY <2>1, <2>2, OpenFacts
<1> QED BY <1>1, NoneAssumption DEF Opened, Channels

LEMMA OwnerInit == Init => OwnerInv
<1> SUFFICES ASSUME Init PROVE OwnerInv
  OBVIOUS
<1>1. \A c \in {1} \X (1..Size) : Opened(c)
  BY SizeAssumption DEF Init, Opened
<1>2. None \notin pool
  BY NoneAssumption, SizeAssumption DEF Init
<1> QED BY <1>1, <1>2 DEF Init, OwnerInv, OpenedInv, SingleOwner

LEMMA OwnerStep == TypeInv /\ TypeInv' /\ OwnerInv /\ [Next]_vars => OwnerInv'
<1> SUFFICES ASSUME TypeInv, TypeInv', OwnerInv, [Next]_vars PROVE OwnerInv'
  OBVIOUS
<1> USE DEF OwnerInv
<1>a. conn \in DOMAIN made /\ None \notin pool /\ None \notin open
  BY NoneAssumption DEF TypeInv, TypeOK, Channels
<1>1. CASE Quiet
  <2>1. \A c : Opened(c) => Opened(c)'
    BY <1>1, OpenedStays DEF Quiet
  <2>2. OpenedInv'
    BY <1>1, <2>1 DEF Quiet, OpenedInv
  <2>3. SingleOwner' /\ (fresh \notin pool)'
    BY <1>1 DEF Quiet, SingleOwner
  <2> QED BY <2>2, <2>3
<1>2. ASSUME NEW p \in Pubs, Taken(p) PROVE OwnerInv'
  <2>1. PICK c \in pool :
          /\ made' = made /\ open' = open /\ pool' = pool \ {c} /\ fresh' = fresh
          /\ held'[p] = c /\ \A q \in Pubs \ {p} : held'[q] = held[q]
    BY <1>2 DEF Taken
  <2>2. \A d : Opened(d) => Opened(d)'
    BY <2>1, OpenedStays
  <2>3. OpenedInv'
    BY <2>1, <2>2 DEF OpenedInv
  <2>4. c # fresh /\ \A q \in Pubs : held[q] # None => held[q] # c
    BY DEF SingleOwner
  <2>5. SingleOwner' /\ (fresh \notin pool)'
    BY <1>a, <2>1, <2>4 DEF SingleOwner
  <2> QED BY <2>3, <2>5
<1>3. ASSUME NEW p \in Pubs, Reopened(p) PROVE OwnerInv'
  <2>1. PICK c : c = NextOn(via[p])
    OBVIOUS
  <2>2. ~Opened(c) /\ Opened(c)' /\ c # None
    BY <1>3, <2>1, NextIsNew DEF Reopened
  <2>3. \A d : Opened(d) => Opened(d)'
    BY <1>3, OpenedStays DEF Reopened
  <2>4. /\ open' = open \cup {c} /\ pool' = pool /\ fresh' = fresh
        /\ held'[p] = c /\ \A q \in Pubs \ {p} : held'[q] = held[q]
    BY <1>3, <2>1 DEF Reopened, OpenChannel
  <2>5. OpenedInv'
    BY <2>2, <2>3, <2>4 DEF OpenedInv
  <2>6. c \notin pool /\ c # fresh /\ \A q \in Pubs : held[q] # c
    BY <2>2 DEF OpenedInv
  <2>7. SingleOwner' /\ (fresh \notin pool)'
    BY <2>4, <2>6 DEF SingleOwner
  <2> QED BY <2>5, <2>7
<1>4. ASSUME NEW p \in Pubs, Returned(p) PROVE OwnerInv'
  <2>1. \A c : Opened(c) => Opened(c)'
    BY <1>4, OpenedStays DEF Returned
  <2>2. OpenedInv'
    BY <1>4, <2>1 DEF Returned, OpenedInv
  <2>3. SingleOwner' /\ (fresh \notin pool)'
    BY <1>4 DEF Returned, SingleOwner
  <2> QED BY <2>2, <2>3
<1>5. CASE Dialed
  <2>1. \A c : Opened(c) => Opened(c)'
    BY <1>5, OpenedStays DEF Dialed
  <2>2. OpenedInv'
    BY <1>5, <2>1 DEF Dialed, OpenedInv
  <2>3. SingleOwner' /\ (fresh \notin pool)'
    BY <1>5 DEF Dialed, SingleOwner
  <2> QED BY <2>2, <2>3
<1>6. CASE Created
  <2>1. PICK c : c = NextOn(conn)
    OBVIOUS
  <2>2. ~Opened(c) /\ Opened(c)' /\ c # None
    BY <1>a, <1>6, <2>1, NextIsNew DEF Created
  <2>3. \A d : Opened(d) => Opened(d)'
    BY <1>a, <1>6, OpenedStays DEF Created
  <2>4. open' = open \cup {c} /\ pool' = pool /\ fresh' = c /\ held' = held
    BY <1>6, <2>1 DEF Created, OpenChannel
  <2>5. OpenedInv'
    BY <2>2, <2>3, <2>4 DEF OpenedInv
  <2>6. c \notin pool /\ \A q \in Pubs : held[q] # c
    BY <2>2 DEF OpenedInv
  <2>7. SingleOwner' /\ (fresh \notin pool)'
    BY <2>4, <2>6 DEF SingleOwner
  <2> QED BY <2>5, <2>7
<1>7. CASE Pushed
  <2>1. \A c : Opened(c) => Opened(c)'
    BY <1>7, OpenedStays DEF Pushed
  <2>2. OpenedInv'
    BY <1>7, <2>1 DEF Pushed, OpenedInv
  <2>3. SingleOwner' /\ (fresh \notin pool)'
    BY <1>a, <1>7 DEF Pushed, SingleOwner
  <2> QED BY <2>2, <2>3
<1> QED BY <1>1, <1>2, <1>3, <1>4, <1>5, <1>6, <1>7, PublishMoves, OtherMoves DEF Next

-----------------------------------------------------------------------------
(* connect's loop *)

LEMMA FillInit == Init => FillInv
BY DEF Init, FillInv

LEMMA FillStep == TypeInv /\ FillInv /\ [Next]_vars => FillInv'
<1> SUFFICES ASSUME TypeInv, FillInv, [Next]_vars PROVE FillInv'
  OBVIOUS
<1> USE DEF At, WatcherAt, CloserAt
<1>a. TypeOK /\ HandsInv
  BY DEF TypeInv
<1>b. conn \in DOMAIN made
  BY <1>a DEF TypeOK
<1>1. ASSUME NEW p \in Pubs, Arrive(p) \/ Publish(p) PROVE FillInv'
  <2>1. UNCHANGED watcherVars
    BY <1>1 DEF Publish, Arrive, EnsureQueue, DeclareQueue, GetChannel, WaitForReconnect,
                TakeChannel, TakeNothing, ReadConnection, ReplaceChannel, PublishMessage,
                PutChannel, ReturnChannel
  <2> SUFFICES ASSUME watcher \in {"fill", "push"}
               PROVE  made'[conn] = made[conn] /\ \A q \in Pubs : via'[q] # conn
    BY <2>1 DEF FillInv
  <2>2. Connecting /\ \A q \in Pubs : via[q] # conn
    BY DEF Connecting, FillInv
  <2>3. conn # 0
    BY <1>a DEF TypeOK
  <2>4. CASE UNCHANGED <<made, via>>
    BY <2>2, <2>4
  <2>5. CASE DeclareQueue(p)
    BY <1>a, <2>2, <2>3, <2>5 DEF DeclareQueue, TypeOK
  <2>6. CASE ReplaceChannel(p)
    <3>1. \A q \in Pubs : via'[q] # conn
      BY <1>a, <2>2, <2>3, <2>6 DEF ReplaceChannel, TypeOK
    <3>2. via[p] \in alive => via[p] \in DOMAIN made
      BY <1>a DEF TypeOK
    <3>3. made'[conn] = made[conn]
      BY <1>a, <1>b, <2>2, <2>6, <3>2, OpenFacts DEF ReplaceChannel
    <3> QED BY <3>1, <3>3
  <2> QED BY <1>1, <2>2, <2>4, <2>5, <2>6
          DEF Publish, Arrive, EnsureQueue, GetChannel, WaitForReconnect, TakeChannel,
              TakeNothing, ReadConnection, PublishMessage, PutChannel, ReturnChannel
<1>2. CASE Dial
  <2>1. CASE watcher' = "attempt"
    BY <2>1 DEF FillInv
  <2>2. CASE /\ made' = Append(made, 0) /\ conn' = Len(made) + 1
             /\ watcher' = "fill" /\ filled' = 0 /\ via' = via
    <3>1. made'[conn'] = 0
      BY <1>a, <2>2 DEF TypeOK
    <3>2. \A p \in Pubs : via'[p] # conn'
      BY <1>a, <2>2 DEF TypeOK
    <3> QED BY <2>2, <3>1, <3>2 DEF FillInv
  <2> QED BY <1>2, <2>1, <2>2 DEF Dial
<1>3. CASE FillPool
  <2>1. CASE watcher' \in {"setup", "attempt"}
    BY <2>1 DEF FillInv
  <2>2. CASE OpenChannel(conn) /\ fresh' = NextOn(conn) /\ watcher' = "push"
    <3>1. made[conn] = filled /\ \A p \in Pubs : via[p] # conn
      BY <1>3 DEF FillPool, FillInv
    <3>2. made'[conn] = filled + 1 /\ fresh' = <<conn, filled + 1>>
      BY <1>a, <1>b, <2>2, <3>1, OpenFacts DEF NextOn
    <3> QED BY <1>3, <2>2, <3>1, <3>2 DEF FillPool, FillInv
  <2> QED BY <1>3, <2>1, <2>2 DEF FillPool
<1>4. CASE PushChannel
  BY <1>4 DEF PushChannel, FillInv
<1>5. CASE \/ ConnectionDown \/ StartAttempt \/ SetupExchange \/ ClearReconnecting
           \/ NotifyWaiters
  <2>1. watcher' \notin {"fill", "push"}
    BY <1>5 DEF ConnectionDown, StartAttempt, SetupExchange, ClearReconnecting, NotifyWaiters
  <2> QED BY <2>1 DEF FillInv
<1>6. CASE \/ Close
           \/ \E k \in alive : ConnectionLost(k)
           \/ \E c \in open : ChannelException(c)
           \/ UNCHANGED vars
  <2>1. UNCHANGED <<made, watcher, conn, fresh, filled, via>>
    BY <1>6 DEF Close, MarkClosed, ClosePool, CloseConn, CloseConnection, ConnectionLost,
                ChannelException, vars
  <2> QED BY <2>1 DEF FillInv
<1> QED BY <1>1, <1>2, <1>3, <1>4, <1>5, <1>6 DEF Next, Watcher

\* A full pool of connect's own channels has them all.
LEMMA FullPool == TypeInv /\ OwnerInv /\ FillInv => BlockedFillHasStray
<1> SUFFICES ASSUME TypeInv, OwnerInv, FillInv, watcher = "push",
                    \A c \in pool : c[1] = conn
             PROVE  HasRoom
  BY DEF BlockedFillHasStray, FillBlocked
<1>1. filled \in Nat /\ filled < Size /\ Size \in Nat
  BY SizeAssumption DEF TypeInv, TypeOK, HandsInv
<1>2. made[conn] = filled + 1 /\ fresh = <<conn, filled + 1>>
  BY DEF FillInv
<1>3. \A c \in pool : c[2] \in 1..filled /\ c = <<conn, c[2]>>
  <2>1. \A c \in pool : c = <<c[1], c[2]>> /\ c[2] \in 1..made[conn] /\ c # fresh
    BY DEF OwnerInv, OpenedInv, Opened, TypeInv, TypeOK, Channels
  <2> QED BY <1>1, <1>2, <2>1
<1> DEFINE f == [c \in pool |-> c[2]]
<1>4. f \in Injection(pool, 1..filled)
  BY <1>3 DEF Injection, IsInjective
<1>5. IsFiniteSet(1..filled) /\ Cardinality(1..filled) = filled
  BY <1>1, FS_Interval
<1>6. Cardinality(pool) <= filled
  BY <1>4, <1>5, FS_Injection
<1>7. IsFiniteSet(pool) /\ Cardinality(pool) \in Nat
  BY <1>4, <1>5, FS_Injection, FS_CardinalityType
<1> QED BY <1>1, <1>6, <1>7 DEF HasRoom

-----------------------------------------------------------------------------
(* Who is forgotten *)

LEMMA ForgottenStep == TypeInv /\ ForgottenIsLate /\ [Next]_vars => ForgottenIsLate'
<1> SUFFICES ASSUME TypeInv, ForgottenIsLate, [Next]_vars PROVE ForgottenIsLate'
  OBVIOUS
<1> USE DEF At, WatcherAt, CloserAt
<1>a. TypeOK /\ HandsInv
  BY DEF TypeInv
<1>1. ASSUME NEW p \in Pubs, WaitForReconnect(p) PROVE ForgottenIsLate'
  BY <1>a, <1>1 DEF WaitForReconnect, Goto, ForgottenIsLate, TypeOK
<1>2. ASSUME NEW p \in Pubs, Arrive(p) \/ Publish(p), ~WaitForReconnect(p)
      PROVE  ForgottenIsLate'
  <2>1. UNCHANGED <<watcher, late>>
    BY <1>2 DEF Publish, Arrive, EnsureQueue, DeclareQueue, GetChannel, TakeChannel,
                TakeNothing, ReadConnection, ReplaceChannel, PublishMessage, PutChannel,
                ReturnChannel
  <2>2. pc'[p] # "sleep" \/ pc' = pc
    <3>1. CASE \E state \in PubStates \ {"sleep"} : Goto(p, state)
      BY <1>a, <3>1, GotoFacts
    <3>2. CASE Retry(p)
      BY <1>a, <3>2, RetryFacts
    <3>3. CASE Finish(p)
      BY <1>a, <3>3, FinishFacts
    <3>4. /\ \A state \in {"ensure", "get", "declare", "failed", "register", "take", "send",
                            "replace", "reopen", "put", "return"} :
                 state \in PubStates \ {"sleep"}
      BY DEF PubStates
    <3> QED BY <1>2, <3>1, <3>2, <3>3, <3>4
            DEF Publish, Arrive, EnsureQueue, DeclareQueue, GetChannel, TakeChannel,
                TakeNothing, ReadConnection, ReplaceChannel, PublishMessage, PutChannel,
                ReturnChannel
  <2>3. \A q \in Pubs \ {p} : pc'[q] = pc[q]
    <3>1. CASE \E state \in PubStates : Goto(p, state)
      BY <1>a, <3>1, GotoFacts
    <3>2. CASE Retry(p)
      BY <1>a, <3>2, RetryFacts
    <3>3. CASE Finish(p)
      BY <1>a, <3>3, FinishFacts
    <3>4. /\ \A state \in {"ensure", "get", "declare", "failed", "register", "take", "send",
                            "replace", "reopen", "put", "return"} : state \in PubStates
      BY DEF PubStates
    <3> QED BY <1>2, <3>1, <3>2, <3>3, <3>4
            DEF Publish, Arrive, EnsureQueue, DeclareQueue, GetChannel, TakeChannel,
                TakeNothing, ReadConnection, ReplaceChannel, PublishMessage, PutChannel,
                ReturnChannel
  <2> QED BY <2>1, <2>2, <2>3 DEF ForgottenIsLate
<1>3. CASE NotifyWaiters
  <2>1. \A p \in Pubs : pc'[p] # "sleep"
    BY <1>a, <1>3 DEF NotifyWaiters, HandsInv
  <2> QED BY <2>1 DEF ForgottenIsLate
<1>4. CASE \/ ConnectionDown \/ StartAttempt \/ Dial \/ FillPool \/ PushChannel
           \/ SetupExchange \/ ClearReconnecting
  <2>1. pc' = pc /\ late' = late
    BY <1>4 DEF ConnectionDown, StartAttempt, Dial, FillPool, PushChannel, SetupExchange,
                ClearReconnecting
  <2>2. watcher' \in {"clear", "watch", "exit"} => watcher \in {"clear", "watch", "exit"}
    BY <1>4 DEF ConnectionDown, StartAttempt, Dial, FillPool, PushChannel, SetupExchange,
                ClearReconnecting
  <2> QED BY <2>1, <2>2 DEF ForgottenIsLate
<1>5. CASE \/ Close
           \/ \E k \in alive : ConnectionLost(k)
           \/ \E c \in open : ChannelException(c)
           \/ UNCHANGED vars
  BY <1>5 DEF Close, MarkClosed, ClosePool, CloseConn, ConnectionLost, ChannelException, vars,
              ForgottenIsLate
<1> QED BY <1>1, <1>2, <1>3, <1>4, <1>5 DEF Next, Watcher

-----------------------------------------------------------------------------
(* Slots *)

Slots == {p \in Pubs : HasSlot(p)}

LEMMA SlotsFinite == IsFiniteSet(Slots) /\ Cardinality(Slots) \in Nat
BY PubsAssumption, FS_Subset, FS_CardinalityType DEF Slots

\* One request takes a slot or gives it up.
LEMMA SlotTaken ==
  ASSUME NEW p \in Pubs, ~HasSlot(p), HasSlot(p)',
         \A q \in Pubs \ {p} : HasSlot(q)' <=> HasSlot(q)
  PROVE  Cardinality(Slots') = Cardinality(Slots) + 1
<1>1. Slots' = Slots \cup {p} /\ p \notin Slots
  BY DEF Slots
<1> QED BY <1>1, SlotsFinite, FS_AddElement

LEMMA SlotFreed ==
  ASSUME NEW p \in Pubs, HasSlot(p), ~HasSlot(p)',
         \A q \in Pubs \ {p} : HasSlot(q)' <=> HasSlot(q)
  PROVE  Cardinality(Slots') = Cardinality(Slots) - 1
<1>1. Slots' = Slots \ {p} /\ p \in Slots
  BY DEF Slots
<1> QED BY <1>1, SlotsFinite, FS_RemoveElement

LEMMA SlotInit == Init => SlotInv
<1> SUFFICES ASSUME Init PROVE SlotInv
  OBVIOUS
<1> DEFINE f == [i \in 1..Size |-> <<1, i>>]
<1>1. f \in Bijection(1..Size, pool)
  <2>1. pool = {1} \X (1..Size)
    BY DEF Init
  <2>2. f \in [1..Size -> pool]
    BY <2>1
  <2>3. \A i, j \in 1..Size : f[i] = f[j] => i = j
    OBVIOUS
  <2>4. \A c \in pool : \E i \in 1..Size : f[i] = c
    BY <2>1
  <2> QED BY <2>2, <2>3, <2>4 DEF Bijection, Injection, Surjection, IsInjective
<1>2. IsFiniteSet(1..Size) /\ Cardinality(1..Size) = Size
  BY SizeAssumption, FS_Interval
<1>3. IsFiniteSet(pool) /\ Cardinality(pool) = Size
  BY <1>1, <1>2, FS_Bijection DEF ExistsBijection
<1>4. filled = Size /\ lost = 0
  BY DEF Init
<1> QED BY <1>3, <1>4, SlotsFinite, SizeAssumption DEF SlotInv, SlotsAccounted, Slots

LEMMA SlotPublish ==
  ASSUME TypeInv, OwnerInv, SlotInv, NEW p \in Pubs, Arrive(p) \/ Publish(p)
  PROVE  SlotInv'
<1> USE DEF At
<1>a. TypeOK /\ HandsInv
  BY DEF TypeInv
<1>b. filled \in Nat /\ lost \in Nat /\ Size \in Nat
  BY <1>a, SizeAssumption DEF TypeOK
<1>c. IsFiniteSet(pool) /\ Cardinality(pool) \in Nat
  BY FS_CardinalityType DEF SlotInv
<1>d. UNCHANGED <<filled, closer>>
  BY DEF Publish, Arrive, EnsureQueue, DeclareQueue, GetChannel, WaitForReconnect,
         TakeChannel, TakeNothing, ReadConnection, ReplaceChannel, PublishMessage,
         PutChannel, ReturnChannel
<1>e. Cardinality(Slots) \in Nat /\ Cardinality(Slots') \in Nat
  <2>1. IsFiniteSet(Slots')
    BY PubsAssumption, FS_Subset DEF Slots
  <2> QED BY <2>1, SlotsFinite, FS_CardinalityType
\* Only this request moves.
<1>f. \A q \in Pubs \ {p} : HasSlot(q)' <=> HasSlot(q)
  <2>1. CASE \E state \in PubStates : Goto(p, state)
    BY <1>a, <2>1, GotoFacts DEF HasSlot
  <2>2. CASE Retry(p)
    BY <1>a, <2>2, RetryFacts DEF HasSlot
  <2>3. CASE Finish(p)
    BY <1>a, <2>3, FinishFacts DEF HasSlot
  <2>4. \A state \in {"ensure", "get", "declare", "failed", "register", "sleep", "take",
                       "send", "replace", "reopen", "put", "return"} : state \in PubStates
    BY DEF PubStates
  <2> QED BY <2>1, <2>2, <2>3, <2>4
          DEF Publish, Arrive, EnsureQueue, DeclareQueue, GetChannel, WaitForReconnect,
              TakeChannel, TakeNothing, ReadConnection, ReplaceChannel, PublishMessage,
              PutChannel, ReturnChannel, HasSlot
\* What the step does to the sum.
<1>1. CASE pool' = pool /\ lost' = lost /\ (HasSlot(p)' <=> HasSlot(p))
  <2>1. Slots' = Slots
    BY <1>1, <1>f DEF Slots
  <2> QED BY <1>1, <1>d, <2>1 DEF SlotInv, SlotsAccounted, PoolGone, Slots
<1>2. CASE pool' = pool /\ lost' = lost + 1 /\ HasSlot(p) /\ ~HasSlot(p)'
  <2>1. Cardinality(Slots') = Cardinality(Slots) - 1
    BY <1>2, <1>f, SlotFreed
  <2>2. ~PoolGone => filled <= Cardinality(pool) + Cardinality(Slots) + lost
    BY DEF SlotInv, SlotsAccounted, Slots
  <2>3. ~PoolGone => filled <= Cardinality(pool) + Cardinality(Slots') + (lost + 1)
    BY <1>b, <1>c, <1>e, <2>1, <2>2
  <2> QED BY <1>2, <1>d, <2>3 DEF SlotInv, SlotsAccounted, PoolGone, Slots
<1>3. CASE TakeChannel(p)
  <2>1. PICK c \in pool : pool' = pool \ {c} /\ (Goto(p, "send") \/ Goto(p, "replace"))
    BY <1>3 DEF TakeChannel
  <2>2. "send" \in PubStates /\ "replace" \in PubStates
    BY DEF PubStates
  <2>3. ~HasSlot(p) /\ HasSlot(p)'
    BY <1>a, <1>3, <2>1, <2>2, GotoFacts DEF TakeChannel, HasSlot
  <2>4. Cardinality(Slots') = Cardinality(Slots) + 1
    BY <1>f, <2>3, SlotTaken
  <2>5. IsFiniteSet(pool') /\ Cardinality(pool') = Cardinality(pool) - 1
    BY <1>c, <2>1, FS_RemoveElement
  <2>6. ~PoolGone => filled <= Cardinality(pool) + Cardinality(Slots) + lost
    BY DEF SlotInv, SlotsAccounted, Slots
  <2>7. ~PoolGone => filled <= Cardinality(pool') + Cardinality(Slots') + lost
    BY <1>b, <1>c, <1>e, <2>4, <2>5, <2>6
  <2>8. lost' = lost
    BY <1>3 DEF TakeChannel
  <2> QED BY <1>d, <2>5, <2>7, <2>8 DEF SlotInv, SlotsAccounted, PoolGone, Slots
<1>4. CASE ReturnChannel(p)
  <2>1. lost' = lost /\ HasSlot(p)
    BY <1>4 DEF ReturnChannel, HasSlot
  <2>2. CASE UNCHANGED <<pool, pc>>
    BY <1>1, <2>1, <2>2 DEF HasSlot
  <2>a. Finish(p) => ~HasSlot(p)'
    BY <1>a, FinishFacts DEF HasSlot
  <2>b. Finish(p) => Cardinality(Slots') = Cardinality(Slots) - 1
    BY <1>f, <2>1, <2>a, SlotFreed
  <2>3. CASE pool' = pool \cup {held[p]} /\ Finish(p)
    <3>1. held[p] \notin pool
      BY <1>a, <1>4 DEF ReturnChannel, HandsInv, Holding, OwnerInv, SingleOwner
    <3>2. IsFiniteSet(pool') /\ Cardinality(pool') = Cardinality(pool) + 1
      BY <1>c, <2>3, <3>1, FS_AddElement
    <3>3. ~PoolGone => filled <= Cardinality(pool) + Cardinality(Slots) + lost
      BY DEF SlotInv, SlotsAccounted, Slots
    <3>4. ~PoolGone => filled <= Cardinality(pool') + Cardinality(Slots') + lost
      BY <1>b, <1>c, <1>e, <2>b, <2>3, <3>2, <3>3
    <3> QED BY <1>d, <2>1, <3>2, <3>4 DEF SlotInv, SlotsAccounted, PoolGone, Slots
  <2>4. CASE ~HasRoom /\ pool' = pool /\ Finish(p)
    <3>1. filled <= Size
      BY <1>a, SizeAssumption DEF TypeOK
    <3>2. Cardinality(pool) >= Size
      BY <1>b, <1>c, <2>4 DEF HasRoom
    <3>3. filled <= Cardinality(pool) + Cardinality(Slots') + lost
      BY <1>b, <1>c, <1>e, <3>1, <3>2
    <3> QED BY <1>c, <1>d, <2>1, <2>4, <3>3 DEF SlotInv, SlotsAccounted, Slots
  <2> QED BY <1>4, <2>2, <2>3, <2>4 DEF ReturnChannel
\* Which step does which.
<1>5. CASE \/ Arrive(p) \/ EnsureQueue(p) \/ DeclareQueue(p) \/ GetChannel(p)
           \/ WaitForReconnect(p) \/ TakeNothing(p)
  <2>1. ~HasSlot(p)
    BY <1>5 DEF Arrive, EnsureQueue, DeclareQueue, GetChannel, WaitForReconnect, TakeNothing,
                HasSlot
  <2>2. ~HasSlot(p)'
    <3>1. CASE \E state \in {"ensure", "get", "declare", "failed", "register", "sleep",
                             "take"} : Goto(p, state)
      BY <1>a, <3>1, GotoFacts DEF HasSlot, PubStates
    <3>2. CASE Retry(p)
      BY <1>a, <3>2, RetryFacts DEF HasSlot
    <3>3. CASE pc' = pc
      BY <2>1, <3>3 DEF HasSlot
    <3> QED BY <1>5, <3>1, <3>2, <3>3
            DEF Arrive, EnsureQueue, DeclareQueue, GetChannel, WaitForReconnect, TakeNothing
  <2>3. pool' = pool /\ lost' = lost
    BY <1>5 DEF Arrive, EnsureQueue, DeclareQueue, GetChannel, WaitForReconnect, TakeNothing
  <2> QED BY <1>1, <2>1, <2>2, <2>3
<1>6. CASE ReadConnection(p) \/ PublishMessage(p)
  <2>1. "reopen" \in PubStates /\ "put" \in PubStates
    BY DEF PubStates
  <2>2. HasSlot(p) /\ HasSlot(p)'
    BY <1>a, <1>6, <2>1, GotoFacts DEF ReadConnection, PublishMessage, HasSlot
  <2>3. pool' = pool /\ lost' = lost
    BY <1>6 DEF ReadConnection, PublishMessage
  <2> QED BY <1>1, <2>2, <2>3
<1>7. CASE ReplaceChannel(p)
  <2>1. pool' = pool /\ HasSlot(p)
    BY <1>7 DEF ReplaceChannel, HasSlot
  <2>2. CASE Goto(p, "send") /\ UNCHANGED lost
    <3>1. "send" \in PubStates
      BY DEF PubStates
    <3>2. HasSlot(p)'
      BY <1>a, <2>2, <3>1, GotoFacts DEF HasSlot
    <3> QED BY <1>1, <2>1, <2>2, <3>2
  <2>3. CASE lost' = lost + 1 /\ Retry(p)
    <3>1. ~HasSlot(p)'
      BY <1>a, <2>3, RetryFacts DEF HasSlot
    <3> QED BY <1>2, <2>1, <2>3, <3>1
  <2> QED BY <1>7, <2>2, <2>3 DEF ReplaceChannel
<1>8. CASE PutChannel(p)
  <2>1. pool' = pool /\ HasSlot(p)
    BY <1>8 DEF PutChannel, HasSlot
  <2>2. CASE Goto(p, "return") /\ UNCHANGED lost
    <3>1. "return" \in PubStates
      BY DEF PubStates
    <3>2. HasSlot(p)'
      BY <1>a, <2>2, <3>1, GotoFacts DEF HasSlot
    <3> QED BY <1>1, <2>1, <2>2, <3>2
  <2>3. CASE lost' = lost + 1 /\ Finish(p)
    <3>1. ~HasSlot(p)'
      BY <1>a, <2>3, FinishFacts DEF HasSlot
    <3> QED BY <1>2, <2>1, <2>3, <3>1
  <2> QED BY <1>8, <2>2, <2>3 DEF PutChannel
<1> QED BY <1>3, <1>4, <1>5, <1>6, <1>7, <1>8 DEF Publish

LEMMA SlotOther ==
  ASSUME TypeInv, OwnerInv, SlotInv,
         \/ Watcher \/ Close
         \/ \E k \in alive : ConnectionLost(k)
         \/ \E c \in open : ChannelException(c)
         \/ UNCHANGED vars
  PROVE  SlotInv'
<1> USE DEF WatcherAt, CloserAt
<1>a. TypeOK /\ HandsInv
  BY DEF TypeInv
<1>b. filled \in Nat /\ lost \in Nat
  BY <1>a, SizeAssumption DEF TypeOK
<1>c. IsFiniteSet(pool) /\ Cardinality(pool) \in Nat /\ Cardinality(Slots) \in Nat
  BY FS_CardinalityType, SlotsFinite DEF SlotInv
<1>d. ~PoolGone => filled <= Cardinality(pool) + Cardinality(Slots) + lost
  BY DEF SlotInv, SlotsAccounted, Slots
<1>1. CASE Dial
  <2>1. CASE UNCHANGED <<pool, lost, filled, pc, closer>>
    BY <2>1 DEF SlotInv, SlotsAccounted, PoolGone, HasSlot
  <2>2. CASE pool' = {} /\ filled' = 0 /\ lost' = 0 /\ pc' = pc
    <3>1. Slots' = Slots
      BY <2>2 DEF Slots, HasSlot
    <3>2. IsFiniteSet(pool') /\ Cardinality(pool') = 0
      BY <2>2, FS_EmptySet
    <3>3. filled' <= Cardinality(pool') + Cardinality(Slots') + lost'
      BY <1>c, <2>2, <3>1, <3>2
    <3> QED BY <3>2, <3>3 DEF SlotInv, SlotsAccounted, Slots
  <2> QED BY <1>1, <2>1, <2>2 DEF Dial
<1>2. CASE PushChannel
  <2>1. CASE UNCHANGED <<pool, lost, filled, pc, closer>>
    BY <2>1 DEF SlotInv, SlotsAccounted, PoolGone, HasSlot
  <2>2. CASE /\ pool' = pool \cup {fresh} /\ filled' = filled + 1
             /\ UNCHANGED <<lost, pc, closer>>
    <3>1. Slots' = Slots
      BY <2>2 DEF Slots, HasSlot
    <3>2. IsFiniteSet(pool') /\ Cardinality(pool') = Cardinality(pool) + 1
      BY <1>c, <2>2, FS_AddElement DEF OwnerInv
    <3>3. ~PoolGone => filled + 1 <= Cardinality(pool') + Cardinality(Slots') + lost
      BY <1>b, <1>c, <1>d, <3>1, <3>2
    <3> QED BY <2>2, <3>2, <3>3 DEF SlotInv, SlotsAccounted, PoolGone, Slots
  <2> QED BY <1>2, <2>1, <2>2 DEF PushChannel
<1>3. CASE NotifyWaiters
  <2>1. \A p \in Pubs : HasSlot(p)' <=> HasSlot(p)
    BY <1>a, <1>3 DEF NotifyWaiters, HandsInv, HasSlot
  <2>2. Slots' = Slots
    BY <2>1 DEF Slots
  <2> QED BY <1>3, <2>2 DEF NotifyWaiters, SlotInv, SlotsAccounted, PoolGone, Slots
<1>4. CASE ClosePool
  <2>1. pool' = {} /\ PoolGone'
    BY <1>4 DEF ClosePool, PoolGone
  <2> QED BY <2>1, FS_EmptySet DEF SlotInv, SlotsAccounted
<1>5. CASE MarkClosed \/ CloseConn
  <2>1. UNCHANGED <<pool, lost, filled, pc>> /\ (PoolGone' <=> PoolGone)
    BY <1>5 DEF MarkClosed, CloseConn, PoolGone
  <2> QED BY <2>1 DEF SlotInv, SlotsAccounted, HasSlot
<1>6. CASE \/ ConnectionDown \/ StartAttempt \/ FillPool \/ SetupExchange \/ ClearReconnecting
           \/ \E k \in alive : ConnectionLost(k)
           \/ \E c \in open : ChannelException(c)
           \/ UNCHANGED vars
  <2>1. UNCHANGED <<pool, lost, filled, pc, closer>>
    BY <1>6 DEF ConnectionDown, StartAttempt, FillPool, SetupExchange, ClearReconnecting,
                ConnectionLost, ChannelException, vars
  <2> QED BY <2>1 DEF SlotInv, SlotsAccounted, PoolGone, HasSlot
<1> QED BY <1>1, <1>2, <1>3, <1>4, <1>5, <1>6 DEF Watcher, Close

-----------------------------------------------------------------------------
(* The theorems *)

IInv == TypeInv /\ OwnerInv /\ FillInv /\ ForgottenIsLate /\ SlotInv

LEMMA InvInit == Init => IInv
BY TypeInit, OwnerInit, FillInit, SlotInit DEF Init, IInv, ForgottenIsLate

LEMMA InvStep == IInv /\ [Next]_vars => IInv'
<1> SUFFICES ASSUME IInv, [Next]_vars PROVE IInv'
  OBVIOUS
<1>1. TypeInv'
  BY TypeStep DEF IInv
<1>2. OwnerInv'
  BY <1>1, OwnerStep DEF IInv
<1>3. FillInv' /\ ForgottenIsLate'
  BY FillStep, ForgottenStep DEF IInv
<1>4. SlotInv'
  BY SlotPublish, SlotOther DEF IInv, Next
<1> QED BY <1>1, <1>2, <1>3, <1>4 DEF IInv

LEMMA Invariant == Spec => []IInv
BY InvInit, InvStep, PTL DEF Spec

(* No channel of the pool is ever used in two places, whatever connections  *)
(* and channels are lost, replaced or shut down under way.                  *)
THEOREM ChannelsAreExclusive == Spec => []SingleOwner
<1>1. IInv => SingleOwner
  BY DEF IInv, OwnerInv
<1> QED BY <1>1, Invariant, PTL

(* The pool only shrinks by a closed channel: no path of tryPublish, and no *)
(* reconnect, forgets a slot.                                               *)
THEOREM SlotsAreAccounted == Spec => []SlotsAccounted
<1>1. IInv => SlotsAccounted
  BY DEF IInv, SlotInv
<1> QED BY <1>1, Invariant, PTL

(* A reconnect blocks on its own pool only if a channel of an earlier       *)
(* connection got into it.                                                  *)
THEOREM FillBlocksOnStrays == Spec => []BlockedFillHasStray
<1>1. IInv => BlockedFillHasStray
  BY FullPool DEF IInv
<1> QED BY <1>1, Invariant, PTL

(* A waiter that a reconnect leaves asleep registered after it notified.    *)
THEOREM OnlyLateAreForgotten == Spec => []ForgottenIsLate
<1>1. IInv => ForgottenIsLate
  BY DEF IInv
<1> QED BY <1>1, Invariant, PTL
=============================================================================
