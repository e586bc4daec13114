---------------------------- MODULE ChannelPool ----------------------------
(***************************************************************************)
(* The AMQP connection of pps-services-publisher-database with its pool of *)
(* channels, and the requests that publish through it.  A request declares *)
(* its queue once, takes a channel out of the pool, publishes on it and    *)
(* puts it back; the watcher replaces a lost connection and refills the    *)
(* pool; Close shuts everything down while both may still run.             *)
(*                                                                         *)
(* A connection is numbered in the order it is dialed and a channel is the *)
(* pair of its connection and its number on it.  The pool is a set: which  *)
(* of its channels comes out first is left open.  All requests publish to  *)
(* one queue, and queue_declare_mode is "lazy", as in config.json.         *)
(***************************************************************************)
EXTENDS Naturals, Sequences, FiniteSets

CONSTANTS
  Pubs,       \* the publish requests
  Size,       \* rabbitmq.channel_pool_size
  Attempts,   \* publish attempts of a request within its elapsed time
  MaxFaults,  \* bound on lost connections, closed channels, failed set-ups
  None        \* no channel

ASSUME SizeAssumption == Size \in Nat \ {0}
ASSUME PubsAssumption == IsFiniteSet(Pubs)
ASSUME BoundsAssumption == Attempts \in Nat /\ MaxFaults \in Nat
ASSUME NoneAssumption == None \notin Nat \X Nat

VARIABLES
  made,         \* per connection dialed: how many channels it was asked for
  alive,        \* the connections that are up
  open,         \* the channels that are open
  conn,         \* r.conn
  pool,         \* r.channels
  reconnecting, \* r.reconnecting
  verified,     \* the queue is in r.verifiedQueues
  waiters,      \* r.notifyReconn, by the request that waits
  closer,       \* how far Close got
  watcher,      \* where connectionWatcher is
  filled,       \* connect's loop index
  fresh,        \* the channel connect is about to put into the pool
  pc,           \* where each request is
  held,         \* the channel it has taken
  via,          \* the connection it has read, 0 for none
  ok,           \* whether its last publish was written
  tries,        \* its attempts
  faults,       \* faults so far
  late,         \* history: it registered after its reconnect had notified
  lost,         \* history: slots taken out and not put back since the refill
  panicked      \* the process has died of a panic

netVars == <<made, alive, open>>
poolVars == <<pool, lost>>
watcherVars == <<watcher, conn, reconnecting, filled, fresh>>
waitVars == <<waiters, late>>
pubVars == <<pc, held, via, ok, tries>>
vars == <<netVars, poolVars, watcherVars, waitVars, pubVars, verified, closer,
          faults, panicked>>

Channels == Nat \X Nat
PubStates == {"idle", "ensure", "declare", "get", "register", "sleep", "take",
              "replace", "reopen", "send", "put", "return", "done", "failed"}
WatcherStates == {"watch", "attempt", "dial", "fill", "push", "setup",
                  "notify", "clear", "exit"}

\* The one invariant that only gives every variable its type.
TypeOK ==
  /\ made \in Seq(Nat)
  /\ alive \subseteq DOMAIN made
  /\ open \subseteq Channels
  /\ conn \in DOMAIN made
  /\ pool \subseteq Channels
  /\ reconnecting \in BOOLEAN /\ verified \in BOOLEAN /\ panicked \in BOOLEAN
  /\ waiters \subseteq Pubs
  /\ closer \in {"running", "marked", "emptied", "closed"}
  /\ watcher \in WatcherStates
  /\ filled \in 0..Size
  /\ fresh \in Channels \cup {None}
  /\ pc \in [Pubs -> PubStates]
  /\ held \in [Pubs -> Channels \cup {None}]
  /\ via \in [Pubs -> DOMAIN made \cup {0}]
  /\ ok \in [Pubs -> BOOLEAN] /\ late \in [Pubs -> BOOLEAN]
  /\ tries \in [Pubs -> 0..Attempts]
  /\ faults \in 0..MaxFaults
  /\ lost \in Nat

closed == closer # "running"

\* close(r.channels) has happened
PoolGone == closer \in {"emptied", "closed"}

\* connect holds r.mu from before it dials until the pool is full or it fails
Connecting == watcher \in {"dial", "fill", "push"}

HasRoom == Cardinality(pool) < Size

\* Where the three kinds of goroutine are; nothing runs after a panic.
At(p, state) == ~panicked /\ pc[p] = state
WatcherAt(state) == ~panicked /\ watcher = state
CloserAt(state) == ~panicked /\ closer = state

\* NewRabbitMQ: connected, the pool full, the watcher started.
Init ==
  /\ made = <<Size>>
  /\ alive = {1}
  /\ open = {1} \X (1..Size)
  /\ conn = 1
  /\ pool = {1} \X (1..Size)
  /\ reconnecting = FALSE
  /\ verified = FALSE
  /\ waiters = {}
  /\ closer = "running"
  /\ watcher = "watch"
  /\ filled = Size
  /\ fresh = None
  /\ pc = [p \in Pubs |-> "idle"]
  /\ held = [p \in Pubs |-> None]
  /\ via = [p \in Pubs |-> 0]
  /\ ok = [p \in Pubs |-> FALSE]
  /\ tries = [p \in Pubs |-> 0]
  /\ faults = 0
  /\ late = [p \in Pubs |-> FALSE]
  /\ lost = 0
  /\ panicked = FALSE

-----------------------------------------------------------------------------
(* Helpers of the AMQP library *)

NextOn(k) == <<k, made[k] + 1>>

\* conn.Channel() on connection k
OpenChannel(k) ==
  /\ made' = [made EXCEPT ![k] = @ + 1]
  /\ open' = open \cup {NextOn(k)}
  /\ UNCHANGED alive

\* Connection k goes down, and its channels with it.
CloseConnection(k) ==
  /\ alive' = alive \ {k}
  /\ open' = {c \in open : c[1] # k}
  /\ UNCHANGED made

-----------------------------------------------------------------------------
(* A publish request *)

Goto(p, state) == pc' = [pc EXCEPT ![p] = state]

\* Mutant: one attempt too many.
MutRetry(p) ==
  \/ tries[p] <= Attempts /\ Goto(p, "get")
     /\ tries' = [tries EXCEPT ![p] = @ + 1]
  \/ Goto(p, "failed") /\ UNCHANGED tries

\* The end of a failed tryPublish: backoff retries until its time is up.
Retry(p) ==
  \/ tries[p] < Attempts /\ Goto(p, "get")
     /\ tries' = [tries EXCEPT ![p] = @ + 1]
  \/ Goto(p, "failed") /\ UNCHANGED tries

\* Mutant: the request goes on with the channel it has put back.
MutFinish(p) ==
  /\ ok' = [ok EXCEPT ![p] = FALSE]
  /\ IF ok[p] THEN Goto(p, "done") /\ UNCHANGED tries ELSE Retry(p)
  /\ UNCHANGED held

\* The end of tryPublish, after PutChannel
Finish(p) ==
  /\ held' = [held EXCEPT ![p] = None]
  /\ ok' = [ok EXCEPT ![p] = FALSE]
  /\ IF ok[p] THEN Goto(p, "done") /\ UNCHANGED tries ELSE Retry(p)

\* A callback of a biller comes in.
Arrive(p) ==
  /\ At(p, "idle")
  /\ Goto(p, "ensure")
  /\ UNCHANGED <<netVars, poolVars, watcherVars, waitVars, held, via, ok, tries,
                 verified, closer, faults, panicked>>

\* EnsureQueue finds the queue verified, or reads r.conn under the lock.
EnsureQueue(p) ==
  /\ At(p, "ensure")
  /\ \/ verified /\ Goto(p, "get") /\ UNCHANGED via
     \/ /\ ~verified /\ ~Connecting
        /\ Goto(p, "declare")
        /\ via' = [via EXCEPT ![p] = conn]
  /\ UNCHANGED <<netVars, poolVars, watcherVars, waitVars, held, ok, tries,
                 verified, closer, faults, panicked>>

\* The rest of EnsureQueue on the connection it read; its failure ends Publish.
DeclareQueue(p) ==
  /\ At(p, "declare")
  /\ \/ via[p] \in alive /\ verified' = TRUE /\ Goto(p, "get")
     \/ Goto(p, "failed") /\ UNCHANGED verified
  /\ via' = [via EXCEPT ![p] = 0]
  /\ UNCHANGED <<netVars, poolVars, watcherVars, waitVars, held, ok, tries,
                 closer, faults, panicked>>

\* GetChannel: the closed flag, then the reconnecting flag
GetChannel(p) ==
  /\ At(p, "get")
  /\ \/ closed /\ Retry(p)
     \/ ~closed /\ reconnecting /\ Goto(p, "register") /\ UNCHANGED tries
     \/ ~closed /\ ~reconnecting /\ Goto(p, "take") /\ UNCHANGED tries
  /\ UNCHANGED <<netVars, poolVars, watcherVars, waitVars, held, via, ok,
                 verified, closer, faults, panicked>>

\* waitForReconnect appends its channel to the list and blocks on it.
WaitForReconnect(p) ==
  /\ At(p, "register")
  /\ Goto(p, "sleep")
  /\ waiters' = waiters \cup {p}
  /\ late' = [late EXCEPT ![p] = watcher \in {"clear", "watch", "exit"}]
  /\ UNCHANGED <<netVars, poolVars, watcherVars, held, via, ok, tries, verified,
                 closer, faults, panicked>>

\* The select of GetChannel receives a channel: open, or stale.
TakeChannel(p) ==
  /\ At(p, "take")
  /\ \E c \in pool :
       /\ pool' = pool \ {c}
       /\ IF c \in open
          THEN held' = [held EXCEPT ![p] = c] /\ Goto(p, "send")
          ELSE UNCHANGED held /\ Goto(p, "replace")
  /\ UNCHANGED <<netVars, watcherVars, waitVars, lost, via, ok, tries, verified,
                 closer, faults, panicked>>

\* Mutant: the select without its timeout.
MutTakeNothing(p) ==
  /\ At(p, "take") /\ pool = {}
  /\ PoolGone /\ panicked' = TRUE
  /\ UNCHANGED <<netVars, poolVars, watcherVars, waitVars, pubVars, verified,
                 closer, faults>>

\* It finds nothing for 10 s; or it receives nil from the closed pool, whose
\* IsClosed() dereferences it.
TakeNothing(p) ==
  /\ At(p, "take") /\ pool = {}
  /\ \/ ~PoolGone /\ Retry(p) /\ UNCHANGED panicked
     \/ PoolGone /\ panicked' = TRUE /\ UNCHANGED <<pc, tries>>
  /\ UNCHANGED <<netVars, poolVars, watcherVars, waitVars, held, via, ok,
                 verified, closer, faults>>

\* GetChannel reads r.conn under the lock to replace a stale channel.
ReadConnection(p) ==
  /\ At(p, "replace") /\ ~Connecting
  /\ via' = [via EXCEPT ![p] = conn]
  /\ Goto(p, "reopen")
  /\ UNCHANGED <<netVars, poolVars, watcherVars, waitVars, held, ok, tries,
                 verified, closer, faults, panicked>>

\* The replacement is opened on that connection, or the slot is gone.
ReplaceChannel(p) ==
  /\ At(p, "reopen")
  /\ \/ /\ via[p] \in alive
        /\ OpenChannel(via[p])
        /\ held' = [held EXCEPT ![p] = NextOn(via[p])]
        /\ Goto(p, "send")
        /\ UNCHANGED <<lost, tries>>
     \/ /\ lost' = lost + 1
        /\ Retry(p)
        /\ UNCHANGED <<netVars, held>>
  /\ via' = [via EXCEPT ![p] = 0]
  /\ UNCHANGED <<pool, watcherVars, waitVars, ok, verified, closer, faults,
                 panicked>>

\* Mutant: an error returns without the deferred PutChannel.
MutPublishMessage(p) ==
  /\ At(p, "send")
  /\ IF held[p] \in open
     THEN ok' = [ok EXCEPT ![p] = TRUE] /\ Goto(p, "put") /\ UNCHANGED <<held, tries>>
     ELSE held' = [held EXCEPT ![p] = None] /\ Retry(p) /\ UNCHANGED ok
  /\ UNCHANGED <<netVars, poolVars, watcherVars, waitVars, via, verified, closer,
                 faults, panicked>>

\* PublishWithContext writes to an open channel and awaits no confirm.
PublishMessage(p) ==
  /\ At(p, "send")
  /\ ok' = [ok EXCEPT ![p] = held[p] \in open]
  /\ Goto(p, "put")
  /\ UNCHANGED <<netVars, poolVars, watcherVars, waitVars, held, via, tries,
                 verified, closer, faults, panicked>>

\* PutChannel's check: a closed channel is discarded.
PutChannel(p) ==
  /\ At(p, "put")
  /\ IF held[p] \in open
     THEN Goto(p, "return") /\ UNCHANGED <<held, ok, tries, lost>>
     ELSE lost' = lost + 1 /\ Finish(p)
  /\ UNCHANGED <<netVars, pool, watcherVars, waitVars, via, verified,
                 closer, faults, panicked>>

\* PutChannel's select: into the pool if there is room, else closed; sending
\* on the closed Go channel panics.
ReturnChannel(p) ==
  /\ At(p, "return")
  /\ \/ /\ ~PoolGone /\ HasRoom
        /\ pool' = pool \cup {held[p]}
        /\ Finish(p)
        /\ UNCHANGED <<open, panicked>>
     \/ /\ ~PoolGone /\ ~HasRoom
        /\ open' = open \ {held[p]}
        /\ Finish(p)
        /\ UNCHANGED <<pool, panicked>>
     \/ /\ PoolGone
        /\ panicked' = TRUE
        /\ UNCHANGED <<open, pool, pc, held, ok, tries>>
  /\ UNCHANGED <<made, alive, lost, watcherVars, waitVars, via, verified,
                 closer, faults>>

-----------------------------------------------------------------------------
(* The watcher *)

\* connectionWatcher hears that the connection is down: it leaves if the pool
\* is closed, else it sets the flag and clears the cache of queues.
ConnectionDown ==
  /\ WatcherAt("watch") /\ conn \notin alive
  /\ IF closed
     THEN watcher' = "exit" /\ UNCHANGED <<reconnecting, verified>>
     ELSE watcher' = "attempt" /\ reconnecting' = TRUE /\ verified' = FALSE
  /\ UNCHANGED <<netVars, poolVars, waitVars, pubVars, conn, filled, fresh,
                 closer, faults, panicked>>

\* operation: nothing to do once closed; else connect takes the lock.
StartAttempt ==
  /\ WatcherAt("attempt")
  /\ watcher' = IF closed THEN "notify" ELSE "dial"
  /\ UNCHANGED <<netVars, poolVars, waitVars, pubVars, conn, reconnecting,
                 filled, fresh, verified, closer, faults, panicked>>

\* connect's Dial, and drainPool; a closed pool yields nil, whose Close panics.
Dial ==
  /\ WatcherAt("dial")
  /\ \/ /\ faults < MaxFaults /\ faults' = faults + 1
        /\ watcher' = "attempt"
        /\ UNCHANGED <<netVars, poolVars, conn, filled, panicked>>
     \/ /\ made' = Append(made, 0)
        /\ conn' = Len(made) + 1
        /\ alive' = alive \cup {conn'}
        /\ open' = open \ pool
        /\ pool' = {}
        /\ panicked' = PoolGone
        /\ watcher' = "fill"
        /\ filled' = 0
        /\ lost' = 0
        /\ UNCHANGED faults
  /\ UNCHANGED <<waitVars, pubVars, reconnecting, fresh, verified, closer>>

\* Mutant: the loop runs once too often.
MutFillPool ==
  /\ WatcherAt("fill")
  /\ \/ filled > Size /\ watcher' = "setup" /\ UNCHANGED <<netVars, fresh>>
     \/ /\ filled <= Size /\ conn \in alive
        /\ OpenChannel(conn)
        /\ fresh' = NextOn(conn)
        /\ watcher' = "push"
     \/ /\ filled <= Size /\ conn \notin alive
        /\ watcher' = "attempt"
        /\ UNCHANGED <<netVars, fresh>>
  /\ UNCHANGED <<poolVars, waitVars, pubVars, conn, reconnecting, filled,
                 verified, closer, faults, panicked>>

\* connect's loop: it ends with the pool filled, opens the next channel, or
\* fails on a connection that went down again.
FillPool ==
  /\ WatcherAt("fill")
  /\ \/ filled = Size /\ watcher' = "setup" /\ UNCHANGED <<netVars, fresh>>
     \/ /\ filled < Size /\ conn \in alive
        /\ OpenChannel(conn)
        /\ fresh' = NextOn(conn)
        /\ watcher' = "push"
     \/ /\ filled < Size /\ conn \notin alive
        /\ watcher' = "attempt"
        /\ UNCHANGED <<netVars, fresh>>
  /\ UNCHANGED <<poolVars, waitVars, pubVars, conn, reconnecting, filled,
                 verified, closer, faults, panicked>>

\* The blocking send of connect's loop
PushChannel ==
  /\ WatcherAt("push")
  /\ \/ /\ ~PoolGone /\ HasRoom
        /\ pool' = pool \cup {fresh}
        /\ fresh' = None
        /\ filled' = filled + 1
        /\ watcher' = "fill"
        /\ UNCHANGED panicked
     \/ /\ PoolGone
        /\ panicked' = TRUE
        /\ UNCHANGED <<pool, fresh, filled, watcher>>
  /\ UNCHANGED <<netVars, lost, waitVars, pubVars, conn, reconnecting, verified,
                 closer, faults>>

\* setupExchange; its failure leaves the new connection up and retries.
SetupExchange ==
  /\ WatcherAt("setup")
  /\ \/ conn \in alive /\ watcher' = "notify" /\ UNCHANGED faults
     \/ conn \notin alive /\ watcher' = "attempt" /\ UNCHANGED faults
     \/ /\ conn \in alive /\ faults < MaxFaults
        /\ faults' = faults + 1
        /\ watcher' = "attempt"
  /\ UNCHANGED <<netVars, poolVars, waitVars, pubVars, conn, reconnecting,
                 filled, fresh, verified, closer, panicked>>

\* Mutant: only one waiter is woken before the list is emptied.
MutNotifyWaiters ==
  /\ WatcherAt("notify")
  /\ \/ waiters = {} /\ UNCHANGED pc
     \/ \E p \in waiters : Goto(p, "take")
  /\ waiters' = {}
  /\ watcher' = "clear"
  /\ UNCHANGED <<netVars, poolVars, held, via, ok, tries, conn, late,
                 reconnecting, filled, fresh, verified, closer, faults, panicked>>

\* Every registered waiter is woken and the list emptied, under notifyMu.
NotifyWaiters ==
  /\ WatcherAt("notify")
  /\ pc' = [p \in Pubs |-> IF p \in waiters THEN "take" ELSE pc[p]]
  /\ waiters' = {}
  /\ late' = [p \in Pubs |-> FALSE]
  /\ watcher' = "clear"
  /\ UNCHANGED <<netVars, poolVars, held, via, ok, tries, conn,
                 reconnecting, filled, fresh, verified, closer, faults, panicked>>

\* The deferred store of reconnectWithBackoff
ClearReconnecting ==
  /\ WatcherAt("clear")
  /\ reconnecting' = FALSE
  /\ watcher' = "watch"
  /\ UNCHANGED <<netVars, poolVars, waitVars, pubVars, conn, filled, fresh,
                 verified, closer, faults, panicked>>

-----------------------------------------------------------------------------
(* Close, on a signal *)

MarkClosed ==
  /\ CloserAt("running")
  /\ closer' = "marked"
  /\ UNCHANGED <<netVars, poolVars, watcherVars, waitVars, pubVars, verified,
                 faults, panicked>>

\* close(r.channels), and the range over what it still holds
ClosePool ==
  /\ CloserAt("marked")
  /\ closer' = "emptied"
  /\ pool' = {}
  /\ open' = open \ pool
  /\ UNCHANGED <<made, alive, lost, watcherVars, waitVars, pubVars, verified,
                 faults, panicked>>

\* r.conn.Close() under the lock
CloseConn ==
  /\ CloserAt("emptied") /\ ~Connecting
  /\ closer' = "closed"
  /\ CloseConnection(conn)
  /\ UNCHANGED <<poolVars, watcherVars, waitVars, pubVars, verified, faults,
                 panicked>>

-----------------------------------------------------------------------------
(* The broker and the network *)

ConnectionLost(k) ==
  /\ ~panicked
  /\ faults < MaxFaults /\ faults' = faults + 1
  /\ CloseConnection(k)
  /\ UNCHANGED <<poolVars, watcherVars, waitVars, pubVars, verified, closer,
                 panicked>>

\* The broker closes one channel, for instance for an unknown exchange.
ChannelException(c) ==
  /\ ~panicked
  /\ faults < MaxFaults /\ faults' = faults + 1
  /\ open' = open \ {c}
  /\ UNCHANGED <<made, alive, poolVars, watcherVars, waitVars, pubVars,
                 verified, closer, panicked>>

-----------------------------------------------------------------------------
Publish(p) ==
  \/ EnsureQueue(p) \/ DeclareQueue(p) \/ GetChannel(p) \/ WaitForReconnect(p)
  \/ TakeChannel(p) \/ TakeNothing(p) \/ ReadConnection(p) \/ ReplaceChannel(p)
  \/ PublishMessage(p) \/ PutChannel(p) \/ ReturnChannel(p)

Watcher ==
  \/ ConnectionDown \/ StartAttempt \/ Dial \/ FillPool \/ PushChannel
  \/ SetupExchange \/ NotifyWaiters \/ ClearReconnecting

Close == MarkClosed \/ ClosePool \/ CloseConn

Next ==
  \/ \E p \in Pubs : Arrive(p) \/ Publish(p)
  \/ Watcher
  \/ Close
  \/ \E k \in alive : ConnectionLost(k)
  \/ \E c \in open : ChannelException(c)

Spec == Init /\ [][Next]_vars

\* The goroutines of the process run; billers, broker and signals owe nothing.
\* Faults are finite, so the broker is reachable in the end.
FairSpec ==
  /\ Spec
  /\ \A p \in Pubs : WF_vars(Publish(p))
  /\ WF_vars(Watcher)

-----------------------------------------------------------------------------
(* What may be asked of the pool *)

\* A slot of the pool is with a request that holds its channel or replaces it.
HasSlot(p) == pc[p] \in {"replace", "reopen", "send", "put", "return"}

\* An open channel is in one place only: no two requests publish on it, and
\* none does while it is in the pool or in connect's hands.  This is what the
\* pool is for (docs/SOURCE_CODE_GUIDE.md: no concurrent access to a channel).
SingleOwner ==
  \A p \in Pubs : held[p] # None =>
    /\ held[p] \notin pool
    /\ held[p] # fresh
    /\ \A q \in Pubs \ {p} : held[q] # held[p]

\* Every channel the last connect put into the pool is still there, out with a
\* request, or was lost in one of two ways: discarded because it was closed,
\* or stale and not replaced.  No path through tryPublish forgets its slot.
SlotsAccounted ==
  ~PoolGone =>
    filled <= Cardinality(pool) + Cardinality({p \in Pubs : HasSlot(p)}) + lost

\* connect blocks on a full pool, the lock held, only when a channel of an
\* earlier connection has come back into the pool meanwhile.
FillBlocked == watcher = "push" /\ ~HasRoom

BlockedFillHasStray ==
  FillBlocked => \E c \in pool : c[1] # conn

\* Nobody sleeps once a reconnect has notified but a request that registered
\* after it had: the window between reading the flag and registering.
ForgottenIsLate ==
  \A p \in Pubs :
    pc[p] = "sleep" /\ watcher \in {"clear", "watch", "exit"} => late[p]

\* Every publish request is answered, except for two ways to be stuck for ever:
\* asleep since it registered late, and a connect that blocks on a full pool.
Pending(p) == pc[p] \notin {"idle", "done", "failed"}

EventuallyAnswered ==
  \A p \in Pubs :
    \/ []<>~Pending(p)
    \/ <>[](pc[p] = "sleep" /\ late[p])
    \/ <>[]FillBlocked
    \/ <>closed

\* A caller of waitForReconnect blocks until the reconnect is over, not longer
\* (docs/SOURCE_CODE_GUIDE.md:239).
WaitEndsWithReconnect ==
  \A p \in Pubs : pc[p] = "sleep" /\ ~closed ~> pc[p] # "sleep" \/ closed
=============================================================================
