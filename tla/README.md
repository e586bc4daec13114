# PPS order platform: TLA+ models and proofs

This directory holds TLA+ modules that model the services of the PPS platform
(phone credit, data packages, vouchers and electricity tokens sold through
partners), TLC configurations that check them on small instances, and TLAPS
proofs of their main properties for every instance.

## 1. The system

### Components, their state and their operations

| Component (directory) | State it keeps | Operations that change it |
|---|---|---|
| **Partner API** (`pps-services-tokopedia`) | PostgreSQL `inquiry_*`, `payment_requests`, `payment_responses`, bill details; Redis caches, tokens, rate-limit counters; one RabbitMQ connection | inquiry, payment, check-status, balance, token; consumption of the status queue with partner notification; cache fills; scheduled cleanup |
| **FIFO consumer** (`pps-services-consumer`) | one Oracle connection pool shared by all queues; Oracle pre-orders and sales through procedures | one message at a time: mark consumed, sell, forward to the provider publisher, or set the transaction status |
| **Queue consumer** (`pps-services-consumer-database`) | a circuit breaker, workers and prefetched deliveries; Oracle | provider status to `SETTRANSACTIONSTATUS`; order to two procedures and a REST call; ack, nack, hold |
| **Queue publisher** (`pps-services-publisher-database`) | a pool of AMQP channels, a reconnect flag, waiters, a cache of declared queues | publish with retry, get and put a channel, reconnect, close |
| **Telkomsel gateway** (`pps-services-gateway-telkomsel`) | `telkomsel_transaction`; check-status goroutines in memory | consume an order, call the provider, follow a pending order, handle a callback, publish the outcome |
| **UniPin gateway** (`pps-services-gateway-unipin`) | inquiry goroutines in memory, game catalogue | voucher and in-game orders, inquiry retries, catalogue sync |
| **SMB gateway** (`pps-services-gateway-smb`) | `smb_transaction`, advice goroutines | electricity tokens with an advice loop |

### How they interact

```
partner --HTTP--> Partner API --(PostgreSQL, Oracle pre-order)--> payment queue
payment queue --> FIFO consumer / queue consumer --(Oracle sale)--> gateway queue
gateway queue --> gateway --HTTP--> provider --HTTP callback--> gateway
gateway --> downstream queue / queue publisher --> queue consumer --> Oracle status
Oracle status --> status queue --> Partner API --HTTP callback--> partner
```

Everything between two services is at-least-once at best: RabbitMQ queues with
manual acknowledgements and publishers that await no confirm, HTTP calls that
time out, and tables that several processes update without locks.

### What is hard about it

* **Concurrency over shared rows.** Payments check first and insert later;
  in the gateways the consumer, the check-status goroutine and the callback
  handler all write one status column with unconditional updates.
* **Redelivery.** A lost session, a crash or a shutdown hands an order to the
  next session although its handler has run, or is still running.
* **Work that lives in memory only.** Pending orders are acknowledged and then
  followed by a goroutine.
* **Ambiguous outcomes.** A timeout of a publish, of an Oracle call or of a
  provider call says nothing about whether it happened.
* **Swallowed errors.** Many failed writes are logged and ignored.

`PROJECT.json` lists these hazards line by line ("hazards") with the properties
that would catch each going wrong.

### What makes each component correct

| Component | Properties |
|---|---|
| Gateways (all three) | success is only told of an order the provider completed; an order is let go of only after a final status was told, or in a hole that is named by then; every order ends settled or in a known hole |
| Telkomsel gateway | an acknowledged order is settled, owed by someone, or in a known hole; retries are bounded |
| UniPin gateway | handler and inquiry goroutine of one delivery never contradict each other |
| SMB gateway | two deliveries of one order are never worked on together |
| FIFO consumer | nothing is forwarded that was not sold; an acknowledged message did its work or is in a known hole; only a goroutine of a lost connection breaks the order of a queue; queues drain |
| Queue consumer | an acknowledged message did all of its work; a sale per delivery; waiting for the breaker costs no delivery; every message ends done or dead-lettered |
| Queue publisher | a channel has one user; no slot is forgotten; every request is answered (it is not, in two races) |
| Payment | what the partner is told (answer and stored response) agrees with what was published; an inquiry is sold once, except in a race; a stored final status is the order's own |
| Inquiry | an answer 00 is on record; prices do not go back; 23 means over the limit; the cut-off holds, each except in the races and failures named |
| Notifier | once all is quiet the partner knows the stored status, except in the cases named |

## 2. The modules

| Module | Models | Checked by | Proved in |
|---|---|---|---|
| `OrderGateway` | what the platform relies on from any gateway (abstract) | implemented by the three gateways, used by `Fulfilment` | the three gateways' proof modules (`GatewayImplemented`) |
| `TelkomselClient` | `pkg/telkomsel`: classification of replies and errors; the consumer's decision on each | through `TelkomselGateway` | `TelkomselGatewayProofs` (lemmas) |
| `TelkomselGateway` | consumer session, check-status goroutines, callback handler, restart | `TelkomselGateway*.cfg` with `MCTelkomselGateway` | `TelkomselGatewayProofs` |
| `UniPinGateway` | consumer session, voucher and game orders, inquiry goroutines, shutdown | `UniPinGateway.cfg` with `MCUniPinGateway` | `UniPinGatewayProofs` |
| `SmbGateway` | session loop, token payments, advice goroutines, shutdown | `SmbGateway.cfg` | `SmbGatewayProofs` |
| `Fulfilment` | the FIFO consumer composed with `OrderGateway` | `Fulfilment.cfg` with `MCFulfilment` | `FulfilmentProofs` |
| `QueueWorker` | the queue consumer: workers, circuit breaker, delivery limit | `QueueWorker.cfg` with `MCQueueWorker` | `QueueWorkerProofs` |
| `Payment` | `paymentUsecaseImpl.Payment` by concurrent requests, with its PostgreSQL procedures, Oracle calls and publish | `Payment*.cfg` with `MCPayment` | `PaymentProofs` |
| `Inquiry` | the inquiry endpoint behind rate limit and cut-off, its tables and the caches it shares | `PartnerApi.cfg` with `MCPartnerApi` | `PartnerApiProofs` |
| `StatusNotifier` | the consumer of the callback queue and its posting goroutines | `PartnerApi.cfg` with `MCPartnerApi` | `PartnerApiProofs` |
| `PartnerApi` | `Inquiry` and `StatusNotifier` in one process that restarts | `PartnerApi.cfg` with `MCPartnerApi` | `PartnerApiProofs` |
| `ChannelPool` | `RabbitMQConnection` and `Publisher` of the queue publisher: pool, watcher, waiters, close, publish requests | `ChannelPool*.cfg` with `MCChannelPool` | `ChannelPoolProofs` |

Properties and definitions named `Mut...` in the modules are mutations: each is
a definition changed as a plausible bug would change it, to see that a property
notices.

### OrderGateway

Four variables seen from outside a gateway: the orders the provider
`completed`, the statuses `told` downstream, the orders still `live` (in the
queue or owed by some goroutine), the ones `excused`. A step completes an order,
tells a status ("F" only of a completed order, final ones only of a live
order), loses some orders, or takes one up again. `LetGo` is the promise: an
order that stops being live was told a final status or is excused.

Each gateway module instantiates it as `Platform` with a refinement mapping:
`live` is what is not acknowledged or owed by a goroutine, `excused` is a
non-empty `gap`. `Platform!Spec` is checked as a property of the detailed
specification and proved of it. The other side of the contract is `Fulfilment`, which takes the
gateways to be `OrderGateway` and no more.

### TelkomselGateway

One action per step of `consumeSession` between two external effects: `Deliver`,
`InsertTransaction`, `BrowseOffer` (data only), `CallProvider`, `HandleReply`,
`LogStatus`, `Publish`, `Ack`. The check-status goroutine of a delivery
(`RetryWake`, `CheckDecides`, `CheckAgain`, `CheckExhausted`, `RetryLogStatus`,
`RetryPublish`) and the HTTP handler of a callback (`CallbackLookup`, two
`CallbackWrite`s, `CallbackPublish`) interleave with it.

* A delivery and its generated `our_trx_id` are one identifier `t`; the row of
  `telkomsel_transaction` is per message and keeps the first delivery's id
  (`ON CONFLICT DO NOTHING`).
* What a reply can lead to is computed by the operators of `TelkomselClient`
  from the reply's class (network failure, rejection page, HTTP family), the
  status code in its body and the mapped return code. The provider and the
  operators' mapping table are assumed truthful in one direction: "00000" and
  return code 0 only for an order that was taken, 1 only for one that was not,
  or for a repeated POST of one that was. Everything else, timeouts included,
  may happen either way.
* The pulsa check-status loop asks about `msgID`, an id the provider never
  received, so its check cannot confirm a success.
* `gap` is a history variable. It names the three holes the code has (a publish
  error that is only logged, a process that dies owing a final status, checks
  that ran out) so that `AckedAccounted` can say there is no fourth.
* Not modelled: the audit table of responses, message texts, the branch for a
  missing retry configuration (`main` exits without one).

### Payment

One action per database, Oracle or broker step of `Payment`; between two steps
any other request may run. `rows` and `response` are `payment_requests` and
`payment_responses` by `ref_id` (UNIQUE). A flawed request is recorded for
audit and refused. `InsertRequest` has the procedure's error convention: a
duplicate `ref_id` becomes a NULL id and no error. A publish that fails may
still reach the queue later (`LatePublish`), because the publishing goroutine
outlives the context. `Settle` stands for the consumers of the queue and for
`payment_status_onupdate`. Price and cut-off checks may pass or refuse: their
data is abstracted. Code "20" stands for 52 as well, "51" for any product
status, "mapped" for whatever an Oracle error is mapped to.

`missed` (requests that ignored a failed query) and `met` (who was in progress
when a request arrived) are history variables: `ResaleNeedsRace` is about them.

### ChannelPool

Three kinds of goroutine share the Go channel `r.channels`, the mutex `r.mu`
and two atomic flags. A publish request runs `EnsureQueue`, `DeclareQueue`,
`GetChannel`, then `TakeChannel` (replacing a stale channel with
`ReadConnection`, `ReplaceChannel`), `PublishMessage`, `PutChannel` and
`ReturnChannel`; the watcher runs `ConnectionDown`, `StartAttempt`, `Dial`,
`FillPool`, `PushChannel`, `SetupExchange`, `NotifyWaiters`,
`ClearReconnecting`; a signal runs `MarkClosed`, `ClosePool`, `CloseConn`. A
step ends where the code reads or writes something another goroutine uses: the
flag is read in `GetChannel` and the waiter registered in `WaitForReconnect`;
`PutChannel` looks at the channel and `ReturnChannel` sends it.

* A channel is the pair of its connection and its number on it; `open` and
  `alive` are what the AMQP library knows. `r.channels` is a set: nothing
  depends on the order of its channels.
* `r.mu` is held from `Dial` to the end of the filling (`Connecting`); readers
  and `CloseConn` wait. `PushChannel` is the blocking send under that lock.
* Operations on the closed Go channel panic (`panicked`), after which nothing
  runs: the HTTP server has no recovery handler.
* Backoff is a bound (`Attempts`) with the freedom to give up at any attempt.
  `late` and `lost` are history variables.
* Not modelled: queues declared at start-up (`queue_declare_mode` is "lazy"),
  several queues, `Ping` and `GetConnection` (they only read), the exit of the
  process, and what the broker does with a message it was written: publishes
  await no confirm.

Two ways to be stuck are real and named by the properties. `ForgottenIsLate`: a
request that saw the flag and registered after the waiters were notified sleeps
until the next reconnect. `BlockedFillHasStray`: a channel of the previous
connection can come back into the pool while `connect` fills it (its request
checked it before the loss, or the previous connection is still up because only
`setupExchange` failed); `connect` then blocks on the full pool with the lock
held, and is released only if some request takes a channel.

### UniPinGateway

A delivery's handler runs `Deliver`, for a game order `ValidateUser`, then
`PlaceOrder`, `HandleReply`, perhaps `OrderInquiry`, `Forward`, `Ack`; its
inquiry goroutine runs `RetryInquiry`, `RetryWait` and `RetryForward`. The
gateway keeps no table, so `gap` and `published` are all that is left of an
order when its goroutines are gone. The reference given to UniPin is the
message's id: a redelivered order is the same order there, and the client
repeats a POST under it. Replies are classes: status "1", "0", another number,
a timeout of the last POST, another technical error. UniPin is truthful in one
direction: "1" only for a completed order, and an inquiry denies only one that
does not exist yet or failed; a repeated or redelivered POST may be refused.
`stop` follows a shutdown: the context is cancelled at once (so calls fail and
waiting goroutines stop silently), the consumer a round trip later.

### SmbGateway

The session loop handles one delivery to its end, so `Deliver` waits until it
is `Idle`; advice goroutines run beside it, and a lost session or a shutdown
waits for them (`Drained`) before `Reconnect` or `Exit`. Each delivery inquires
and pays under a RefID of its own, hence `order` is per delivery. Codes are
classes of what `ResolveRCPPS` tells apart. A cancelled context makes every call
and every write of `smb_transaction` fail, and a waiting advice goroutine
conclude "C". Nothing is published later for an inquiry answered with a timeout
code, which tells "S": `gap` calls that hole "inquiry".

### Fulfilment

The FIFO consumer keeps one goroutine per broker connection of a queue. `Dial`
starts one and does not wait for the old one, which keeps its message, its
database handle and its place (an orphan). `Step` is such a goroutine: the
message's stored procedures one after the other (`GetConnection`, `Exec`, and
the ways to fail), then `Forward`. `pool` is the generation of the one
`sql.DB` all goroutines share; `ResetPool` closes whichever is open. Where an
error loses a message, `gap` notes the call and why. Statuses come back over
the same queue (`GatewayTells`) and are applied by position, which shows when
an old one is written over a newer one.

One hole has no log line. An orphan holds an order; Oracle refuses the
redelivered message of it, which is acknowledged; then the orphan sells the
order after all, and the process ends before it forwards it
(`OnlyOrphanForwards` in `Restart`). The order is sold, no message of it is left
and no provider is asked. The attempt to prove `Accounted` inductive led to this
history, which takes two losses; the model names it in `gap`, and an instance
that starts after the first loss reaches it.

### QueueWorker

Workers share one circuit breaker, modelled after the state machine of
`gobreaker` (external): requests, successes and failures of its present
generation, and `current` for requests whose generation is over. A worker runs
`OpenSession`, `Take`, `Execute` (which may `Hold` the message and `Poll`),
`Route`, the calls, `Conclude`, `Ack` or `Nack`. `Return` is the broker's side:
a message that came back more than `Limit` times is dead-lettered. Any call may
fail after its effect. A provider message for which no procedure is called
makes the worker panic, and with it the process.

### Inquiry, StatusNotifier, PartnerApi

`Inquiry` has one action per access to Redis, PostgreSQL or Oracle, for
concurrent requests of one client about one product and one customer. The
product is a version number in Oracle; `cached` is the version in Redis, and
`saving` holds what a goroutine has read and will write some time later, on
behalf of an inquiry, of a payment (`PaymentFills`) or of the startup. The
counter's expiry is a step of its own (`Expire`), and the clock ticks in
between. `Arrive` stands for the IP list, which lets a client through, refuses
it or cannot tell.

The two cut-off windows, general and Tokopedia's, have two keys each, set one
by one in any order (`SaveCutOff`). A request reads them with four GETs:
`ReadCutOff` is the first and `found` what was set then; by `CutOff`, after the
last, it has seen those and any part of what was set meanwhile. One start, of
either window, is enough for the code not to ask Oracle, so a window whose own
keys are missing is not enforced then. A window is computed as the code does,
from today's start. `cutStart`, `cutDuration` and `held` are what Oracle holds
and which of it is usable; it does not change while the model runs. In the code
a change reaches Redis only when the service starts again, as the keys never
expire.

A command to Redis whose reply is lost may have been carried out, and the
client library may send it again. `Incr` and `Expire` can therefore take effect
and fail, or take effect twice, and so can the writes of the goroutines.
`miscounted` and `unset` are history variables: they note that the counter or
the cut-off keys went astray in one of these ways, or with the process.

`StatusNotifier` takes a message, reads the stored status, starts a goroutine
and acknowledges. Who updates the status and sends the messages is not in the
repository: `Update` and `Send` come in any order, so messages may be late,
reordered or early. A status is the number of the update that wrote it.

`PartnerApi` is both in one process: `Restart` ends the requests, the
goroutines and the consumer together and keeps the tables, Redis and the queue.

## 3. What the runs check

| Run | Instance | Shows |
|---|---|---|
| `telkomsel_safety` | one data order, two deliveries, two checks, one error, one loss, one callback; 2.3 million states | three invariants; `ImplementsGateway` |
| `telkomsel_mix` | a pulsa order, a data order and an unparsable message, or one of them with a loss, under fairness; 446 thousand states | `EventuallySettled` |
| `unipin` | an order of each kind next to a message to skip, three deliveries, two attempts, one error, one loss, under fairness; 92 thousand states | two invariants, `ImplementsGateway`, `EventuallySettled` |
| `smb` | one token order and a message to skip, three deliveries, two attempts, one error, one loss, under fairness; 204 thousand states | two invariants, `ImplementsGateway`, `EventuallySettled` |
| `fulfilment` | one order of any kind with a loss, or two orders on two queues that share the pool, or one order with the database away, or one in the hands of a goroutine that lost its connection, and another loss; three goroutines, one failed call (two without the database, none in the last), two posts, two statuses, under fairness; 544 thousand states | three invariants, `OnlyOrphansOvertake`, `EventuallyDrained` |
| `worker` | an order next to a message of each other kind, two workers on one queue, one loss, a delivery limit of 1, under fairness; 466 thousand states | four invariants, `EventuallySettled` |
| `partner` | one inquiry at any time of the day while the cut-off keys are being set; two with one `ref_id` while the product changes; two in a rate-limit window, alone or after a third; two updates of a payment; in each one failure, one crash or one payment that fills a cache; 2.6 million states | three invariants, `LimitedIsOverLimit`, `CutOffHolds` |
| `payment_safety` | three requests, two with one `ref_id`, two with one inquiry, one flawed; one error, one crash; 2.5 million states | six invariants |
| `payment_one_sale` | two requests for one inquiry, no errors | **violated** `OneSalePerInquiry` (payment_usecase.go:134) |
| `payment_stale_status` | two requests, no errors | **violated** `InProcessIsUnsettled` (mapping_response_code_utils.go:18) |
| `pool` | two requests, a pool of one, two faults, shutdown, under fairness; 707 thousand states | five invariants, `EventuallyAnswered` |
| `pool_lost_wakeup` | one request, one fault, under fairness | **violated** `WaitEndsWithReconnect` (SOURCE_CODE_GUIDE.md:239) |

The violated ones are findings: `PROJECT.json` quotes the sentence of the
repository each contradicts.

**Bounds.** Two deliveries of one order are enough for every pair of concurrent
handlers, retries and callbacks of it, as a prefetch of one and one loss allow
no third; the UniPin and SMB instances have a third for the message beside it.
Messages do not share rows, so a second order adds only the prefetch window,
which `telkomsel_mix`, `unipin` and `smb` cover. Two attempts distinguish a
first, a last and a repeated one. In `Payment` the chain r1-r2 (same `ref_id`),
r2-r3 (same inquiry) has both kinds of race at once; one error and one crash
let each step fail with the rest intact. In `ChannelPool` the second request is
the one that holds a channel, or waits, while the first and the watcher race;
two faults are a loss during a reconnect, or a failed set-up and a loss; the
theorems cover every size of the pool. In `Fulfilment` a loss needs a second
goroutine on its queue and the other queue a third; the second queue matters
only through the pool, so its instance spends no losses. The instance without
the database starts with no connection. A crash after a goroutine has outlived
its connection takes two losses: that instance starts after the first, at a
place each order passes on its way to the sale. In `QueueWorker` two
failures open the breaker and one probe closes it, and a limit of 1 lets a
message come back once before it is dead-lettered; two workers are what it
takes for a refused probe. In `Inquiry` the mechanisms meet only through the
requests themselves, so each instance starts where the others are over: two
requests and one change are a fill that overtakes a newer one; a limit of one
is reached by the second of two requests, or passed by it after a counted third;
one of a failure, a crash and a payment at a time let each happen at every
point. A day of four ticks with a window of length one and a second one that
overlaps its end and lasts past midnight has times before, in one, in both, and
after them.

**Fairness.** Every fair specification assumes that the program's own
goroutines and handlers take their steps (weak fairness per delivery, session,
worker or request) and that a shutdown once begun ends. The providers owe
nothing: they may never decide and never call back. Every HTTP call, publish
and Oracle call in the code has a timeout, so getting some result is the
goroutine's own step, and no call is assumed ever to succeed. Deliveries, losses
and faults are bounded, since nothing ends under unbounded ones. In
`QueueWorker` the broker delivers and the clock moves. In `ChannelPool` nobody
has to send a signal, and since faults are bounded the broker can be reached in
the end; `EventuallyAnswered` excuses a request that sleeps late, a blocked
`connect` and a shutdown, and nothing else. `PartnerApi` has no liveness
property: the notifier never repeats a post, so nothing has to happen.

Deadlock is not checked: workloads are finite and the systems may stop.

## 4. What is proved

Every safety invariant, every action property and every refinement that a
passing run checks is also proved by TLAPS, for every value of the constants the
assumptions allow:

| Module | Theorems (property) |
|---|---|
| `TelkomselGatewayProofs` | `TypeCorrect`, `FinishCorrect` (`FinishIsTrue`), `AccountCorrect` (`AckedAccounted`), `GatewayImplemented` (`ImplementsGateway`) |
| `UniPinGatewayProofs` | `TypeCorrect`, `ContradictionCorrect` (`ContradictionNeedsRedelivery`), `GatewayImplemented` |
| `SmbGatewayProofs` | `TypeCorrect`, `OneWorkerCorrect` (`OneWorker`), `GatewayImplemented` |
| `FulfilmentProofs` | `TypeCorrect`, `SoldCorrect` (`SoldBeforeForwarded`), `OvertakeCorrect` (`OnlyOrphansOvertake`), `AccountedCorrect` (`Accounted`) |
| `QueueWorkerProofs` | `InvCorrect`, `TypeCorrect`, `AckedCorrect` (`AckedIsDone`), `SaleCorrect` (`OneSalePerDelivery`), `HoldCorrect` (`HoldIsFree`) |
| `PartnerApiProofs` | `AnswersCorrect` (`AnswersAreRecorded`), `PriceCorrect` (`PriceNeverReturns`), `LimitCorrect` (`LimitedIsOverLimit`), `CutOffCorrect` (`CutOffHolds`), `StatusCorrect` (`PartnerKnowsStatus`) |
| `PaymentProofs` | `TypeCorrect`, `BackedCorrect`, `RefusalCorrect`, `InProcessCorrect`, `ResaleCorrect`, `StatusCorrect` |
| `ChannelPoolProofs` | `TypeCorrect`, `ChannelsAreExclusive` (`SingleOwner`), `SlotsAreAccounted`, `FillBlocksOnStrays` (`BlockedFillHasStray`), `OnlyLateAreForgotten` (`ForgottenIsLate`) |

**Assumptions** are the modules' own, all about constants: kinds of messages are
disjoint; delivery ids and goroutines of `Fulfilment` are naturals; bounds are
naturals, and at least one attempt, prefetched message, probe, failure to open
the breaker, tick per day and window is configured; both cut-offs start within a
day and last less than one, of which Oracle may hold any part; requests have a `ref_id`, an inquiry and a flaw; an
order of `Fulfilment` has one queue; "none" is not one of the values it stands
beside. Sets of messages, requests and deliveries may be infinite, except the
requests of `ChannelPool` and the orders of `Fulfilment`.

Most proofs have one shape. A handler's step changes the record of one delivery,
worker or request: an operator says which changes those are (`Moves`, `Local`,
`Works`, `Flows`), one lemma per action shows that it makes no other, and the
invariant is proved once for every such change instead of once per action.

**FinishIsTrue** is not inductive: a handler that has decided "F" will publish
it later. `TruthInv` carries the truth of each pending "F" (of the handler, the
retry goroutine and the callback) together with the fact that a completed order
stays completed; it rests on lemmas that show, by cases over every reply, that
the client's decision is "F" only for a reply a completed order can give.

**AckedAccounted** needs who is responsible at each moment. `LinkInv` and
`ClaimInv` tie a delivery, its row and its goroutines together; `ResolvedInv`
says that a resolved row has been published, is owed by its writer, or lies in
a hole (what makes the retry loop's silent stop sound); `AckInv` follows the
message from the queue to its settlement.

**Payment**: `StageInv`, `CodeInv`, `RowInv` and `StoredInv` (together
`AnswerInv`) relate the place a request has reached to what it has created and
to the code it carries, and stored responses to requests past the point of
storing them. `RaceInv` (`MetInv`, `ClearedInv`, `BuyerInv`, `PairInv`) proves
the resale property: two requests in progress together have met; one that
passed the `ref_id` check and finds it used by another has raced; a buyer has
its own row or raced; and once a buyer with a row is done, `InquiryUsed` is true
for every later request of that inquiry.

**ChannelPool**: `HandsInv` ties where a request is to what it holds and to the
list of waiters. `OwnerInv` adds that every channel in use was opened, so that a
new one differs from all of them; the moves a channel can make (`PublishMoves`,
`OtherMoves`) then keep its owner unique. `FillInv` says that nobody opens
channels on a connection while `connect` fills the pool from it, which makes
its numbers run up to the loop index; `FullPool` concludes by counting: `Size`
channels in the pool, fewer than `Size` put there by this loop, so one is a
stray. `SlotInv` counts the pool, the requests that own a slot and the lost
slots over every step.

**Refinement of OrderGateway.** `ImplementsGateway` is proved step by step: what
the platform sees of a step is which orders stop or start being live, what is
told and what is lost, so a few lemmas about that view (`Stutters`, `TakesUp`,
`Tells`, `Loses`, `LetsGo` or their like) turn each action into an abstract step
or a stutter. The abstract `LetGo` needs to know that an acknowledged order was
settled, is owed or fell into a hole: `AckInv` of UniPin and SMB, and
`AckedAccounted` of Telkomsel, already proved. "F" is only told of a completed
order by `DeliveryInv` and `FinishIsTrue`. `Fulfilment` uses nothing else of
a gateway, so what it proves needs no more of the three than these theorems give.

**SMB**: `OneWorker` is inductive only together with what keeps a message away
from a second goroutine: the loop of an open session works on its
unacknowledged delivery and nothing else (`LoopInv`), and no message that advice
is asked about can be delivered, because a lost session is drained before the
next one opens (`AdviceInv`).

**UniPin**: `SoleInv` says that a message's only delivery agrees with itself:
while it may still publish a final status, none was published. Two deliveries
are then two elements of a finite set (`FiniteInv`: only finitely many were made,
though any number is allowed).

**QueueWorker**: `WorkerInv` ties the place of a worker to its message and to
the work done on it; an acknowledgement counts on a live channel only, and then
all the work was done. `PlaceInv` gives a message one place with the broker. A
channel that dies leaves its worker with the message while the broker delivers
it again, so `SaleInv` counts: sales made, workers that may still sell and the
copy waiting never exceed returns + 1. `FreeInv` counts failed attempts in the
same way as long as nothing is lost.

**Fulfilment**: `SessionInv` and `DataInv` are what a goroutine knows of its
message and what the tables agree on; "forwarded is a subset of sold" follows.
For the order of statuses, the line of a queue is what the broker would
redeliver (the message in hand and the ones waiting): in `LineInv` it never has
a status before an older one of the same order, and nothing applied or in hand
is newer than what is in it, so only a goroutine outside the line, an orphan,
can put an old status over a newer one. `AccountInv` follows an order from its
message (`Held`) over an orphan that would still forward it (`Owed`) to its
gateway, and each final status from the gateway to Oracle (`Seen`).

**PartnerApi**: `CodeInv` and `RowInv` relate where an inquiry is to its rows and
to the requests served before it. `PriceInv`: while Oracle did not change during
a fill, whatever is about to be cached is current, and the cache is at least as
new as all that was shown. `LimitInv` says that a counter has not gone astray
(`miscounted`), or belongs to a window (`Windows`): it counts requests since a
start that its expiry determines, and while it has no expiry one request is
about to ask for it and the clock has not moved. `CutInv` says that unless a
command failed or the process died, either no cut-off key is set or about to be,
or all that Oracle holds are one or the other; what a request found when it
began to read is still set. With arithmetic on the day (`SinceStart`) that
leaves `CutOffCorrect` the exceptions it names. `PaymentInv` follows a sent message
through queue, consumer and goroutine: until a gap is hit its status, or a newer
one, is waiting, in flight or told.

**Model-checked only.** Liveness (`EventuallySettled` of the gateways and of the
queue consumer, `EventuallyDrained`, `EventuallyAnswered`): liveness under
fairness and `ENABLED` are out of the provers' reach. The three violated
properties are counterexamples, which only a run can show.

## 5. Where code and documents disagree

Findings with a run are listed in `PROJECT.json`. These were met on the way; the
models follow the code.

* Telkomsel: when the last pending check is over nothing is written or
  published (`consumer_service.go:1254`); the design wants FAILED and "C"
  (`.kiro/specs/paket-data-post-publish-check-status/design.md:228`). The model
  has it as the gap "exhausted".
* Telkomsel: SUCCESS and FAILED may be overwritten by a late writer
  (`transaction_logger.go:150`); the state diagram makes them final
  (`design.md:186-191`).
* Queue publisher: a shutdown closes the Go channel under requests that still
  publish, which panics (`rabbitmq.go:373`); `docs/SOURCE_CODE_GUIDE.md:113-119`
  calls it graceful. The panic is an action outcome in `ChannelPool`.
* SMB: an inquiry answered 28, 68 or nothing publishes "S" and writes FAILED,
  and nobody follows it; `docs/flow_gateway_smb.md:75-77` says "C".
* UniPin: an inquiry goroutine that waits when the service is told to stop ends
  without publishing (`consumer_service.go:539-543`); `docs/task_perbaikan.md:34`
  wants no silent transaction.
* FIFO consumer: `ResetPool` closes the pool under statements of other queues,
  and "sql: database is closed" is not among the errors that are retried
  (`oracle.go:61-72`).
* Queue consumer: failed probes of a half-open breaker and shutdowns of held
  messages count against the delivery limit, so messages nothing is wrong with
  can be dead-lettered; messages that cannot be decoded are returned to the
  queue, not rejected.
* Cut-off: a window that crosses midnight is in force until midnight only
  (`cutoff_validator.go:163-171`: the end, a time after the start, is never
  before it).
* Inquiry: an error row of Oracle is cached for a day like a product and
  answered 14 from the cache; an error inside a stored procedure is ignored, so
  an inquiry may be answered 00 without the row its payment needs.
* Rate limit: only the request that sees 1 asks for the counter's expiry
  (`rate_limit_middleware.go:144`). After a failed EXPIRE, or an INCR that was
  carried out and whose reply was lost, the counter refuses the client for good
  once it is over the limit.
* Cut-off: Oracle is asked only when both starts are missing in Redis
  (`cutoff_validator.go:42`). While the keys are being set, or after one Set
  failed, an inquiry inside one window passes because Redis has the other's start.
* Notifier: an answer other than 200 and a failed post are logged only.

## 6. Plan

1. Telkomsel gateway, payment endpoint, channel pool of the queue publisher,
   with their theorems (done).
2. The abstract gateway, UniPin and SMB, the two consumers, inquiry and
   notifier, with the refinements and compositions (done, model-checked).
3. Theorems for what was only model-checked: every invariant, action property
   and refinement of the passing runs (done).
4. Stronger statements worth a theorem: how often one delivery can conclude in
   each gateway, and what a crash can lose at most; the finality of what the
   queue consumer applies; shorter proofs where gateways share an argument.

## 7. Not modelled, and why

Token, balance and check-status endpoints (they read, or sign a token that
nothing here depends on), HTTP middleware other than the rate limit and the
verdict of the IP list (encryption, signatures, logging, formatting: per
request, without shared state), health checks, scheduled cleanup of log tables,
UniPin's catalogue synchronisation, audit and API logs, and generated
documentation and wiring. Oracle's procedures, RabbitMQ, Redis, the circuit
breaker library, the providers, the partner and the service that updates
payment statuses are external and modelled from how the services use them.

## 8. Running

```
tlc -config TelkomselGatewaySafety.cfg MCTelkomselGateway
tlc -config UniPinGateway.cfg MCUniPinGateway
tlc -config SmbGateway.cfg SmbGateway
tlc -config Fulfilment.cfg MCFulfilment
tlc -config QueueWorker.cfg MCQueueWorker
tlc -config PartnerApi.cfg MCPartnerApi
tlc -config PaymentSafety.cfg MCPayment
tlc -config ChannelPool.cfg MCChannelPool
tlapm TelkomselGatewayProofs.tla
tlapm UniPinGatewayProofs.tla
tlapm SmbGatewayProofs.tla
tlapm FulfilmentProofs.tla
tlapm QueueWorkerProofs.tla
tlapm PartnerApiProofs.tla
tlapm PaymentProofs.tla
tlapm ChannelPoolProofs.tla
```
