# A TLA+ project for sales-event-project

Specifications of the ticket sales service in this repository, the TLC runs that
check them on small instances, and proofs, checked by TLAPS, of what holds for
every instance. Paths below are relative to the repository (`src/` stands for its
root).

## 1. The system

| part | code | state it keeps | operations |
|---|---|---|---|
| sale intake | `internal/httpapi/routes_sales.go`, `sales_service.go` | none of its own; reads `tickets` | validate a request against the visible stock, publish `sale.created` |
| sale reservation | `cmd/worker/main.go`, `internal/worker/sales_processor.go` | `customers`, `sales`, `sale_items`, `tickets`, `payments` | check for the sale, reserve it in one transaction, ack or dead-letter the message |
| payments | `internal/httpapi/sales_store.go`, `routes_payments.go`, `routes_webhooks.go` | `payments`, `payment_intents`, `sales`, `tickets`, `outbox_events` | create or renew an intent, manual payment, payment webhook |
| publisher confirms | `internal/messaging/rabbitmq_*.go` | a mutex, two Go channels of capacity 1, the AMQP connection | `PublishJSON`, wait for return, confirmation or cancellation |
| outbox | `internal/outbox/publisher.go` | `outbox_events` | select a batch, publish, mark, commit; backoff, dead letter |
| ticket delivery | `internal/worker/ticket_delivery_processor.go` | `issued_tickets`, `email_notifications` | issue tickets, send the email, record the outcome |
| email retry | `cmd/email-retry-worker`, same file | same tables | select failed notifications, send, mark, commit |
| email events | `routes_webhooks.go`, `RecordEmailEvent` | `email_notifications` | record what the provider reports |
| retention | `internal/retention/cleaner.go` | deletes from `outbox_events`, `email_notifications` | delete old published events and sent notifications |
| check-in | `routes_checkins.go`, `CheckInTicket` | `ticket_check_ins` | read and lock a ticket, admit it once |
| migrations | `cmd/migrate` | `schema_migrations` and the schema | apply each migration once |
| rate limiter | `internal/httpapi/rate_limit.go` | a map of token buckets under a mutex | allow, prune |
| analytics | `internal/analytics`, `internal/analyticsdb`, `cmd/*-export` | none | events of the tables, windows, funnel, survival, demand, stockout, priors |
| the rest | `auth*.go`, `signature_auth.go`, `internal/correlation`, `internal/observability`, `internal/config` | none that matters here | request checks, metadata, logging, settings |

How they interact. The API answers `202` once RabbitMQ confirmed `sale.created`;
the sale does not exist yet. The worker consumes the message, one delivery at a
time, and reserves the sale in one PostgreSQL transaction. A payment settles it in
another, which also inserts the event that the outbox publisher, a goroutine of
the same worker process with its own connection, sends later. `SALE_COMPLETED`
comes back to the worker, which issues the tickets and sends the email;
`SALE_FAILED` has no queue, by design, and ends in `DEAD_LETTER`. A separate
process retries failed emails. A rejected message goes to `sales.dlq`, which nothing
consumes. Nothing reconnects a lost AMQP connection: the consumer loop returns and
the process has to be started again. `docker-compose.yml` runs one worker.

What is hard here: redelivery between a commit and its acknowledgement; a check
(`saleAlreadyProcessed`) outside of the transaction that relies on it; confirmations
without a comparison of delivery tags; emails and messages that go out inside
transactions which may be undone; two processes counting attempts of the same row;
reports of the provider that overwrite a status other code decides on; transactions that
lock the same rows in different orders; runners of migrations that nothing keeps apart;
analytics that order events by the times of three clocks. PROJECT.json lists each hazard
with its line and the properties aimed at it.

What makes each part correct:

- intake, reservation and payments: no ticket is handed out twice or lost, a sale is
  settled once, sale, payment, intent and outbox tell one story, and an accepted total
  can be stored and paid;
- the way to the door: only what was paid is issued, an issued ticket lets one person in,
  and who paid gets tickets;
- publisher confirms: nil means the message is in its queue, an error means it is not,
  and every call returns;
- outbox: an event is closed as published only when a queue took it, is sent again only
  after a fault, and does not stay open for ever;
- ticket delivery: SENT is true, emails are bounded by messages and faults, and no
  failure stays without retry or verdict, but for the exceptions of section 4;
- row locks: which transactions can deadlock, and that no others can;
- migrations: a version takes effect exactly once, in order, or not at all;
- rate limiter: forgetting a visitor cannot be noticed;
- analytics: what a document derives agrees with the tables, with itself and with the
  other exporter.

## 2. The modules

| module | what it is |
|---|---|
| `SaleLifecycle` | abstract: the life of a sale and of the event it leaves |
| `Sales` | API, worker and payments over the tables and the queue; refines `SaleLifecycle` |
| `SalesProofs` | theorems of `Sales` and of `SalesSystem` |
| `SaleTotal` | the total of a request in 64-bit integers |
| `TicketPromise` | abstract: paid, issued, admitted |
| `SalesSystem` | `Sales` composed with the relay of announcements, the issuing of tickets and the gates; refines `TicketPromise` |
| `PublishConfirm`, `PublishProofs` | `PublishJSON` with the client library and the broker around it |
| `EventRelay` | abstract: what the outbox promises of an event |
| `OutboxPublisher`, `OutboxProofs` | `PublishPending` in any number of processes; refines `EventRelay` |
| `TicketDelivery`, `TicketProofs` | `Handle`, `RetryFailedEmails`, `RecordEmailEvent`, retention |
| `RowLocks` | every transaction as the sequence of row locks it takes |
| `Migrate` | runners of several releases over one database |
| `TokenBuckets` | abstract: one bucket for each client, for ever |
| `RateLimiter` | `allow` and `prune`; refines `TokenBuckets` |
| `SalesHistory` | the rows and the times that the export reads, its query, and the summary of `cmd/optiflow-export` |
| `Analytics` | windows, funnel and survival of a sequence of events |
| `AnalyticsDemand` | demand series, forecasts, stockout risks, simulation priors |
| `AnalyticsExport` | `SalesHistory` and the analyses, and how they agree |
| `ApiProofs` | theorems of `SaleTotal` and `RateLimiter` |
| `DatabaseProofs` | theorems of `RowLocks` and `Migrate` |
| `AnalyticsProofs` | lemmas on the analyses of any events |
| `HistoryProofs` | theorems of `AnalyticsExport` |
| `MC*` | stocks, requests, files, intervals and symmetry for the runs |

### Sales

One step is one transaction or one exchange with the broker. That grain is the code's:
`ProcessPayment`, `ProcessPaymentWebhook` and `CreatePaymentIntent` begin with
`SELECT ... FOR UPDATE` of the sale (the webhook locks the intent before) and keep the
lock until they commit; `persistSale` locks the row with its upsert. `saleAlreadyProcessed`
runs before the transaction begins and is the step `SaleAlreadyProcessed`; everything may
happen between it and `PersistSale`. `HandlerFails` stands for every error return of
`Handle`, including too few tickets; a lost answer to COMMIT is the result "nack" of
`PersistSale`. `Answer` acks or dead-letters, unless the connection is gone: then
the broker has put the message back (`Requeued`) and the process goes on with a delivery
that somebody else may have. A webhook whose outcome the sale already has is answered
without a change of state and is no action.

A request is abstracted to two numbers for each ticket: `kept`, the quantity of the first
line that names it, and `rest`, the total of its other lines. The code takes both from the
stock and stores only the first (`ON CONFLICT DO NOTHING`). Amounts, prices and text are
left out: a payment of another amount is refused and changes nothing. `persistSale` with
an empty list of lines is left out: the API refuses such a request.

### SaleTotal

The loop of `validateSaleRequest` over the lines of a request, whose numbers are any 64-bit
integers, and the loop of `persistSale` over those that passed. Both multiply and add with
Go's wrapping arithmetic. `Storable` is the `CHECK` constraints of `sales` and `sale_items`:
an INSERT that breaks one would send an accepted sale to the dead letters. `totals` remembers
the API's total after every line; it stands for the sum of a prefix without recursion.

### SalesSystem and TicketPromise

`SalesSystem` extends `Sales` and keeps its actions. The relay is `OutboxPublisher` reduced to
what a consumer sees: an announcement is delivered, delivered and kept, or given up. One worker
process takes one delivery of either queue at a time (`Free`), so that a crash or a lost
connection hits both. `IssueTickets` is `prepareTicketEmail`: it skips a sale that is not
completed, and what follows, the email, decides only the answer. A gate reads and locks the
ticket in one step and inserts the check-in in another; payments and the worker may act between
them. The refinement maps "paid" to "the outbox ever held `SALE_COMPLETED`".

### PublishConfirm

`pc` walks through the statements of `PublishJSON`; `returns` and `confirms` are the two Go
channels; `wire` the frames in flight, `unconfirmed` the confirmations the broker owes. From
the library and the broker the module takes only what the code relies on, as its header
says. A `select` with two ready cases is a choice. A closed channel is always ready.

### OutboxPublisher and EventRelay

`created` ranks the rows by `created_at`, whose order need not be that of the commits. A
publisher's transaction is `selected` (the locked rows), `batch` (those still to handle, oldest
first) and the uncommitted marks `sent` and `failed`, which become visible in `Commit` and vanish
in `Abort`. What `PublishJSON` may return is taken from `PublishConfirm`, with the two
ways it can be wrong: an unroutable message reported as published, and an error although the
message is queued, which takes a broken connection and counts as a fault. The refinement maps `PENDING` and
`FAILED` to "open"; the abstract module says that only a published event may be deleted and
that a routable one is published only when a queue took it.

### TicketDelivery

`Handle` is the steps `CheckSent` and `PrepareTicketEmail` (one transaction, split where
another session can change the notification: the lock of `getCompletedSale` keeps out other
consumers, not retriers or webhooks), `SendTickets`, `MarkSent` and `StampTickets` (two
separate UPDATEs), `MarkFailed`. `Locked` is the row lock of a retrier: those who write the
row wait for it. The sales of this module are completed ones; the tickets of a sale are
issued together, in one transaction, with identifiers that depend only on the sale, so that
one set `issued` stands for them. Backoffs are a flag `due`; the cleaner may find any sent
row old enough.

### RowLocks

A transaction is the sequence of its requests for row locks: of `SELECT ... FOR UPDATE`, but
also of every UPDATE, upsert and foreign key, in the three modes that conflict differently.
The upsert of `persistSale` sets `customers.email`, which has a unique index, and therefore
takes the strongest mode; `FOR UPDATE` without `OF` locks the rows of all joined tables, so
that every payment and delivery also locks the customer and the event. A transaction may end
before any request (`End`): a deferred Rollback, a client that goes away, or the deadlock
detector. `LocksAssumption` says that sales with a ticket type in common are for one event, because
`GetTicketForEvent` refuses every other line. `docs/database.md:194-200` lists the locks of sale, intent and ticket only.
A statement that finds several rows locks them one after another in an order that nobody
promises (`Scans`): the tickets of a sale, the old emails that the cleaner deletes, the ticket types
that a failed payment gives back. The status of a row is not kept, so that a transaction
may ask for rows that its WHERE clause would not find: the deadlocks found are those
that the order of locking allows.

### Migrate

`runner[r]` is a process: the files of its image in the order of their versions (files with one
version in any order), the statement at hand, and its exit. Of a statement the module keeps what
happens when it is run twice. What PostgreSQL adds is that a transaction waits for an open one
that ran the same statement or inserted the same version.

### RateLimiter and TokenBuckets

A request reads the clock (`Arrive`) before it takes the mutex (`Allow`), so that `prune` and
`lastSeen` work with times that are late and out of order. Time and tokens are integers: a token
is as many units as ticks it takes to flow in. The refinement gives a forgotten client the full
bucket that `rate.NewLimiter` would give it.

### SalesHistory, Analytics, AnalyticsDemand, AnalyticsExport

`SalesHistory` keeps the columns that `eventsQuery` selects. `sales.created_at` is the time of
the API and `payments.processed_at` may be the provider's: both are any time of `Foreign`. A row is
an event with the status that it has now. `Sorted` is the `ORDER BY`: an event's place is the number
of those before it, as that of a duration in `Ascending` is the number of those it is not exceeded by.
`ReadEvents` adds period and `LIMIT`. `Insert` is the INSERT of a row, `Enough` the condition under
which `persistSale` takes tickets. `Analytics` folds the funnel over the events in their order, as the code does, and counts;
a probability is the pair it divides, a mean the pair of sum and count. Wilson intervals, Beta
posteriors, Poisson tails and forecast errors are floating point functions of these counts and are left out,
as are event types that only add to counts (`outbox.published`, `email.status` and the
reports on an email). `SurvivalAnalyses` keeps the analyses that have an observation, by their
kind. `AnalyticsExport` states what the document says against the tables. What the constants must
satisfy is what the code sees to: positive durations (`normalizeWindowSpecs`), the shape of
`DefaultSurvivalIntervals`, options above zero (`DemandAssumption`), identifiers and times that can be
compared (`HistoryAssumption`).

## 3. The runs

| run | instance | shows |
|---|---|---|
| `SalesOneWorker` | 2 sales, 2 tickets (stock 3 each), lines of 2, 2 providers, 2 faults, fair worker | `TypeOK`, `StockConserved`, `SettlementConsistent`, `AckedIsPersisted`, refinement of `SaleLifecycle`, `AcceptedIsDecided` |
| `SalesRepeatedTicket` | 1 sale, a ticket in two lines | `FailedSalesRestoreStock` is violated |
| `System` | 2 workers, 2 gates, 2 sales that compete for one ticket type, 1 fault | `NeverOversold`, `AdmittedWithinStock`, `SettlementsBounded`, refinement of `TicketPromise` |
| `SystemLive` | 1 sale, 2 workers, 2 faults, fair | `PaidGetsTickets` |
| `PublishOutcome` | 3 calls, one cancellable, one unroutable; the connection may be lost; fair | `TypeOK`, `NilMeansEnqueued`, `ErrorMeansNotEnqueued`, `ReturnsWhileOpen` |
| `PublishClosed` | 2 calls, the connection may be lost, fair | `EveryCallReturns` is violated |
| `Outbox` | 2 events, one unroutable, 2 publishers, 2 faults, fair | `TypeOK`, `CopiesBounded`, `OpenIsSelectable`, refinement of `EventRelay`, `EventDecided` |
| `Tickets` | 1 sale with 2 messages, 2 consumers, 2 retriers, every kind of fault, 2 of them, fair | `TypeOK`, `SentIsTrue`, `EmailsBounded`, `UnsentIsOnRecord`, `EmailedOrGivenUp` |
| `RowLocks` | 3 transactions at a time, 2 sales of 2 customers for one event | `KnownDeadlocks`, `ReleaseNeverWaits` |
| `RateLimiter` | 2 requests at a time, 3 spellings of 2 clients, burst of 2, the shortest time to live allowed | `TypeOK`, refinement of `TokenBuckets` |
| `Migrate` | 3 releases and a broken image, 5 files, two with one version, 4 starts, 2 faults | `TypeOK`, `AppliedOnce`, `AppliedInOrder`, `SuccessIsComplete` |
| `Analytics` | every history of 2 sales of 2 ticket types, 4 moments, 8 events, one reopened sale; 4 periods, 2 limits | `FunnelMatchesTables`, `FunnelCascades`, `SurvivalAddsUp`, `WindowsPartition`, `DemandAddsUp`, `ExportsAgree` |

Bounds and why they are enough. Sales interact only through the stock of a ticket, so two
sales and a stock that one and a half of them exhaust show every competition; two tickets
show that a reservation is all or nothing. Two faults allow a crash during the handling of a
redelivery. In `System` one fault suffices for a second worker to reopen a sale, and two gates
for one ticket. Three calls are one that leaves something behind, one that is misled and one
that waits for the mutex. Two events and a batch of two show a batch that is partly published
when it is undone. `MaxAttempts` is the code's 5. Three transactions and two sales show each of the six
deadlocks that `KnownDeadlocks` names (each was seen to be necessary there), the longest of which
needs three; the sales name the same ticket types in opposite orders. That more transactions have no
other deadlocks is not for the bound to show, and is proved (section 5). `Ttl`, `MaxWait` and `Burst` are
at the edge of `TtlAssumption`, where one tick less would be noticed. Four starts are two runners that
overlap and two restarts. Four moments and windows of one and two show a border of a
window, empty windows between two sales, and every order of the three clocks; `MaxSeries` stands for
the limit of 500 windows. Histories are short, so that a series has few windows and an analysis few
observations; that the split of a series and the percentile ranks are right for any number is proved
(`TestWindowsBound` and `RankIsPercentile` in `AnalyticsProofs`).

The counters bounded by a constant are `faults` (`MaxFaults`), `published` (`MaxCopies`),
`Requests`, `runs` (`MaxRuns`), the clocks (`MaxTime`) and the length of a history (`MaxEvents`,
`MaxReopened`); nothing else is cut. Deadlock is not checked where an instance ends: its
sales, calls, ticks and faults are used up. `RowLocks` never ends, and is checked.

Every property of a passing run has a mutant: a definition of the same module, marked
`Mutant:`, that changes one operation the way a plausible mistake would, under which TLC
finds the property violated.

Fairness. `WF` of each worker, publisher and retrier step: the loops of `main` and the
tickers of `Run` and `RunEmailRetries` call again whatever happened, handlers run under
timeouts, and a stopped process is started again by whoever operates it (no restart policy is in
`docker-compose.yml` for the worker; the liveness runs assume an operator). `WF` of
`BecomeDue`: time passes. `FairSystemSpec` adds the publisher's ticker for each sale. In
`PublishConfirm`, `WF` of each call's steps is the Go scheduler
and the starvation-free `sync.Mutex`, and `WF` of the broker's steps is a broker that answers
while the connection lasts. No fairness is assumed of clients, payments, the provider or
faults.

## 4. Where the code departs from what it says

Two runs end in a counterexample; PROJECT.json gives the source lines and quotations.

1. Two lines of one ticket: both are taken from the stock, one is stored, a failed payment
   returns one (`SalesRepeatedTicket`).
2. On a lost connection `drainPublishNotifications` does not end, and the mutex stays locked
   (`PublishClosed`): the API hangs where it should answer `503`.

The other departures are the premises of properties that hold; without the premise TLC finds
the counterexample:

3. With two worker processes, a message requeued while its handler still runs reopens a sale
   that has been paid; it can be paid again. `SettlementsBounded` says how often: once for each
   fault. One process is safe: proved.
4. The late confirmation of a cancelled call is taken for that of the next: `NilMeansEnqueued`
   holds only while no call was cancelled.
5. A fifth failure counted by the worker leaves a notification `FAILED`, with no retry and no
   `DEAD_LETTER`: the third outcome of `EmailedOrGivenUp`.
6. A delivery that runs into its timeout leaves its notification `PENDING`, which no retry
   selects: the exception of `UnsentIsOnRecord`.
7. The `select` of `waitForPublishOutcome` may take the confirmation of a message whose return
   is ready too, so that an unroutable message is reported as published (`Select`;
   `OutboxPublisher` is checked with such an outcome).
8. `ticketEmailAlreadySent` knows `SENT` only: after a delivery report a second
   `SALE_COMPLETED` sends the tickets again (`AlreadySent`; `EmailsBounded` allows one email
   for each message).
9. Transactions deadlock in six ways (`KnownDeadlocks`): a reservation with a payment or delivery of
   the same customer; two reservations; a webhook with the creation of an intent; two that mark
   the tickets of one sale as emailed; the cleaners of two workers; and a delivery, a retrier (or
   cleaner, with somebody who marks tickets) and a gate, no two of which could deadlock. These are the
   waits without which there is no deadlock; a circle that goes through one of them may be longer, as
   when a gate waits for a payment of another event which waits for the customer that a reservation
   of the first event holds. PostgreSQL aborts one transaction; a reservation or a delivery that is
   chosen goes to the dead letters.
10. In analytics: the priors of the conversion stages sum over all window sizes, so that each line
    is counted once per size (`ExportsAgree` states it; `docs/analytics-export.md` calls `trials` the "number
    of items that reached the previous stage"); a cohort begins at the earlier of sale and line;
    a sale reset by a repeated request after tickets were issued makes the funnel rise
    (the exception of `FunnelCascades`); a failed sale counts as never pending, since the export
    knows only the present status; `LIMIT` cuts events, not sales.

## 5. The proofs

`SalesProofs` proves, from `SalesAssumption` alone (finitely many sales, natural stock and
quantities; any number of workers, tickets, providers, requests and faults):

- `TypeCorrect`: `TypeOK`, from `TypeInv`, which adds that `pc` and `handling` agree.
- `Oversell`: `NeverOversold`. Not inductive by itself: a reservation adds `StoredItems(s)` to
  what is held but takes `Taken(r, t)`; that the first is at most the second needs that stored
  items come from the request of the sale (`ItemsFromRequest`) and that a sale which has
  a row or a worker has a published request (`PublishedFirst`). `StockInv` is their
  conjunction. `HeldUnits` is a set of pairs so that the theorems about finite cardinality
  apply; the counting lemmas (`ReserveBound`, `ReleaseExact`, ...) say what a step adds
  or removes.
- `Acked`: `AckedIsPersisted`, by the invariant that a worker about to ack a delivery handles a
  sale with a row (`AckJustified`) and that no step removes a row.

With `OneWorker` as an added assumption (the deployment of `docker-compose.yml`):

- `Implements`: `Spec => LifecycleSpec`. The step that could break the refinement is
  `PersistSale` on a sale which meanwhile got a row. `AbsentStillTrue` says it cannot: the only
  action that inserts a row is the same worker's. With two workers this invariant fails,
  which is departure 3.
- `SettlementAgrees`: `SettlementConsistent`, from `SettlementInv` (statuses agree, an open or
  settled intent names the provider of the payment, one event of the right type).

With `OneWorker` and `OneLine` (no request names a ticket twice, departure 1 otherwise):

- `Conservation`: `StockConserved`, the exact form of the counting argument.

`ApiProofs` proves, for any clients, spellings, waiting requests, burst, price and times that
satisfy the assumptions of `RateLimiter`:

- `LimiterTypeCorrect`: `TypeOK`. It is inductive because it says of each bucket that it was last
  drawn from at most `MaxWait` after the time at which its visitor is said to have been seen.
- `LimiterNeverForgets`: every behaviour is one of `TokenBuckets`. With `TtlAssumption`
  (`Ttl - MaxWait + 1 >= Capacity`), the part of `TypeOK` above makes every bucket that `prune` drops
  a full one. The code's numbers are five minutes against a burst that fills up within seconds.

and, for all limits that satisfy `ConstantsFit` (those of the code do: 10^6 x 10^9
is far below 2^63, and the limits of the API are those of the tables):

- `AcceptedPayable`: `AcceptedIsPayable`, by `TotalInv`: the API's totals are exact and within the
  limit, and `persistSale` follows them line by line. The subtraction in the comparison of
  `validateSaleRequest` is what keeps the sum in a word; that quantity and price are bounded before they are
  multiplied keeps the product there. No run checks this module: the code's limits are beyond
  TLC's integers of 32 bits.

The second half of `SalesProofs` is about `SalesSystem` and proves, for any number of workers, gates, sales, ticket types, requests and faults,
and from no other assumption than those of the modules:

- `SystemTypeCorrect`: `SystemTypeOK`.
- `Settlements`: `SettlementsBounded`. A sale is reopened by a worker that has read that it is
  absent, while another inserted it. The broker leaves a message to one open channel
  (`OneDelivery`), so the first worker is one whose delivery was taken back, at the price of a
  fault: `Detached(s)` has at most `faults` members. `SettlementCount` adds settlements so far,
  workers that may still reopen the sale (`Reopeners`) and whether it can be settled now, and bounds
  the sum by `1 + faults`. The sum is the inductive form: each step moves a unit from one term to the next.
- `Admission`: `AdmittedWithinStock`. A sale that was paid and reopened took its units from the
  stock twice (`TakenTwice`), and if it fails gives them back once. `Ledger` therefore counts
  them beside what is available and held; who is inside has a unit of one or the other.
- `Promised`: `SystemSpec => PromiseSpec`. Every action maps to `Pay`, `Issue`, `Admit` or a
  stutter. `Pay` needs that a sale which was paid once is not announced with other units, and that is
  `FirstReservation`: `sale_items` keeps what the first reservation wrote, whoever reopens the sale.

`OutboxProofs` proves, for any number of publishers, any finite set of events and any size of a
batch, `OutboxInvariant`. Two transactions lock no row in common (`OneHolder`), nobody else changes a
locked row (`SelectedOpen`), a transaction handles each of its rows once (`BatchInv`), and `CopiesInv`
splits the copies of an event by whether some publisher has it reported and not committed: those are
at most one more than the faults, all others at most the faults. From it follow
`OutboxTypeCorrect`, `Copies`, `NeverStuck` and, step by step, `RelayImplemented`: `OutboxPublisher` implements
`EventRelay`.

`PublishProofs` proves, for any number of calls, cancelled, unroutable or neither:

- `MutualExclusion` and `PublishTypeCorrect`, whoever is cancelled;
- `NilIsTrue` and `ErrorIsTrue`: nothing compares delivery tags, and nil and an error are true all the
  same while no call was cancelled. The reason is `FlowInv`: then what is under way is the
  message of the call that waits, in one of four places (`Written`, `InBroker`,
  `OnTheWire`, `Arrived`), its return ahead of its confirmation; a return that nobody took is
  drained before the next message is written. After a cancellation `WaitingForItsOwn` is false.

`DatabaseProofs` proves, for any images, files, number of runners and restarts:

- `MigrateOnce`: `AppliedOnce`. `MigrateInv` says for each runner that what it has passed is recorded
  and what it is about to commit is not, although it read the first long ago and other processes
  run meanwhile; the primary key lets only one of them hold the INSERT of a version (`OneInsert`), and
  of the files of a recorded version exactly one is in effect (`EffectsInv`).
- `MigrateSuccess`: `SuccessIsComplete`. That the counts which the runners report do not exceed the
  versions needs a deal of the recorded versions to the runs that count them (`Dealt`), and
  that the cardinalities of disjoint sets add up (`CountsAddUp`).
- `MigrateInOrder`: `AppliedInOrder`, from the assumption `NoneInserted`: no image has a version,
  absent from another image, below one that they share. The code does not see to it. An old image
  that runs beside a new one would break the order otherwise.
- `MigrateTypeCorrect`: `TypeOK`.

`TicketProofs` proves, for any number of sales, workers, retriers, messages and faults and any size of a
batch:

- `TicketTypeCorrect`: `TypeOK`.
- `SentTrue`: `SentIsTrue`, by `InOrder` (tickets, email, mark, in this order, for rows, consumers and
  uncommitted marks) and `Holding` (a row that a retrier holds stays `FAILED`, and is held by it alone).
- `Emails`: `EmailsBounded`. `Accounted` adds to the emails that are out those that may come: the
  messages in the queue, the consumers that may still send or record a failure (`Sending`) and the
  row that a retrier may send (`RetryOpen`). The sum never exceeds messages published plus faults:
  each step of Handle moves a unit from one term to the next, a batch that is undone puts one
  back for its fault.
- `OnRecord`: `UnsentIsOnRecord`. `Pursued` says that an unsent email has a message, a consumer or a recorded
  failure at every moment; the step that could break it is the UPDATE of a notification that
  is not there, and `InOrder` says that retention deletes none whose email is not out.

and, for any number of transactions, sales, customers, events and ticket types, from
`LocksAssumption`:

- `LocksInvariant`: no two transactions hold locks that conflict (`NoConflict`), and `Orderly`: each lock,
  held or still to be asked for, `Fits` behind those before it. It is `Backed` by the locks that
  keep rivals away (an UPDATE of ticket types by the event, the intent and the email of a sale by
  the sale, issued tickets that a retrier marks by their email), and it `Climbs`: it is for a row
  already locked, or comes in the order of the tables, or in that of the one operation that has an order of
  its own. A program is never looked at as a whole: `Planned` is about the request at each position
  and those before it, so that it is kept when the first one is granted (`TakePlanned`), when
  programs are put together (`Join`), and whatever the order of a scan (`Scanned`).
- `ReleaseGoesOn`: `ReleaseNeverWaits`. Two transactions that want to change one ticket type want
  the event too, one of them with the mode that excludes the other (`TicketsConflict`).
- `SixDeadlocks`: `KnownDeadlocks`. A deadlock is a set of transactions each of which waits for
  another one of it; no path or closure is needed, and no induction over the length of a
  circle. `Rank` is the place in the order of the tables where a transaction waits. Along
  what transactions wait for it rises (`Rises`), unless they meet in one of the five ways in which two
  deadlock, or go from an email to an issued ticket, from there to an event and back to an email. Emails and issued
  tickets therefore have no fixed place: if the circle is open between deliveries and
  emails they come before all other tables, otherwise behind them (`Open`). Ranks are bounded, so
  that a set in which they rise for ever does not exist (`NoneRises`).

`AnalyticsProofs` is about the analyses of any events, `HistoryProofs` applies it to the events of the
tables, for any number of sales, ticket types and providers, any moments, any times written by the
API and the payment providers, any window sizes, intervals, periods and limits that the assumptions
allow. From the invariant `HistoryInv` (`HistoryInvariant`), whose parts are

- `HistoryTyped`: `HistoryType`. That stock stays natural needs the condition of the UPDATE; and
- `HistoryOrdered`: `HistoryInOrder`, which tells the order in which the database's own clock
  stamped the rows of a sale, where the API and the provider stamp as they like

(neither is listed in a run: they are what the proofs need), follow the invariants of the
`Analytics` run:

- `SurvivalSound`: `SurvivalAddsUp`. Every duration is in one interval (`OneInterval`), so
  that events and censorings of an interval are what leaves the set at risk. The rank with which
  `nearestRankPercentile` looks up a duration is the least number of observations that is enough
  (`RankRounds`), and counting puts a duration at that rank (`RankIsPercentile`).
- `WindowsSound`: `WindowsPartition`, from the arithmetic of division that Truncate does in both
  directions from zero.
- `DemandSound`: `DemandAddsUp`. A series is dense from the first window with a sale to the
  last; each sale is in one of its windows (`SeriesTotal`).
- `FunnelSound`: `FunnelMatchesTables`. The funnel is a fold over events in the order of times of
  three clocks, and an event of a sale may come before the sale. `FunnelSays(f, S)` says what the
  fold `f` knows after the events `S`, in whatever order they came: of each line that one of them
  touched, what the events of its sale so far say, and the defaults which a line will inherit that
  comes later. One lemma for each kind of event shows that the next one keeps it; only for the
  times that the database wrote does it need the order, from `HistoryInOrder`.
- `CascadesSound`: `FunnelCascades`, from the former: who is issued is paid unless reset, who is
  paid is pending, and the lines of a segment add up over the segments of a size.
- `ExportsSound`: `ExportsAgree`. Each of its counts is a sum over events on one side and over rows
  on the other. The events of a kind are a disjoint union over the sales, and sums over such unions
  add up (`SumUnion`, `SumOfSums`).

A recursive definition is beyond the induction theorems of the library, whose parameter is an operator.
These proofs do without: a set of numbers, or of finite sets, that is not empty has a least element, so
that a counterexample has a least one. The folds of the community modules are recursive functions
underneath; `SumF`, the sum over a finite set in whatever order, and the folds over
sequences are unfolded from there.

All 31 invariants and the refinements that the passing runs check are theorems. Only model-checked is all
liveness (`AcceptedIsDecided`, `PaidGetsTickets`, `ReturnsWhileOpen`, `EventDecided`,
`EmailedOrGivenUp`), which is beyond this prover, as is `ENABLED`.

## 6. Not modelled

Authentication, signatures, queries, correlation metadata, observability, configuration and
the demo data generator have no state, or none that other parts depend on. Rows of
`customers` appear in `RowLocks`; in `Sales` only as a reason for which a handler may fail (`email` is
unique). Nothing expires a reservation that is never paid: the code has no such operation. The
floating point part of analytics and the format of its documents are left out, and so are an SMTP
exchange that never ends and what it keeps locked. The export reads events and inventory by
two queries without a common snapshot; the module takes both at one moment, because nothing in
the document relates them.

## 7. Plan

1. Emails joined to `SalesSystem`, if its instances stay small enough.
