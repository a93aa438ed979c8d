-------------------------------- MODULE Sales --------------------------------
(***************************************************************************)
(* The write side of the service: POST /sales accepts a sale and publishes  *)
(* sale.created; the worker reserves its tickets in one transaction; the    *)
(* payment endpoints settle it in another.                                  *)
(*                                                                          *)
(*   API     internal/httpapi/routes_sales.go, sales_service.go,            *)
(*           routes_payments.go, routes_webhooks.go, sales_store.go         *)
(*   worker  cmd/worker/main.go, internal/worker/sales_processor.go         *)
(*   tables  tickets, sales, sale_items, payments, payment_intents and the  *)
(*           rows a payment appends to outbox_events                        *)
(*                                                                          *)
(* One step is one database transaction or one exchange with the broker:    *)
(* every transaction here locks the row of its sale before it reads it and  *)
(* keeps it locked until the commit.  The one read the code takes outside   *)
(* of the transaction that depends on it, saleAlreadyProcessed, is a step   *)
(* of its own.                                                              *)
(***************************************************************************)
EXTENDS Integers, FiniteSets, Sequences

CONSTANTS
  Sale,         \* sale identifiers, drawn by the API with uuid.NewString
  NoSale,       \* what an idle worker handles
  Ticket,       \* ticket types
  Worker,       \* worker processes that consume sales.created.queue
  Provider,     \* payment providers named by clients
  Stock,        \* [Ticket -> Nat], tickets.available_quantity before any sale
  MaxQuantity,  \* events.MaxTicketQuantity, the largest quantity of one line
  Requests,     \* the bodies of POST /sales that clients may send
  MaxFaults     \* bound on crashes and lost connections of a behaviour

(***************************************************************************)
(* The lines of a request may name a ticket more than once.  kept[t] is the *)
(* quantity of the first line of t (0 if there is none), the one the table  *)
(* sale_items keeps; rest[t] is the total of its other lines.               *)
(***************************************************************************)
Request == [kept : [Ticket -> 0 .. MaxQuantity], rest : [Ticket -> Nat]]

NoRequest == [kept |-> [t \in Ticket |-> 0], rest |-> [t \in Ticket |-> 0]]

ASSUME SalesAssumption ==
  /\ IsFiniteSet(Sale)
  /\ NoSale \notin Sale
  /\ MaxQuantity \in Nat
  /\ Stock \in [Ticket -> Nat]
  /\ Requests \subseteq Request
  /\ MaxFaults \in Nat

VARIABLES
  request,      \* [Sale -> Request], the body of the sale.created message
  message,      \* [Sale -> where that message is]
  pc,           \* [Worker -> the point the handler of the message reached]
  handling,     \* [Worker -> the sale of the delivery it handles]
  connected,    \* [Worker -> is its AMQP channel open]
  available,    \* [Ticket -> tickets.available_quantity]
  sale,         \* [Sale -> sales.status, "NONE" when there is no row]
  items,        \* [Sale -> [Ticket -> sale_items.quantity, 0 for no row]]
  payment,      \* [Sale -> the row of payments]
  intent,       \* [Sale -> the row of payment_intents]
  outbox,       \* [Sale -> types of the outbox_events rows, oldest first]
  faults        \* crashes and lost connections so far

brokerVars == <<request, message>>
workerVars == <<pc, handling, connected, faults>>
dbVars     == <<available, sale, items, payment, intent, outbox>>
vars       == <<brokerVars, workerVars, dbVars>>

SaleStatus    == {"NONE", "PENDING_PAYMENT", "COMPLETED", "FAILED"}
PaymentStatus == {"NONE", "PENDING", "APPROVED", "FAILED"}
IntentStatus  == {"NONE", "PENDING", "SUCCEEDED", "FAILED"}
EventType     == {"SALE_COMPLETED", "SALE_FAILED"}

\* "queued": ready; "delivered": unacked, at the worker that handles it;
\* "acked": gone; "dead": routed to sales.dlq, which nothing consumes.
MessageState == {"none", "queued", "delivered", "acked", "dead"}

\* "received": before saleAlreadyProcessed; "absent": it found no such sale;
\* "ack", "nack": the handler returned nil or an error.
WorkerState == {"idle", "received", "absent", "ack", "nack"}

TypeOK ==
  /\ request   \in [Sale -> Request]
  /\ message   \in [Sale -> MessageState]
  /\ pc        \in [Worker -> WorkerState]
  /\ handling  \in [Worker -> Sale \cup {NoSale}]
  /\ connected \in [Worker -> BOOLEAN]
  /\ available \in [Ticket -> Nat]
  /\ sale      \in [Sale -> SaleStatus]
  /\ items     \in [Sale -> [Ticket -> 0 .. MaxQuantity]]
  /\ payment   \in [Sale -> [status : PaymentStatus, provider : Provider \cup {"pending"}]]
  /\ intent    \in [Sale -> [status : IntentStatus, provider : Provider \cup {"pending"}]]
  /\ outbox    \in [Sale -> Seq(EventType)]
  /\ faults    \in 0 .. MaxFaults

Init ==
  /\ request   = [s \in Sale |-> NoRequest]
  /\ message   = [s \in Sale |-> "none"]
  /\ pc        = [w \in Worker |-> "idle"]
  /\ handling  = [w \in Worker |-> NoSale]
  /\ connected = [w \in Worker |-> TRUE]
  /\ available = Stock
  /\ sale      = [s \in Sale |-> "NONE"]
  /\ items     = [s \in Sale |-> [t \in Ticket |-> 0]]
  /\ payment   = [s \in Sale |-> [status |-> "NONE", provider |-> "pending"]]
  /\ intent    = [s \in Sale |-> [status |-> "NONE", provider |-> "pending"]]
  /\ outbox    = [s \in Sale |-> <<>>]
  /\ faults    = 0

-----------------------------------------------------------------------------
(* The API accepts a sale.                                                  *)

\* validateSaleRequest compares each line, on its own, with the stock it sees:
\* the further lines of a ticket are split so that each of them passes.
VisibleStock(r) ==
  /\ \E t \in Ticket : r.kept[t] > 0
  /\ \A t \in Ticket : r.kept[t] <= available[t]
  /\ \A t \in Ticket : r.rest[t] > 0 => r.kept[t] > 0

\* POST /sales: the broker takes the message.  (The client is told 202, or 503
\* when the confirmation is lost; the message is in the queue all the same.)
CreateSale(s, r) ==
  /\ message[s] = "none"
  /\ VisibleStock(r)
  /\ request' = [request EXCEPT ![s] = r]
  /\ message' = [message EXCEPT ![s] = "queued"]
  /\ UNCHANGED <<workerVars, dbVars>>

-----------------------------------------------------------------------------
(* The worker: cmd/worker/main.go runs one delivery at a time.              *)

\* The broker hands the message of s to an idle worker.
Deliver(w, s) ==
  /\ pc[w] = "idle"
  /\ connected[w]
  /\ message[s] = "queued"
  /\ message'  = [message EXCEPT ![s] = "delivered"]
  /\ handling' = [handling EXCEPT ![w] = s]
  /\ pc'       = [pc EXCEPT ![w] = "received"]
  /\ UNCHANGED <<request, connected, faults, dbVars>>

\* Mutant: the handler skips the query.
AlwaysAbsent(w) ==
  /\ pc[w] = "received"
  /\ pc' = [pc EXCEPT ![w] = "absent"]
  /\ UNCHANGED <<brokerVars, handling, connected, faults, dbVars>>

\* saleAlreadyProcessed, a query outside of the transaction of persistSale.
SaleAlreadyProcessed(w) ==
  /\ pc[w] = "received"
  /\ pc' = [pc EXCEPT ![w] = IF sale[handling[w]] = "NONE" THEN "absent" ELSE "ack"]
  /\ UNCHANGED <<brokerVars, handling, connected, faults, dbVars>>

\* What the lines of a request take of a ticket, all of them together.
Taken(r, t) == r.kept[t] + r.rest[t]

\* Mutant: the UPDATE without available_quantity >= $2 in its WHERE.
UnguardedUpdate(r) == TRUE

\* The guarded UPDATE of each line, in a transaction that is all or nothing.
EnoughTickets(r) == \A t \in Ticket : Taken(r, t) <= available[t]

\* INSERT INTO sale_items ... ON CONFLICT DO NOTHING keeps the first line of a
\* ticket, and whatever an earlier reservation of the sale stored.
StoredItems(s) ==
  [t \in Ticket |-> IF items[s][t] > 0 THEN items[s][t] ELSE request[s].kept[t]]

\* Mutant: a sale that has a row already takes no tickets again.
TakenOnce(w) ==
  LET s == handling[w]
      r == request[s]
  IN  /\ pc[w] = "absent"
      /\ EnoughTickets(r)
      /\ available' = [t \in Ticket |-> available[t] - IF sale[s] = "NONE" THEN Taken(r, t) ELSE 0]
      /\ sale'      = [sale EXCEPT ![s] = "PENDING_PAYMENT"]
      /\ items'     = [items EXCEPT ![s] = StoredItems(s)]
      /\ payment'   = [payment EXCEPT ![s].status = "PENDING"]
      /\ \E result \in {"ack", "nack"} : pc' = [pc EXCEPT ![w] = result]
      /\ UNCHANGED <<brokerVars, handling, connected, faults, intent, outbox>>

\* persistSale from Begin to Commit.  When the answer to the COMMIT is lost the
\* transaction is committed and the handler still returns an error.
PersistSale(w) ==
  LET s == handling[w]
      r == request[s]
  IN  /\ pc[w] = "absent"
      /\ EnoughTickets(r)
      /\ available' = [t \in Ticket |-> available[t] - Taken(r, t)]
      /\ sale'      = [sale EXCEPT ![s] = "PENDING_PAYMENT"]
      /\ items'     = [items EXCEPT ![s] = StoredItems(s)]
      /\ payment'   = [payment EXCEPT ![s].status = "PENDING"]
      /\ \E result \in {"ack", "nack"} : pc' = [pc EXCEPT ![w] = result]
      /\ UNCHANGED <<brokerVars, handling, connected, faults, intent, outbox>>

\* Mutant: the loop of main acknowledges whatever the handler returns.
ErrorIsAcked(w) ==
  /\ pc[w] \in {"received", "absent"}
  /\ pc' = [pc EXCEPT ![w] = "ack"]
  /\ UNCHANGED <<brokerVars, handling, connected, faults, dbVars>>

\* A query fails or the tickets do not suffice: nothing is committed.  Errors
\* of the database (timeouts, deadlocks, the unique email of customers) may
\* come at any statement.
HandlerFails(w) ==
  /\ pc[w] \in {"received", "absent"}
  /\ pc' = [pc EXCEPT ![w] = "nack"]
  /\ UNCHANGED <<brokerVars, handling, connected, faults, dbVars>>

\* Mutant: the loop goes on after an error without a Nack.
NeverNacked(w) ==
  /\ pc[w] \in {"ack", "nack"}
  /\ message'  = IF connected[w] /\ pc[w] = "ack"
                 THEN [message EXCEPT ![handling[w]] = "acked"]
                 ELSE message
  /\ pc'       = [pc EXCEPT ![w] = "idle"]
  /\ handling' = [handling EXCEPT ![w] = NoSale]
  /\ UNCHANGED <<request, connected, faults, dbVars>>

\* delivery.Ack, or delivery.Nack(false, false) which dead-letters the message.
\* On a closed channel neither reaches the broker, and the error is only logged.
Answer(w) ==
  /\ pc[w] \in {"ack", "nack"}
  /\ message' = IF connected[w]
                THEN [message EXCEPT ![handling[w]] = IF pc[w] = "ack" THEN "acked" ELSE "dead"]
                ELSE message
  /\ pc'       = [pc EXCEPT ![w] = "idle"]
  /\ handling' = [handling EXCEPT ![w] = NoSale]
  /\ UNCHANGED <<request, connected, faults, dbVars>>

\* The broker puts the unacked message of a closed channel back into the queue.
Requeued(w) ==
  IF connected[w] /\ pc[w] # "idle"
  THEN [message EXCEPT ![handling[w]] = "queued"]
  ELSE message

\* The AMQP connection is lost; the handler goes on with its delivery.
LoseConnection(w) ==
  /\ connected[w]
  /\ faults < MaxFaults
  /\ faults'    = faults + 1
  /\ message'   = Requeued(w)
  /\ connected' = [connected EXCEPT ![w] = FALSE]
  /\ UNCHANGED <<request, pc, handling, dbVars>>

\* The process dies between two steps of the handler.
Crash(w) ==
  /\ faults < MaxFaults
  /\ faults'    = faults + 1
  /\ message'   = Requeued(w)
  /\ connected' = [connected EXCEPT ![w] = FALSE]
  /\ pc'        = [pc EXCEPT ![w] = "idle"]
  /\ handling'  = [handling EXCEPT ![w] = NoSale]
  /\ UNCHANGED <<request, dbVars>>

\* The loop of main returns when the delivery channel is closed; the process is
\* started again and connects again.
Restart(w) ==
  /\ pc[w] = "idle"
  /\ ~connected[w]
  /\ connected' = [connected EXCEPT ![w] = TRUE]
  /\ UNCHANGED <<brokerVars, pc, handling, faults, dbVars>>

-----------------------------------------------------------------------------
(* Payments.  Every transaction locks the row of the sale first; amounts    *)
(* that differ from total_amount are refused and change nothing.            *)

\* Mutant: a failed payment does not call releaseReservedTickets.
NothingReleased(s) == available

\* releaseReservedTickets: the quantities that sale_items holds for the sale.
Released(s) == [t \in Ticket |-> available[t] + items[s][t]]

\* Mutant: processPaymentTx settles a settled sale again.
SettledAgain(s, p, status) ==
  LET saleStatus == IF status = "FAILED" THEN "FAILED" ELSE "COMPLETED"
  IN  /\ sale[s] # "NONE"
      /\ available' = IF status = "FAILED" THEN Released(s) ELSE available
      /\ payment'   = [payment EXCEPT ![s] = [status |-> status, provider |-> p]]
      /\ sale'      = [sale EXCEPT ![s] = saleStatus]
      /\ outbox'    = [outbox EXCEPT ![s] = Append(@, IF saleStatus = "COMPLETED"
                                                     THEN "SALE_COMPLETED" ELSE "SALE_FAILED")]
      /\ UNCHANGED items

\* processPaymentTx, common to both payment endpoints.
ProcessPaymentTx(s, p, status) ==
  LET saleStatus == IF status = "FAILED" THEN "FAILED" ELSE "COMPLETED"
  IN  /\ sale[s] = "PENDING_PAYMENT"
      /\ available' = IF status = "FAILED" THEN Released(s) ELSE available
      /\ payment'   = [payment EXCEPT ![s] = [status |-> status, provider |-> p]]
      /\ sale'      = [sale EXCEPT ![s] = saleStatus]
      /\ outbox'    = [outbox EXCEPT ![s] = Append(@, IF saleStatus = "COMPLETED"
                                                     THEN "SALE_COMPLETED" ELSE "SALE_FAILED")]
      /\ UNCHANGED items

\* Mutant: CreatePaymentIntent leaves the provider of the payment alone.
IntentOnly(s, p) ==
  /\ sale[s] = "PENDING_PAYMENT"
  /\ intent'  = [intent EXCEPT ![s] = [status |-> "PENDING", provider |-> p]]
  /\ UNCHANGED <<brokerVars, workerVars, available, sale, items, payment, outbox>>

\* POST /sales/:saleId/payment-intents: one intent a sale, which keeps its id
\* when the customer comes back with another provider.
CreatePaymentIntent(s, p) ==
  /\ sale[s] = "PENDING_PAYMENT"
  /\ intent'  = [intent EXCEPT ![s] = [status |-> "PENDING", provider |-> p]]
  /\ payment' = [payment EXCEPT ![s].provider = p]
  /\ UNCHANGED <<brokerVars, workerVars, available, sale, items, outbox>>

\* POST /sales/:saleId/payments, which knows nothing of payment intents.
ProcessPayment(s, p, status) ==
  /\ ProcessPaymentTx(s, p, status)
  /\ UNCHANGED <<brokerVars, workerVars, intent>>

\* POST /webhooks/payments.  A replay (the sale already settled the way the
\* webhook says) is answered without a commit: it is no step of the model.
ProcessPaymentWebhook(s, p, status) ==
  /\ intent[s].status # "NONE"
  /\ intent[s].provider = p
  /\ ProcessPaymentTx(s, p, status)
  /\ intent' = [intent EXCEPT ![s].status = IF status = "APPROVED" THEN "SUCCEEDED" ELSE "FAILED"]
  /\ UNCHANGED <<brokerVars, workerVars>>

-----------------------------------------------------------------------------
ApiNext ==
  \E s \in Sale :
    \/ \E r \in Requests : CreateSale(s, r)
    \/ \E p \in Provider :
         \/ CreatePaymentIntent(s, p)
         \/ \E status \in {"APPROVED", "FAILED"} :
              \/ ProcessPayment(s, p, status)
              \/ ProcessPaymentWebhook(s, p, status)

WorkerStep(w) ==
  \/ \E s \in Sale : Deliver(w, s)
  \/ SaleAlreadyProcessed(w)
  \/ PersistSale(w)
  \/ HandlerFails(w)
  \/ Answer(w)
  \/ Restart(w)

Fault(w) == LoseConnection(w) \/ Crash(w)

Next == ApiNext \/ \E w \in Worker : WorkerStep(w) \/ Fault(w)

Spec == Init /\ [][Next]_vars

\* The worker's loop takes every delivery up and finishes it (each handler runs
\* under a timeout of 15s), and a worker that stopped is started again.
FairSpec == Spec /\ \A w \in Worker : WF_vars(WorkerStep(w))

-----------------------------------------------------------------------------
(* Properties.                                                              *)

\* The tickets of type t that reserved and completed sales hold, one by one.
HeldUnits(t) ==
  {u \in Sale \X (1 .. MaxQuantity) :
     /\ sale[u[1]] \in {"PENDING_PAYMENT", "COMPLETED"}
     /\ u[2] <= items[u[1]][t]}

\* No interleaving of reservations, redeliveries and failed payments hands out
\* more tickets than there were: what is for sale and what sales hold never
\* exceeds the stock.  (Guarded UPDATE of persistSale, releaseReservedTickets.)
NeverOversold ==
  \A t \in Ticket : available[t] + Cardinality(HeldUnits(t)) <= Stock[t]

\* Nor does any ticket get lost: each one is for sale or held by a sale.
StockConserved ==
  \A t \in Ticket : available[t] + Cardinality(HeldUnits(t)) = Stock[t]

\* When every sale failed or was never reserved, the whole stock is back.
\* (README.md:196: a failed payment returns the reservation to the stock.)
FailedSalesRestoreStock ==
  (\A s \in Sale : sale[s] \in {"NONE", "FAILED"}) => available = Stock

\* Sale, payment, payment intent and outbox always tell the same story: the
\* payment is approved iff the sale is completed and failed iff it failed; an
\* intent is settled only with its sale and by the provider that the payment
\* names, and while both are open they name the same provider; the outbox holds
\* exactly one event of a settled sale, of the right type, none of an open one.
\* (docs/failure-scenarios.md:30: one payment, one SALE_COMPLETED event.)
SettlementConsistent ==
  \A s \in Sale :
    /\ sale[s] = "NONE" <=> payment[s].status = "NONE"
    /\ sale[s] = "PENDING_PAYMENT" <=> payment[s].status = "PENDING"
    /\ sale[s] = "COMPLETED" <=> payment[s].status = "APPROVED"
    /\ sale[s] = "FAILED" <=> payment[s].status = "FAILED"
    /\ intent[s].status = "SUCCEEDED" => sale[s] = "COMPLETED"
    /\ intent[s].status = "FAILED" => sale[s] = "FAILED"
    /\ \/ intent[s].status \in {"SUCCEEDED", "FAILED"}
       \/ intent[s].status = "PENDING" /\ sale[s] = "PENDING_PAYMENT"
       => payment[s].provider = intent[s].provider
    /\ outbox[s] = CASE sale[s] = "COMPLETED" -> <<"SALE_COMPLETED">>
                     [] sale[s] = "FAILED"    -> <<"SALE_FAILED">>
                     [] OTHER                 -> <<>>

\* The worker acknowledges a message only when the sale is in the database: a
\* crash or a lost connection at any point loses no accepted sale.
AckedIsPersisted ==
  \A s \in Sale : message[s] = "acked" => sale[s] # "NONE"

\* Every accepted sale is eventually reserved or set aside in the dead letter
\* queue, however the worker crashes, as long as it does not crash forever.
AcceptedIsDecided ==
  \A s \in Sale :
    message[s] = "queued" ~> message[s] \in {"acked", "dead"}

\* Sales implements the abstract life cycle of module SaleLifecycle.
Lifecycle == INSTANCE SaleLifecycle
LifecycleSpec == Lifecycle!Spec
=============================================================================
