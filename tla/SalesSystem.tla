----------------------------- MODULE SalesSystem -----------------------------
(***************************************************************************)
(* The way of a sale from POST /sales to the door of the event: Sales,      *)
(* composed with what follows a payment.                                    *)
(*                                                                          *)
(*   relay   the outbox publisher announces SALE_COMPLETED, perhaps twice   *)
(*           (internal/outbox/publisher.go; in detail: OutboxPublisher)     *)
(*   worker  the loop that reserves sales also issues the tickets of        *)
(*           completed ones, one delivery of either queue at a time         *)
(*           (cmd/worker/main.go, internal/worker/                          *)
(*           ticket_delivery_processor.go; emails: TicketDelivery)          *)
(*   gates   POST /sales-events/:id/check-ins reads the ticket and its sale *)
(*           and then inserts the check-in (routes_checkins.go,             *)
(*           CheckInTicket in sales_store.go)                               *)
(*                                                                          *)
(* A gate's read locks the row of the ticket but not that of the sale, so   *)
(* that worker and payments may act between the read and the insert.        *)
(***************************************************************************)
EXTENDS Sales, SequencesExt

CONSTANTS
  Gate,         \* requests for a check-in that run at the same time
  NoUnit        \* what a gate that reads no ticket holds

\* A single ticket: deterministicIssuedTicketID of sale, ticket and sequence.
Unit == Sale \X Ticket \X (1 .. MaxQuantity)

ASSUME SystemAssumption == NoUnit \notin Unit

VARIABLES
  relayed,      \* [Sale -> positions of outbox[s] that the relay is done with]
  completed,    \* [Sale -> SALE_COMPLETED messages ready in their queue]
  delivering,   \* [Worker -> the sale whose SALE_COMPLETED it handles]
  verdict,      \* [Worker -> what it will answer to that delivery]
  lost,         \* sales whose SALE_COMPLETED ended in a dead letter
  issued,       \* rows of issued_tickets
  gate,         \* [Gate -> the ticket its open transaction read and locked]
  admitted      \* [Unit -> rows of ticket_check_ins]

relayVars    == <<relayed, completed>>
deliveryVars == <<delivering, verdict, lost>>
doorVars     == <<gate, admitted>>
afterVars    == <<relayVars, deliveryVars, issued, doorVars>>
systemVars   == <<vars, afterVars>>

SystemTypeOK ==
  /\ TypeOK
  /\ \A s \in Sale : relayed[s] \subseteq DOMAIN outbox[s]
  /\ completed  \in [Sale -> Nat]
  /\ delivering \in [Worker -> Sale \cup {NoSale}]
  /\ verdict    \in [Worker -> {"none", "ack", "nack"}]
  /\ \A w \in Worker : delivering[w] # NoSale => pc[w] = "idle"
  /\ \A w \in Worker : verdict[w] # "none" => delivering[w] # NoSale
  /\ lost       \subseteq Sale
  /\ issued     \subseteq Unit
  /\ gate       \in [Gate -> Unit \cup {NoUnit}]
  /\ admitted   \in [Unit -> Nat]

SystemInit ==
  /\ Init
  /\ relayed    = [s \in Sale |-> {}]
  /\ completed  = [s \in Sale |-> 0]
  /\ delivering = [w \in Worker |-> NoSale]
  /\ verdict    = [w \in Worker |-> "none"]
  /\ lost       = {}
  /\ issued     = {}
  /\ gate       = [g \in Gate |-> NoUnit]
  /\ admitted   = [u \in Unit |-> 0]

-----------------------------------------------------------------------------
(* The relay.  Each event is selected on its own, retries included, so that *)
(* events of one sale may overtake each other.                              *)

\* The queue takes the message and the event is PUBLISHED.
Publish(s, i) ==
  /\ relayed'   = [relayed EXCEPT ![s] = @ \cup {i}]
  /\ completed' = [completed EXCEPT ![s] = @ + 1]

\* SALE_COMPLETED is published, or published in a batch that is undone, or its
\* attempts are used up; SALE_FAILED has no queue and is given up.
Relay(s, i) ==
  /\ i \in DOMAIN outbox[s] \ relayed[s]
  /\ \/ outbox[s][i] = "SALE_COMPLETED" /\ Publish(s, i) /\ UNCHANGED <<lost, faults>>
     \/ /\ outbox[s][i] = "SALE_COMPLETED"
        /\ faults < MaxFaults /\ faults' = faults + 1
        /\ completed' = [completed EXCEPT ![s] = @ + 1]
        /\ UNCHANGED <<relayed, lost>>
     \/ /\ relayed' = [relayed EXCEPT ![s] = @ \cup {i}]
        /\ lost' = IF outbox[s][i] = "SALE_COMPLETED" THEN lost \cup {s} ELSE lost
        /\ UNCHANGED <<completed, faults>>
  /\ UNCHANGED <<brokerVars, pc, handling, connected, dbVars,
                 delivering, verdict, issued, doorVars>>

-----------------------------------------------------------------------------
(* The worker, with two queues.                                             *)

Free(w) == pc[w] = "idle" /\ delivering[w] = NoSale

\* The loop of main takes a SALE_COMPLETED message up.
DeliverCompleted(w, s) ==
  /\ Free(w)
  /\ connected[w]
  /\ completed[s] > 0
  /\ completed'  = [completed EXCEPT ![s] = @ - 1]
  /\ delivering' = [delivering EXCEPT ![w] = s]
  /\ UNCHANGED <<vars, relayed, verdict, lost, issued, doorVars>>

\* The rows that issueTickets inserts: one for each unit of each item.
UnitsOf(s) == {u \in Unit : u[1] = s /\ u[3] <= items[s][u[2]]}

\* prepareTicketEmail commits: the tickets of a completed sale are issued, and
\* then the email goes out or not; a sale in any other state is skipped.
IssueTickets(w) ==
  LET s == delivering[w]
  IN  /\ s # NoSale
      /\ verdict[w] = "none"
      /\ \/ /\ sale[s] = "COMPLETED"
            /\ issued' = issued \cup UnitsOf(s)
            /\ \E answer \in {"ack", "nack"} : verdict' = [verdict EXCEPT ![w] = answer]
         \/ /\ sale[s] # "COMPLETED"
            /\ verdict' = [verdict EXCEPT ![w] = "ack"]
            /\ UNCHANGED issued
      /\ UNCHANGED <<vars, relayVars, delivering, lost, doorVars>>

\* A statement of prepareTicketEmail fails: it rolls back.
DeliveryFails(w) ==
  /\ delivering[w] # NoSale
  /\ verdict[w] = "none"
  /\ verdict' = [verdict EXCEPT ![w] = "nack"]
  /\ UNCHANGED <<vars, relayVars, delivering, lost, issued, doorVars>>

\* Ack, or Nack without requeue; neither reaches the broker when the connection
\* is gone.
AnswerCompleted(w) ==
  /\ verdict[w] # "none"
  /\ lost' = IF connected[w] /\ verdict[w] = "nack" THEN lost \cup {delivering[w]} ELSE lost
  /\ delivering' = [delivering EXCEPT ![w] = NoSale]
  /\ verdict'    = [verdict EXCEPT ![w] = "none"]
  /\ UNCHANGED <<vars, relayVars, issued, doorVars>>

\* Mutant: the broker takes the message of a lost connection for handled.
NotRequeued(w) == UNCHANGED completed

\* The broker puts the unacknowledged message of a closed channel back.
RequeuedCompleted(w) ==
  completed' = IF connected[w] /\ delivering[w] # NoSale
               THEN [completed EXCEPT ![delivering[w]] = @ + 1]
               ELSE completed

LoseConnectionToo(w) ==
  /\ LoseConnection(w)
  /\ RequeuedCompleted(w)
  /\ UNCHANGED <<relayed, deliveryVars, issued, doorVars>>

CrashToo(w) ==
  /\ Crash(w)
  /\ RequeuedCompleted(w)
  /\ delivering' = [delivering EXCEPT ![w] = NoSale]
  /\ verdict'    = [verdict EXCEPT ![w] = "none"]
  /\ UNCHANGED <<relayed, lost, issued, doorVars>>

-----------------------------------------------------------------------------
(* The gates.                                                               *)

\* getIssuedTicketForCheckIn waits for a gate that has the ticket locked.  A
\* ticket of another event, or of a sale that is not paid, is refused.
ReadTicket(g, u) ==
  /\ gate[g] = NoUnit
  /\ u \in issued
  /\ \A h \in Gate : gate[h] # u
  /\ sale[u[1]] = "COMPLETED" /\ payment[u[1]].status = "APPROVED"
  /\ gate' = [gate EXCEPT ![g] = u]
  /\ UNCHANGED <<vars, relayVars, deliveryVars, issued, admitted>>

\* Mutant: ticket_check_ins without UNIQUE (issued_ticket_id).
EveryScanAdmits(u) == [admitted EXCEPT ![u] = @ + 1]

\* The rows after the INSERT: a unique violation leaves them alone.
CheckedIn(u) == IF admitted[u] = 0 THEN [admitted EXCEPT ![u] = 1] ELSE admitted

\* The INSERT and the commit, or a rollback.
CheckInTicket(g) ==
  /\ gate[g] # NoUnit
  /\ admitted' \in {CheckedIn(gate[g]), admitted}
  /\ gate' = [gate EXCEPT ![g] = NoUnit]
  /\ UNCHANGED <<vars, relayVars, deliveryVars, issued>>

-----------------------------------------------------------------------------
\* What the worker does on its own; it takes a message only when it is free.
WorkerSystemStep(w) ==
  \/ /\ \/ Free(w) /\ ((\E s \in Sale : Deliver(w, s)) \/ Restart(w))
        \/ SaleAlreadyProcessed(w) \/ PersistSale(w) \/ HandlerFails(w) \/ Answer(w)
     /\ UNCHANGED afterVars
  \/ \E s \in Sale : DeliverCompleted(w, s)
  \/ IssueTickets(w) \/ DeliveryFails(w) \/ AnswerCompleted(w)

RelayStep(s) == \E i \in DOMAIN outbox[s] : Relay(s, i)

GateStep(g) == CheckInTicket(g) \/ \E u \in Unit : ReadTicket(g, u)

SystemNext ==
  \/ ApiNext /\ UNCHANGED afterVars
  \/ \E w \in Worker : WorkerSystemStep(w) \/ LoseConnectionToo(w) \/ CrashToo(w)
  \/ \E s \in Sale : RelayStep(s)
  \/ \E g \in Gate : GateStep(g)

SystemSpec == SystemInit /\ [][SystemNext]_systemVars

\* As in Sales; the publisher's ticker goes on as well.
FairSystemSpec ==
  /\ SystemSpec
  /\ \A w \in Worker : WF_systemVars(WorkerSystemStep(w))
  /\ \A s \in Sale : WF_systemVars(RelayStep(s))

-----------------------------------------------------------------------------
(* Properties.                                                              *)

\* The units of t that let somebody in, as HeldUnits counts them.
AdmittedUnits(t) == {<<u[1], u[3]>> : u \in {v \in Unit : v[2] = t /\ admitted[v] > 0}}

\* What is for sale, what sales hold and what is inside never exceed the stock,
\* even if a sale is reopened by a second worker and fails after its tickets
\* were used: the reopening took them from the stock once more.
\* (persistSale, releaseReservedTickets, CheckInTicket.)
AdmittedWithinStock ==
  \A t \in Ticket :
    available[t] + Cardinality(HeldUnits(t) \cup AdmittedUnits(t)) <= Stock[t]

\* A sale is settled once for each worker that may have read that it is absent:
\* only a delivery that the broker took back while its handler still ran can
\* reopen a sale, and that takes a lost connection each time.
\* (saleAlreadyProcessed, persistSale, processPaymentTx.)
SettlementsBounded == \A s \in Sale : Len(outbox[s]) <= 1 + faults

\* Who paid gets tickets, unless the announcement ended in a dead letter (which
\* the operator sees) or the sale was reopened meanwhile.
\* (outbox publisher, worker loop, prepareTicketEmail, under crashes.)
PaidGetsTickets ==
  \A s \in Sale :
    sale[s] = "COMPLETED" ~>
      UnitsOf(s) \subseteq issued \/ s \in lost \/ sale[s] # "COMPLETED"

\* SalesSystem implements TicketPromise: a paid sale is one whose outbox ever
\* held SALE_COMPLETED, and its units are those of its items.
Promise ==
  INSTANCE TicketPromise WITH
    UnitsOf <- LAMBDA s : {u \in Unit : u[1] = s},
    paid <- [s \in Sale |-> IF Contains(outbox[s], "SALE_COMPLETED") THEN UnitsOf(s) ELSE {}]
PromiseSpec == Promise!Spec
=============================================================================
