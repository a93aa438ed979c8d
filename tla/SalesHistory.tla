---------------------------- MODULE SalesHistory ----------------------------
(***************************************************************************)
(* What the tables remember of the sales, and when it happened: the history *)
(* that the analytics export reads.  The transactions are those of the      *)
(* worker and of the API, reduced to the columns that the export selects;   *)
(* several clocks write them.  sales.created_at is the time of the API that *)
(* took the request, payments.processed_at may be the payment provider's,   *)
(* all other times are those of the database: the order of the events of a  *)
(* sale is not the order in which they happened.                            *)
(*                                                                          *)
(* The time 0 is "never", as the zero time.Time and NULL are in the code.   *)
(***************************************************************************)
EXTENDS Integers, Sequences, SequencesExt, FiniteSets, FiniteSetsExt, Functions, TLC

CONSTANTS
  Sale,         \* a set of numbers: uuids, which the export orders
  Ticket,       \* a set of numbers: ticket types
  Stock,        \* [Ticket -> available_quantity before the first sale]
  Orders,       \* [Ticket -> quantity] of the requests taken
  Provider,     \* payment providers; "pending" is what persistSale writes
  Foreign,      \* times that the API and the payment provider may write
  MaxTime,      \* bound on the clocks
  MaxEvents,    \* no operation once the history has this many events
  MaxReopened   \* sales that may be persisted twice

ASSUME HistoryAssumption ==
  /\ Sale \subseteq Int
  /\ Ticket \subseteq Int \ {0} /\ IsFiniteSet(Ticket)
  /\ Stock \in [Ticket -> Nat] /\ Orders \subseteq [Ticket -> Nat]
  /\ "" \notin Provider
  /\ Foreign \subseteq Int \ {0}

VARIABLES
  now,          \* the clock of the database
  sales,        \* a function on the sales persisted: their rows
  available,    \* tickets.available_quantity
  reopened      \* sales persisted a second time

vars == <<now, sales, available, reopened>>

HistoryInit ==
  /\ now = 1
  /\ sales = [s \in {} |-> 0]
  /\ available = Stock
  /\ reopened = {}

Line(s) == {t \in Ticket : sales[s].items[t] > 0}
Units(s) == {u \in Line(s) \X (1 .. Max({0} \cup Range(sales[s].items))) :
               u[2] <= sales[s].items[u[1]]}

\* The rows of a table, or the entries of a map, with one more.
Insert(rows, key, row) == [k \in DOMAIN rows \cup {key} |-> IF k = key THEN row ELSE rows[k]]

\* persistSale: the condition of the UPDATE of tickets, for every line.
Enough(items) == \A t \in Ticket : items[t] <= available[t]

\* persistSale, for a sale that the API took at the time at.
Reserve(s, items, at) ==
  /\ s \notin DOMAIN sales
  /\ Enough(items)
  /\ available' = [t \in Ticket |-> available[t] - items[t]]
  /\ sales' = Insert(sales, s,
                [createdAt |-> at, status |-> "PENDING_PAYMENT",
                 items |-> items, itemsAt |-> now,
                 payment |-> "PENDING", provider |-> "pending",
                 processedAt |-> now, outbox |-> <<>>, sentAt |-> 0,
                 issuedAt |-> 0, checkIns |-> <<>>])
  /\ UNCHANGED <<now, reopened>>

\* persistSale once more: the upserts reset the sale and its payment and the
\* stock is taken again; items and provider stay.
ReserveAgain(s) ==
  /\ s \in DOMAIN sales
  /\ Cardinality(reopened) < MaxReopened /\ s \notin reopened
  /\ Enough(sales[s].items)
  /\ available' = [t \in Ticket |-> available[t] - sales[s].items[t]]
  /\ sales' = [sales EXCEPT ![s].status = "PENDING_PAYMENT",
                            ![s].payment = "PENDING", ![s].processedAt = now]
  /\ reopened' = reopened \cup {s}
  /\ UNCHANGED now

\* CreatePaymentIntent.
Intend(s, p) ==
  /\ sales[s].status = "PENDING_PAYMENT"
  /\ sales' = [sales EXCEPT ![s].provider = p, ![s].processedAt = now]
  /\ UNCHANGED <<now, available, reopened>>

\* processPaymentTx, at the time that the provider reports or at its own.
Settle(s, p, paid, at) ==
  /\ sales[s].status = "PENDING_PAYMENT"
  /\ sales' = [sales EXCEPT
                 ![s].status = IF paid THEN "COMPLETED" ELSE "FAILED",
                 ![s].payment = IF paid THEN "APPROVED" ELSE "FAILED",
                 ![s].provider = p, ![s].processedAt = at,
                 ![s].outbox = Append(@, now)]
  /\ available' = IF paid THEN available
                  ELSE [t \in Ticket |-> available[t] + sales[s].items[t]]
  /\ UNCHANGED <<now, reopened>>

\* prepareTicketEmail, and markTicketEmailSent when the email has gone out.
Issue(s) ==
  /\ sales[s].status = "COMPLETED" /\ sales[s].issuedAt = 0
  /\ sales' = [sales EXCEPT ![s].issuedAt = now]
  /\ UNCHANGED <<now, available, reopened>>

MarkSent(s) ==
  /\ sales[s].issuedAt > 0 /\ sales[s].sentAt = 0
  /\ sales' = [sales EXCEPT ![s].sentAt = now]
  /\ UNCHANGED <<now, available, reopened>>

\* CheckInTicket.
CheckIn(s, unit) ==
  /\ sales[s].status = "COMPLETED" /\ sales[s].payment = "APPROVED"
  /\ sales[s].issuedAt > 0 /\ unit \notin DOMAIN sales[s].checkIns
  /\ sales' = [sales EXCEPT ![s].checkIns = Insert(@, unit, now)]
  /\ UNCHANGED <<now, available, reopened>>

-----------------------------------------------------------------------------
\* The branches of eventsQuery: a row of a table is an event, with the state
\* that the row has NOW.
Event(type, at, s, ticket, quantity, status, provider, id) ==
  [type |-> type, at |-> at, sale |-> s, ticket |-> ticket,
   quantity |-> quantity, status |-> status, provider |-> provider, id |-> id]

NoTicket == 0

SaleEvents(s) ==
  LET r == sales[s]
  IN {Event("sale.created", r.createdAt, s, NoTicket, 0, r.status, "", 0),
      Event("payment.processed", r.processedAt, s, NoTicket, 0, r.payment,
            r.provider, 0)}
     \cup {Event("sale.item.created", r.itemsAt, s, t, r.items[t], r.status, "", 0) :
             t \in Line(s)}
     \cup {Event("outbox.created", r.outbox[i], s, NoTicket, 0, "PENDING", "", i) :
             i \in DOMAIN r.outbox}
     \cup (IF r.sentAt = 0 THEN {} ELSE
            {Event("email.sent", r.sentAt, s, NoTicket, 0, "SENT", "", 0)})
     \cup {Event("ticket.issued", r.issuedAt, s, u[1], 1, "ISSUED", "", u[2]) :
             u \in IF r.issuedAt > 0 THEN Units(s) ELSE {}}
     \cup {Event("checkin.completed", r.checkIns[u], s, u[1], 1, "COMPLETED", "", u[2]) :
             u \in DOMAIN r.checkIns}

AllEvents == UNION {SaleEvents(s) : s \in DOMAIN sales}

\* ORDER BY occurred_at, event_type, sale_id, event_id.
EventTypes == << "checkin.completed", "email.sent", "outbox.created",
                 "payment.processed", "sale.created", "sale.item.created",
                 "ticket.issued" >>
Rank(type) == CHOOSE i \in DOMAIN EventTypes : EventTypes[i] = type

\* Rows that agree in all four come in any order; here, by ticket type.
SortKey(e) == <<e.at, Rank(e.type), e.sale, e.ticket, e.id>>
Earlier(e, f) ==
  LET k == SortKey(e)
      l == SortKey(f)
  IN \E i \in 1 .. 5 : k[i] < l[i] /\ \A j \in 1 .. i - 1 : k[j] = l[j]

\* Every event at the place that the number of earlier ones gives it.
Sorted(events) ==
  LET before == {<<Cardinality({f \in events : Earlier(f, e)}), e>> : e \in events}
  IN [i \in 1 .. Cardinality(events) |-> (CHOOSE p \in before : p[1] = i - 1)[2]]

\* ReadEvents: WHERE, ORDER BY and LIMIT; a bound of 0 is an empty one.
ReadEvents(events, start, end, limit) ==
  LET rows == Sorted({e \in events : /\ start # 0 => e.at >= start
                                     /\ end # 0 => e.at < end})
  IN SubSeq(rows, 1, Min({limit, Len(rows)}))

\* readExport of cmd/optiflow-export, its summary.
SumOver(S, f(_)) == MapThenSumSet(f, S)
ItemTotal(s) == SumOver(Ticket, LAMBDA t : sales[s].items[t])
SalesSummary ==
  LET completed == {s \in DOMAIN sales : sales[s].status = "COMPLETED"}
  IN [saleCount |-> Cardinality(DOMAIN sales),
      completedSaleCount |-> Cardinality(completed),
      totalItems |-> SumOver(DOMAIN sales, ItemTotal),
      issued |-> SumOver(DOMAIN sales, LAMBDA s :
                   IF sales[s].issuedAt > 0 THEN Cardinality(Units(s)) ELSE 0),
      checkedIn |-> SumOver(DOMAIN sales, LAMBDA s :
                   Cardinality(DOMAIN sales[s].checkIns))]

-----------------------------------------------------------------------------
Tick ==
  /\ now < MaxTime
  /\ now' = now + 1
  /\ UNCHANGED <<sales, available, reopened>>

\* A request waits for the worker for any time, and the clock of the API may
\* be ahead.  A webhook reports any time, a payment by hand that of the API.
HistoryNext ==
  \/ Tick
  \/ /\ Cardinality(AllEvents) < MaxEvents
     /\ \/ \E s \in Sale, items \in Orders, at \in Foreign :
             Reserve(s, items, at)
        \/ \E s \in DOMAIN sales :
             \/ ReserveAgain(s) \/ Issue(s) \/ MarkSent(s)
             \/ \E p \in Provider : Intend(s, p)
             \/ \E p \in Provider, paid \in BOOLEAN, at \in Foreign :
                  Settle(s, p, paid, at)
             \/ \E unit \in Units(s) : CheckIn(s, unit)

HistorySpec == HistoryInit /\ [][HistoryNext]_vars

-----------------------------------------------------------------------------
Columns ==
  {"createdAt", "status", "items", "itemsAt", "payment", "provider",
   "processedAt", "outbox", "sentAt", "issuedAt", "checkIns"}

HistoryType ==
  /\ now \in Nat \ {0}
  /\ IsFiniteSet(DOMAIN sales) /\ DOMAIN sales \subseteq Sale
  /\ reopened \subseteq DOMAIN sales
  /\ available \in [Ticket -> Nat]
  /\ \A s \in DOMAIN sales :
       LET r == sales[s]
       IN /\ DOMAIN r = Columns
          /\ r.items \in [Ticket -> Nat]
          /\ r.provider # ""
          /\ r.createdAt \in Int \ {0} /\ r.processedAt \in Int \ {0}
          /\ r.itemsAt \in Nat \ {0} /\ r.sentAt \in Nat /\ r.issuedAt \in Nat
          /\ r.outbox \in Seq(Int)
          /\ IsFiniteSet(DOMAIN r.checkIns)
          /\ \A u \in DOMAIN r.checkIns :
               /\ u \in Ticket \X Nat /\ u[1] \in Line(s)
               /\ r.checkIns[u] \in Nat

(* A sale and its payment are settled together.  What the database's clock  *)
(* writes of a sale is in the order in which it happens: its lines, its      *)
(* tickets, the email that carries them, and the check-ins; and a sale with  *)
(* tickets is paid, unless a repeated request reset it.                      *)
HistoryInOrder ==
  \A s \in DOMAIN sales :
    LET r == sales[s]
    IN /\ r.itemsAt <= now
       /\ <<r.status, r.payment>> \in {<<"PENDING_PAYMENT", "PENDING">>,
                                        <<"COMPLETED", "APPROVED">>, <<"FAILED", "FAILED">>}
       /\ r.issuedAt > 0 => /\ r.itemsAt <= r.issuedAt /\ r.issuedAt <= now
                            /\ r.status = "COMPLETED" \/ s \in reopened
       /\ r.sentAt > 0 => r.issuedAt > 0 /\ r.issuedAt <= r.sentAt
       /\ \A u \in DOMAIN r.checkIns : r.issuedAt > 0 /\ r.issuedAt <= r.checkIns[u]
=============================================================================
