------------------------------ MODULE RowLocks ------------------------------
(***************************************************************************)
(* The row locks that the transactions of the API and of the worker take,   *)
(* in the order in which they take them: by SELECT ... FOR UPDATE, but also *)
(* by every UPDATE and upsert, and by every INSERT with a foreign key.      *)
(*                                                                          *)
(* Modes, as PostgreSQL has them:                                           *)
(*   "update"  FOR UPDATE, and an upsert that sets a column with a unique   *)
(*             index (customers.email): conflicts with every mode;          *)
(*   "change"  any other UPDATE or upsert: with itself and with "update";   *)
(*   "key"     the row a foreign key refers to: with "update" only.         *)
(* A lock is kept until its transaction ends.  A transaction is the         *)
(* sequence of requests it has still to make; it may end before each of     *)
(* them, because every error returns through a deferred Rollback, because   *)
(* its client goes away or because PostgreSQL has chosen it as the victim   *)
(* of a deadlock.                                                           *)
(***************************************************************************)
EXTENDS Naturals, Sequences, SequencesExt, FiniteSets

CONSTANTS
  Session,      \* database connections in a transaction
  Sale,
  Event,        \* [Sale -> its sales event]
  Customer,     \* [Sale -> its customer]
  Lines         \* [Sale -> the ticket types of its lines, in their order;
                \*  one ticket is issued for each line]

\* GetTicketForEvent refuses a line whose ticket type is of another event.
ASSUME LocksAssumption ==
  /\ IsFiniteSet(Sale)
  /\ \A s \in Sale : Lines[s] \in Seq(ToSet(Lines[s]))
  /\ \A s, r \in Sale : ToSet(Lines[s]) \cap ToSet(Lines[r]) # {} => Event[s] = Event[r]

VARIABLE tx     \* [Session -> [op, todo, held]]

Idle == [op |-> "none", todo |-> <<>>, held |-> {}]
Lock(table, id, mode) == [row |-> <<table, id>>, mode |-> mode]

LocksInit == tx = [n \in Session |-> Idle]

\* The rows of one table that a statement finds, in whatever order it does.
Scans(table, ids, mode) ==
  {[i \in DOMAIN order |-> Lock(table, order[i], mode)] : order \in SetToSeqs(ids)}

-----------------------------------------------------------------------------
\* persistSale: customer, sale with its foreign keys, then line after line.
Reserve(s) ==
  << Lock("customers", Customer[s], "update"), Lock("sales", s, "change"),
     Lock("sales_events", Event[s], "key") >>
  \o [i \in DOMAIN Lines[s] |-> Lock("tickets", Lines[s][i], "change")]
  \o << Lock("payments", s, "change") >>

\* Mutant: FOR UPDATE OF s.
SaleAlone(s) == << Lock("sales", s, "update") >>

\* getSaleForPayment: FOR UPDATE locks the rows of all three tables joined.
SaleForPayment(s) ==
  << Lock("sales", s, "update"), Lock("sales_events", Event[s], "update"),
     Lock("customers", Customer[s], "update") >>

\* processPaymentTx; a failed payment releases the tickets in any order.
PaymentTx(s) ==
  {SaleForPayment(s) \o release
     \o << Lock("payments", s, "change"), Lock("sales", s, "change") >> :
     release \in {<<>>} \cup Scans("tickets", ToSet(Lines[s]), "change")}

\* ProcessPaymentWebhook: the intent first.
Webhook(s) ==
  {<< Lock("payment_intents", s, "update") >> \o pay
     \o << Lock("payment_intents", s, "change") >> : pay \in PaymentTx(s)}

\* CreatePaymentIntent: the sale first.
Intent(s) ==
  SaleForPayment(s)
    \o << Lock("payment_intents", s, "change"), Lock("payments", s, "change") >>

\* Mutant: FROM customers JOIN sales.
CustomerFirst(s) ==
  << Lock("customers", Customer[s], "update"), Lock("sales", s, "update"),
     Lock("sales_events", Event[s], "update") >>

\* getCompletedSale: the same three rows.
CompletedSale(s) == SaleForPayment(s)

\* prepareTicketEmail; the foreign keys of issued_tickets but for the ticket
\* type refer to rows locked before.
Prepare(s) ==
  CompletedSale(s)
    \o [i \in DOMAIN Lines[s] |-> Lock("tickets", Lines[s][i], "key")]
    \o << Lock("email_notifications", s, "change") >>

\* CheckInTicket: FOR UPDATE OF it, and the event of the check-in.
IssuedTickets(s) == {<<s, i>> : i \in DOMAIN Lines[s]}

CheckIn(ticket) ==
  << Lock("issued_tickets", ticket, "update"),
     Lock("sales_events", Event[ticket[1]], "key") >>

\* markTicketEmailSent and markTicketEmailFailed, RecordEmailEvent: statements
\* that are transactions of their own, one of which updates every ticket of
\* the sale.
Mark(s) ==
  {<< Lock("email_notifications", s, "change") >>}
    \cup Scans("issued_tickets", IssuedTickets(s), "change")

\* Cleanup: the DELETE of old emails, in one statement.
Clean == UNION {Scans("email_notifications", old, "update") : old \in SUBSET Sale}

\* What a transaction that begins will ask for, one after another.
Programs ==
  (UNION {{[op |-> "Reserve", todo |-> Reserve(s)],
           [op |-> "Intent", todo |-> Intent(s)],
           [op |-> "Prepare", todo |-> Prepare(s)]}
          \cup {[op |-> "Payment", todo |-> p] : p \in PaymentTx(s)}
          \cup {[op |-> "Webhook", todo |-> p] : p \in Webhook(s)}
          \cup {[op |-> "CheckIn", todo |-> CheckIn(t)] : t \in IssuedTickets(s)}
          \cup {[op |-> "Mark", todo |-> p] : p \in Mark(s)} : s \in Sale})
  \cup {[op |-> "Clean", todo |-> p] : p \in Clean}

-----------------------------------------------------------------------------
Conflicting(m, n) ==
  \/ "update" \in {m, n}
  \/ m = "change" /\ n = "change"

Free(n, lock) ==
  \A m \in Session \ {n} : \A held \in tx[m].held :
    held.row = lock.row => ~Conflicting(held.mode, lock.mode)

Begin(n) ==
  /\ tx[n].op = "none"
  /\ \E p \in Programs :
       tx' = [tx EXCEPT ![n] = [op |-> p.op, todo |-> p.todo, held |-> {}]]

\* RetryFailedEmails: FOR UPDATE OF en SKIP LOCKED; the notifications stay
\* locked while the emails are sent, and the tickets of each that is sent are
\* updated before the next one is.
SaleAfterSale(todo) ==
  \A i, j, k \in DOMAIN todo :
    i < j /\ j < k /\ todo[i].row[2][1] = todo[k].row[2][1]
      => todo[j].row[2][1] = todo[i].row[2][1]

RetryMarks(sent) ==
  {todo \in Scans("issued_tickets", UNION {IssuedTickets(s) : s \in sent}, "change") :
     SaleAfterSale(todo)}

BeginRetry(n) ==
  /\ tx[n].op = "none"
  /\ \E batch \in SUBSET {s \in Sale :
                            Free(n, Lock("email_notifications", s, "update"))} :
       /\ batch # {}
       /\ \E todo \in UNION {RetryMarks(sent) : sent \in SUBSET batch} :
            tx' = [tx EXCEPT ![n] =
              [op |-> "Retry", todo |-> todo,
               held |-> {Lock("email_notifications", s, "update") : s \in batch}]]

Take(n) ==
  /\ tx[n].todo # <<>>
  /\ Free(n, Head(tx[n].todo))
  /\ tx' = [tx EXCEPT ![n].todo = Tail(@),
                      ![n].held = @ \cup {Head(tx[n].todo)}]

End(n) ==
  /\ tx[n].op # "none"
  /\ tx' = [tx EXCEPT ![n] = Idle]

LocksNext ==
  \E n \in Session : Begin(n) \/ BeginRetry(n) \/ Take(n) \/ End(n)

LocksSpec == LocksInit /\ [][LocksNext]_tx

-----------------------------------------------------------------------------
WaitsFor(n, m) ==
  /\ n # m /\ tx[n].todo # <<>>
  /\ LET lock == Head(tx[n].todo)
     IN \E held \in tx[m].held :
          held.row = lock.row /\ Conflicting(held.mode, lock.mode)

\* Transactions none of which goes on before another one of them ends.
Deadlocked(D) == D # {} /\ \A n \in D : \E m \in D : WaitsFor(n, m)

\* One of D, with an operation of ops, waits at table for another one of D.
Meets(D, ops, table, holders) ==
  \E n, m \in D :
    /\ WaitsFor(n, m)
    /\ tx[n].op \in ops /\ tx[m].op \in holders
    /\ Head(tx[n].todo).row[1] = table

\* The operations that begin with SaleForPayment, or go on with it.
ForUpdate == {"Payment", "Webhook", "Intent", "Prepare"}

\* Transactions of the service deadlock in six ways only, and all others,
\* whatever else they wait for and however many they are, come to an end.  In
\* every deadlock
\*   - a payment or delivery wants the customer whom a reservation, which locks
\*     the customer before the event, holds; or
\*   - two reservations have ticket types in common, which each of them locks
\*     in the order of its lines; or
\*   - the creation of an intent, which holds the sale, meets a webhook, which
\*     locks the intent before the sale; or
\*   - two transactions mark the tickets of a sale as emailed; or
\*   - two cleaners delete the same emails; or
\*   - three kinds of transactions of which no two could deadlock meet: a
\*     delivery, which holds the event, wants the email of its sale from a
\*     retrier (or a cleaner), somebody who marks tickets wants one that a gate
\*     holds, and a gate wants an event from a payment or delivery.
KnownDeadlocks ==
  \A D \in SUBSET Session : Deadlocked(D) =>
    \/ Meets(D, ForUpdate, "customers", {"Reserve"})
    \/ Meets(D, {"Reserve"}, "tickets", {"Reserve"})
    \/ Meets(D, {"Intent"}, "payment_intents", {"Webhook"})
    \/ Meets(D, {"Mark"}, "issued_tickets", {"Mark", "Retry"})
    \/ Meets(D, {"Clean"}, "email_notifications", {"Clean"})
    \/ /\ Meets(D, {"Prepare"}, "email_notifications", {"Retry", "Clean"})
       /\ Meets(D, {"Retry", "Mark"}, "issued_tickets", {"CheckIn"})
       /\ Meets(D, {"CheckIn"}, "sales_events", ForUpdate)

\* Tickets are given back in no particular order, and yet the transaction that
\* gives them back never waits for one: its FOR UPDATE holds the row of the
\* event as well, and thereby keeps away every reservation and every other
\* payment or delivery of the event until it commits.
ReleaseNeverWaits ==
  \A n \in Session :
    /\ tx[n].op \in {"Payment", "Webhook"} /\ tx[n].todo # <<>>
    /\ Head(tx[n].todo).row[1] = "tickets"
    => Free(n, Head(tx[n].todo))
=============================================================================
