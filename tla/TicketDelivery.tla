---------------------------- MODULE TicketDelivery ----------------------------
(***************************************************************************)
(* How the tickets of a completed sale reach its customer:                  *)
(*                                                                          *)
(*   consumers   TicketDeliveryProcessor.Handle, in each worker process, on *)
(*               every SALE_COMPLETED message                               *)
(*   retriers    RetryFailedEmails, in the email-retry-worker               *)
(*   provider    POST /webhooks/email-events, RecordEmailEvent              *)
(*   cleaner     the DELETE of sent notifications in retention              *)
(*                                                                          *)
(* (internal/worker/ticket_delivery_processor.go, cmd/worker/main.go,       *)
(* internal/httpapi/sales_store.go, internal/retention/cleaner.go.)  Handle *)
(* is one transaction, then an SMTP exchange, then two single UPDATEs; a    *)
(* retrier keeps its whole batch, SMTP exchanges included, in one           *)
(* transaction, and the row locks of that transaction make the others wait. *)
(***************************************************************************)
EXTENDS Integers, FiniteSets

CONSTANTS
  Sale,         \* completed sales
  NoSale,       \* what an idle consumer handles
  Consumer,     \* worker processes
  Retrier,      \* email-retry-worker processes
  MaxAttempts,  \* maxEmailRetryAttempts (5)
  BatchSize,    \* LIMIT of RetryFailedEmails (10)
  MaxCopies,    \* messages of one sale that the outbox may publish
  MaxFaults     \* bound on the faults of a behaviour

\* "crash": a consumer dies; "timeout": its 15s or 30s are over, or a statement
\* fails; "abort": the transaction of a retrier is undone; "unsure": the SMTP
\* server takes an email and the sender reports an error.
FaultKind == {"crash", "timeout", "abort", "unsure"}

ASSUME DeliveryAssumption ==
  /\ NoSale \notin Sale
  /\ MaxAttempts \in Nat \ {0} /\ BatchSize \in Nat \ {0}
  /\ MaxCopies \in Nat /\ MaxFaults \in Nat

VARIABLES
  note,         \* [Sale -> status and attempts of the row of email_notifications]
  due,          \* [Sale -> next_retry_at <= NOW()]
  issued,       \* sales whose tickets are in issued_tickets
  emailed,      \* sales whose issued_tickets have emailed_at
  inbox,        \* [Sale -> emails that the SMTP server took]
  published,    \* [Sale -> messages published so far]
  queue,        \* [Sale -> messages ready in the queue]
  pc,           \* [Consumer -> the point of Handle]
  handling,     \* [Consumer -> the sale of its delivery]
  locked,       \* [Retrier -> rows its open transaction holds]
  todo,         \* [Retrier -> those it still has to send]
  delivered,    \* [Retrier -> those marked SENT, uncommitted]
  faults        \* [FaultKind -> faults of the kind so far]

mailVars     == <<note, due, issued, emailed, inbox>>
queueVars    == <<published, queue>>
consumerVars == <<pc, handling>>
retrierVars  == <<locked, todo, delivered>>
vars == <<mailVars, queueVars, consumerVars, retrierVars, faults>>

\* What the customer's provider reports.
ProviderEvent == {"DELIVERED", "OPENED", "CLICKED", "BOUNCED"}

NoteStatus == {"NONE", "PENDING", "SENT", "FAILED", "DEAD_LETTER"} \cup ProviderEvent

\* "received": before getCompletedSale; "preparing": it holds the lock of the
\* sale and saw no sent email; "sending"; "marking": the email is out;
\* "failing": it is not; "stamping": the notification is SENT, emailed_at is
\* not set; "ack", "nack": Handle returned nil or an error.
ConsumerState ==
  {"idle", "received", "preparing", "sending", "marking", "failing", "stamping", "ack", "nack"}

TypeOK ==
  /\ note \in [Sale -> [status : NoteStatus, attempts : Nat]]
  /\ due \in [Sale -> BOOLEAN]
  /\ issued \subseteq Sale
  /\ emailed \subseteq Sale
  /\ inbox \in [Sale -> Nat]
  /\ published \in [Sale -> 0 .. MaxCopies]
  /\ queue \in [Sale -> Nat]
  /\ pc \in [Consumer -> ConsumerState]
  /\ handling \in [Consumer -> Sale \cup {NoSale}]
  /\ \A c \in Consumer : pc[c] = "idle" <=> handling[c] = NoSale
  /\ locked \in [Retrier -> SUBSET Sale]
  /\ todo \in [Retrier -> SUBSET Sale]
  /\ delivered \in [Retrier -> SUBSET Sale]
  /\ \A r \in Retrier : todo[r] \cup delivered[r] \subseteq locked[r]
  /\ faults \in [FaultKind -> 0 .. MaxFaults]

NoNote == [status |-> "NONE", attempts |-> 0]

Init ==
  /\ note = [s \in Sale |-> NoNote]
  /\ due = [s \in Sale |-> TRUE]
  /\ issued = {} /\ emailed = {}
  /\ inbox = [s \in Sale |-> 0]
  /\ published = [s \in Sale |-> 0]
  /\ queue = [s \in Sale |-> 0]
  /\ pc = [c \in Consumer |-> "idle"]
  /\ handling = [c \in Consumer |-> NoSale]
  /\ locked = [r \in Retrier |-> {}]
  /\ todo = [r \in Retrier |-> {}]
  /\ delivered = [r \in Retrier |-> {}]
  /\ faults = [kind \in FaultKind |-> 0]

-----------------------------------------------------------------------------
AllFaults == faults["crash"] + faults["timeout"] + faults["abort"] + faults["unsure"]

Fault(kind) ==
  /\ AllFaults < MaxFaults
  /\ faults' = [faults EXCEPT ![kind] = @ + 1]

\* Mutant: the selection without FOR UPDATE SKIP LOCKED.
NeverLocked(s) == FALSE

\* A retrier holds the row of the notification.
Locked(s) == \E r \in Retrier : s \in locked[r]

\* The outbox publishes SALE_COMPLETED, more than once after a fault of its own.
PublishCompleted(s) ==
  /\ published[s] < MaxCopies
  /\ published' = [published EXCEPT ![s] = @ + 1]
  /\ queue' = [queue EXCEPT ![s] = @ + 1]
  /\ UNCHANGED <<mailVars, consumerVars, retrierVars, faults>>

-----------------------------------------------------------------------------
(* Handle.                                                                  *)

At(c, state, s) == pc[c] = state /\ handling[c] = s

GoTo(c, state) == pc' = [pc EXCEPT ![c] = state] /\ UNCHANGED handling

Deliver(c, s) ==
  /\ At(c, "idle", NoSale)
  /\ queue[s] > 0
  /\ queue' = [queue EXCEPT ![s] = @ - 1]
  /\ pc' = [pc EXCEPT ![c] = "received"]
  /\ handling' = [handling EXCEPT ![c] = s]
  /\ UNCHANGED <<mailVars, published, retrierVars, faults>>

\* ticketEmailAlreadySent.
AlreadySent(s) == note[s].status = "SENT"

\* prepareTicketEmail up to ticketEmailAlreadySent.  getCompletedSale waits for
\* the consumer that holds the lock of the sale.
CheckSent(c, s) ==
  /\ At(c, "received", s)
  /\ \A d \in Consumer : ~At(d, "preparing", s)
  /\ GoTo(c, IF AlreadySent(s) THEN "ack" ELSE "preparing")
  /\ UNCHANGED <<mailVars, queueVars, retrierVars, faults>>

\* Mutant: the notification is recorded as sent before the email goes out.
PreparedAsSent(c, s) ==
  /\ At(c, "preparing", s)
  /\ ~Locked(s)
  /\ issued' = issued \cup {s}
  /\ note' = [note EXCEPT ![s].status = "SENT"]
  /\ due' = [due EXCEPT ![s] = TRUE]
  /\ GoTo(c, "sending")
  /\ UNCHANGED <<emailed, inbox, queueVars, retrierVars, faults>>

\* The rest of prepareTicketEmail: issueTickets, whose identifiers are those of
\* every other time, and the upsert, which waits for a retrier.
PrepareTicketEmail(c, s) ==
  /\ At(c, "preparing", s)
  /\ ~Locked(s)
  /\ issued' = issued \cup {s}
  /\ note' = [note EXCEPT ![s].status = IF @ = "SENT" THEN "SENT" ELSE "PENDING"]
  /\ due' = [due EXCEPT ![s] = TRUE]
  /\ GoTo(c, "sending")
  /\ UNCHANGED <<emailed, inbox, queueVars, retrierVars, faults>>

\* What an SMTP exchange may do: the server takes the email or it does not, and
\* an error may come although it did.
Accepted(s) == inbox' = [inbox EXCEPT ![s] = @ + 1]

SendTickets(c, s) ==
  /\ At(c, "sending", s)
  /\ \/ Accepted(s) /\ GoTo(c, "marking") /\ UNCHANGED faults
     \/ Accepted(s) /\ GoTo(c, "failing") /\ Fault("unsure")
     \/ GoTo(c, "failing") /\ UNCHANGED <<inbox, faults>>
  /\ UNCHANGED <<note, due, issued, emailed, queueVars, retrierVars>>

\* The UPDATE of a row that is not there changes nothing.
UpdateNote(s, status, attempts) ==
  note' = IF note[s].status = "NONE" THEN note
          ELSE [note EXCEPT ![s] = [status |-> status, attempts |-> attempts]]

\* The first UPDATE of markTicketEmailSent.
MarkSent(c, s) ==
  /\ At(c, "marking", s)
  /\ ~Locked(s)
  /\ UpdateNote(s, "SENT", note[s].attempts)
  /\ due' = [due EXCEPT ![s] = TRUE]
  /\ GoTo(c, "stamping")
  /\ UNCHANGED <<issued, emailed, inbox, queueVars, retrierVars, faults>>

\* The second one; a retrier that marked the sale holds its issued_tickets.
StampTickets(c, s) ==
  /\ At(c, "stamping", s)
  /\ \A r \in Retrier : s \notin delivered[r]
  /\ emailed' = emailed \cup {s}
  /\ GoTo(c, "ack")
  /\ UNCHANGED <<note, due, issued, inbox, queueVars, retrierVars, faults>>

\* Mutant: a failed delivery returns its error and records nothing.
NothingRecorded(c, s) ==
  /\ At(c, "failing", s)
  /\ GoTo(c, "nack")
  /\ UNCHANGED <<mailVars, queueVars, retrierVars, faults>>

\* markTicketEmailFailed counts an attempt, and asks emailRetryState about the
\* first one: the status is FAILED whatever the count.
MarkFailed(c, s) ==
  /\ At(c, "failing", s)
  /\ ~Locked(s)
  /\ UpdateNote(s, IF 1 >= MaxAttempts THEN "DEAD_LETTER" ELSE "FAILED", note[s].attempts + 1)
  /\ due' = [due EXCEPT ![s] = FALSE]
  /\ GoTo(c, "nack")
  /\ UNCHANGED <<issued, emailed, inbox, queueVars, retrierVars, faults>>

\* A statement fails or the context of the delivery is over: what is committed
\* stays, Handle returns an error.
HandleFails(c) ==
  /\ pc[c] \in {"received", "preparing", "marking", "failing", "stamping"}
  /\ Fault("timeout")
  /\ GoTo(c, "nack")
  /\ UNCHANGED <<mailVars, queueVars, retrierVars>>

\* Ack, or Nack without requeue: the message is gone, or in sales.dlq for good.
Answer(c) ==
  /\ pc[c] \in {"ack", "nack"}
  /\ pc' = [pc EXCEPT ![c] = "idle"]
  /\ handling' = [handling EXCEPT ![c] = NoSale]
  /\ UNCHANGED <<mailVars, queueVars, retrierVars, faults>>

\* The process dies and its delivery is put back.
Crash(c) ==
  /\ pc[c] # "idle"
  /\ Fault("crash")
  /\ queue' = [queue EXCEPT ![handling[c]] = @ + 1]
  /\ pc' = [pc EXCEPT ![c] = "idle"]
  /\ handling' = [handling EXCEPT ![c] = NoSale]
  /\ UNCHANGED <<mailVars, published, retrierVars>>

-----------------------------------------------------------------------------
(* RetryFailedEmails.                                                       *)

\* What its WHERE accepts.
Retriable(s) ==
  note[s].status = "FAILED" /\ due[s] /\ note[s].attempts < MaxAttempts

\* SELECT ... LIMIT n FOR UPDATE OF en SKIP LOCKED.  The order by updated_at is
\* left open: any n of the rows.
SelectFailed(r) ==
  LET free == {s \in Sale : Retriable(s) /\ ~Locked(s)}
  IN  /\ locked[r] = {}
      /\ \E batch \in SUBSET free :
           /\ batch # {}
           /\ Cardinality(batch) = BatchSize \/ (batch = free /\ Cardinality(free) <= BatchSize)
           /\ locked' = [locked EXCEPT ![r] = batch]
           /\ todo' = [todo EXCEPT ![r] = batch]
      /\ UNCHANGED <<mailVars, queueVars, consumerVars, delivered, faults>>

\* One round of the loop: send, and mark inside the transaction.  (A row that
\* failed has its tickets issued and its sale completed: loading them works.)
RetryEmail(r, s) ==
  /\ s \in todo[r]
  /\ todo' = [todo EXCEPT ![r] = @ \ {s}]
  /\ \/ /\ Accepted(s)
        /\ delivered' = [delivered EXCEPT ![r] = @ \cup {s}]
        /\ UNCHANGED faults
     \/ Accepted(s) /\ Fault("unsure") /\ UNCHANGED delivered
     \/ UNCHANGED <<inbox, delivered, faults>>
  /\ UNCHANGED <<note, due, issued, emailed, queueVars, consumerVars, locked>>

\* Mutant: markRetryFailed leaves attempts alone.
NeverCounted(n) == [n EXCEPT !.status = "FAILED"]

\* What markRetryFailed writes, by emailRetryState.
FailedAgain(n) ==
  [status |-> IF n.attempts + 1 >= MaxAttempts THEN "DEAD_LETTER" ELSE "FAILED",
   attempts |-> n.attempts + 1]

\* Mutant: the slice of a batch is carried over to the next one.
BatchKept(r) ==
  /\ locked' = [locked EXCEPT ![r] = {}]
  /\ UNCHANGED <<todo, delivered>>

\* The transaction of r is over, and with it its locks.
TxEnds(r) ==
  /\ locked' = [locked EXCEPT ![r] = {}]
  /\ todo' = [todo EXCEPT ![r] = {}]
  /\ delivered' = [delivered EXCEPT ![r] = {}]

CommitRetries(r) ==
  /\ locked[r] # {}
  /\ todo[r] = {}
  /\ note' = [s \in Sale |->
                IF s \in delivered[r] THEN [note[s] EXCEPT !.status = "SENT"]
                ELSE IF s \in locked[r] THEN FailedAgain(note[s])
                ELSE note[s]]
  /\ due' = [s \in Sale |-> IF s \in locked[r] THEN s \in delivered[r] ELSE due[s]]
  /\ emailed' = emailed \cup delivered[r]
  /\ TxEnds(r)
  /\ UNCHANGED <<issued, inbox, queueVars, consumerVars, faults>>

\* A statement or the commit fails, or the process dies: the marks of the whole
\* batch are undone, its emails are not.
AbortRetries(r) ==
  /\ locked[r] # {}
  /\ Fault("abort")
  /\ TxEnds(r)
  /\ UNCHANGED <<mailVars, queueVars, consumerVars>>

\* The backoff runs out.
BecomeDue(s) ==
  /\ ~due[s]
  /\ due' = [due EXCEPT ![s] = TRUE]
  /\ UNCHANGED <<note, issued, emailed, inbox, queueVars, consumerVars, retrierVars, faults>>

-----------------------------------------------------------------------------
\* A report about an email, whenever it comes and however often: it overwrites
\* the status, whatever that is.
RecordEmailEvent(s, event) ==
  /\ inbox[s] > 0
  /\ note[s].status # "NONE"
  /\ ~Locked(s)
  /\ note' = [note EXCEPT ![s].status = event]
  /\ UNCHANGED <<due, issued, emailed, inbox, queueVars, consumerVars, retrierVars, faults>>

\* Cleanup deletes notifications sent long ago.
Cleanup(s) ==
  /\ note[s].status = "SENT"
  /\ note' = [note EXCEPT ![s] = NoNote]
  /\ due' = [due EXCEPT ![s] = TRUE]
  /\ UNCHANGED <<issued, emailed, inbox, queueVars, consumerVars, retrierVars, faults>>

-----------------------------------------------------------------------------
ConsumerStep(c) ==
  \/ \E s \in Sale :
       \/ Deliver(c, s) \/ CheckSent(c, s) \/ PrepareTicketEmail(c, s) \/ SendTickets(c, s)
       \/ MarkSent(c, s) \/ StampTickets(c, s) \/ MarkFailed(c, s)
  \/ Answer(c)

RetrierStep(r) ==
  \/ SelectFailed(r)
  \/ \E s \in Sale : RetryEmail(r, s)
  \/ CommitRetries(r)

Next ==
  \/ \E s \in Sale :
       \/ PublishCompleted(s) \/ BecomeDue(s) \/ Cleanup(s)
       \/ \E event \in ProviderEvent : RecordEmailEvent(s, event)
  \/ \E c \in Consumer : ConsumerStep(c) \/ HandleFails(c) \/ Crash(c)
  \/ \E r \in Retrier : RetrierStep(r) \/ AbortRetries(r)

Spec == Init /\ [][Next]_vars

\* The worker's loop and the ticker of the retry worker go on; a process that
\* died is started again.
FairSpec ==
  /\ Spec
  /\ \A c \in Consumer : WF_vars(ConsumerStep(c))
  /\ \A r \in Retrier : WF_vars(RetrierStep(r))
  /\ \A s \in Sale : WF_vars(BecomeDue(s))

-----------------------------------------------------------------------------
(* Properties.                                                              *)

\* Nobody is told that a customer has the tickets when no email went out, and
\* no email names tickets that the gate would not know.
\* (Handle: commit of prepareTicketEmail, then SendTickets, then the marks.)
SentIsTrue ==
  /\ \A s \in Sale :
       /\ note[s].status = "SENT" => inbox[s] > 0
       /\ s \in emailed => inbox[s] > 0
       /\ inbox[s] > 0 => s \in issued
  /\ \A c \in Consumer : pc[c] = "ack" => inbox[handling[c]] > 0

\* A customer gets at most one email for each message of the sale and each
\* fault, however consumers, retriers, reports and retention interleave.
\* (SKIP LOCKED and the row locks of RetryFailedEmails.)
EmailsBounded == \A s \in Sale : inbox[s] <= published[s] + AllFaults

\* The count that no retrier selects and nobody gives up: the worker counted the
\* last failure, and left the notification FAILED.
CountedOut(s) == note[s].status = "FAILED" /\ note[s].attempts >= MaxAttempts

\* Every customer gets the email or the notification is given up as DEAD_LETTER,
\* however workers and retriers die, with two exceptions, which README.md:239
\* and docs/flows.md:272 do not make: the worker counted the last failure, or a
\* delivery ran into its timeout.
EmailedOrGivenUp ==
  \A s \in Sale :
    published[s] > 0 ~>
      \/ inbox[s] > 0 \/ note[s].status = "DEAD_LETTER"
      \/ CountedOut(s) \/ faults["timeout"] > 0

\* When the messages of a sale are used up and its email did not go out, the
\* failure is on record (README.md:237), unless the context that ended the
\* delivery was the one to record it with.  A crash is no excuse.
UnsentIsOnRecord ==
  \A s \in Sale :
    /\ s \in issued /\ queue[s] = 0 /\ inbox[s] = 0
    /\ \A c \in Consumer : handling[c] # s
    => note[s].status \in {"FAILED", "DEAD_LETTER"} \/ faults["timeout"] > 0
=============================================================================
