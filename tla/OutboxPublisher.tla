--------------------------- MODULE OutboxPublisher ---------------------------
(***************************************************************************)
(* Publisher.PublishPending (internal/outbox/publisher.go), run every       *)
(* second by each worker process: one transaction selects a batch of due    *)
(* events, locks their rows, publishes them one by one and records what     *)
(* became of each; nothing of it is visible before the commit, while the    *)
(* messages are out as soon as they are published.  Also the part of        *)
(* internal/retention/cleaner.go that deletes published events.             *)
(***************************************************************************)
EXTENDS Integers, FiniteSets

CONSTANTS
  Event,        \* events that payments may record
  Routable,     \* SALE_COMPLETED events; no queue is bound to sale.failed
  Publisher,    \* processes that run the publisher
  BatchSize,    \* LIMIT of the selection
  MaxFaults     \* bound on aborted batches and lost confirmations

ASSUME OutboxAssumption ==
  /\ IsFiniteSet(Event)
  /\ Routable \subseteq Event
  /\ BatchSize \in Nat \ {0}
  /\ MaxFaults \in Nat

\* The constant of publisher.go.
maxAttempts == 5

VARIABLES
  created,      \* [Event -> created_at of the row, 0 before there is one]
  row,          \* [Event -> status and attempts of the row]
  due,          \* [Event -> next_attempt_at <= NOW()]
  copies,       \* [Event -> messages that a queue took]
  selected,     \* [Publisher -> events its open transaction has locked]
  batch,        \* [Publisher -> those it still has to handle, oldest first]
  outcome,      \* [Publisher -> what PublishJSON returned for the oldest of them]
  sent,         \* [Publisher -> events marked published, uncommitted]
  failed,       \* [Publisher -> events marked failed, uncommitted]
  faults        \* faults so far

txVars == <<selected, batch, outcome, sent, failed>>
vars   == <<created, row, due, copies, txVars, faults>>

Status == {"NONE", "PENDING", "FAILED", "PUBLISHED", "DEAD_LETTER", "DELETED"}

TypeOK ==
  /\ created  \in [Event -> Nat]
  /\ row      \in [Event -> [status : Status, attempts : 0 .. maxAttempts]]
  /\ due      \in [Event -> BOOLEAN]
  /\ copies   \in [Event -> Nat]
  /\ selected \in [Publisher -> SUBSET Event]
  /\ batch    \in [Publisher -> SUBSET Event]
  /\ outcome  \in [Publisher -> {"none", "nil", "error"}]
  /\ sent     \in [Publisher -> SUBSET Event]
  /\ failed   \in [Publisher -> SUBSET Event]
  /\ faults   \in 0 .. MaxFaults

Init ==
  /\ created  = [e \in Event |-> 0]
  /\ row      = [e \in Event |-> [status |-> "NONE", attempts |-> 0]]
  /\ due      = [e \in Event |-> TRUE]
  /\ copies   = [e \in Event |-> 0]
  /\ selected = [p \in Publisher |-> {}]
  /\ batch    = [p \in Publisher |-> {}]
  /\ outcome  = [p \in Publisher |-> "none"]
  /\ sent     = [p \in Publisher |-> {}]
  /\ failed   = [p \in Publisher |-> {}]
  /\ faults   = 0

-----------------------------------------------------------------------------
\* The transaction of a payment inserts the row (Sales, ProcessPaymentTx).  NOW()
\* is the time at which it began, so that rows need not appear in the order of
\* created_at.
Record(e) ==
  /\ row[e].status = "NONE"
  /\ row' = [row EXCEPT ![e].status = "PENDING"]
  /\ \E t \in 1 .. Cardinality(Event) :
       /\ \A f \in Event : created[f] # t
       /\ created' = [created EXCEPT ![e] = t]
  /\ UNCHANGED <<due, copies, txVars, faults>>

\* The rows that the WHERE of the selection accepts.
Selectable(e) ==
  /\ row[e].status \in {"PENDING", "FAILED"}
  /\ due[e]
  /\ row[e].attempts < maxAttempts

\* Mutant: the selection without FOR UPDATE SKIP LOCKED.
NeverLocked(e) == FALSE

Locked(e) == \E p \in Publisher : e \in selected[p]

Free == {e \in Event : Selectable(e) /\ ~Locked(e)}

\* ORDER BY created_at ASC.
Before(e, f) == created[e] <= created[f]
Oldest(e, S) == e \in S /\ \A f \in S : Before(e, f)

\* SELECT ... ORDER BY created_at LIMIT n FOR UPDATE SKIP LOCKED.  (A batch of
\* no rows changes nothing.)
SelectBatch(p) ==
  /\ selected[p] = {}
  /\ \E chosen \in SUBSET Free :
       /\ chosen # {}
       /\ chosen = Free \/ Cardinality(chosen) = BatchSize
       /\ Cardinality(chosen) <= BatchSize
       /\ \A e \in chosen, f \in Free \ chosen : Before(e, f)
       /\ batch'    = [batch EXCEPT ![p] = chosen]
       /\ selected' = [selected EXCEPT ![p] = chosen]
  /\ UNCHANGED <<created, row, due, copies, outcome, sent, failed, faults>>

\* PublishJSON: module PublishConfirm tells what it may return.  Nothing cancels
\* the context of the publisher, so that nil means that a queue took the
\* message, except for an unroutable one whose return is overlooked.  An error
\* leaves the message in a queue only when the connection broke (a fault).
PublishJSON(p) ==
  \E e \in batch[p] :
    LET Enqueued == copies' = [copies EXCEPT ![e] = @ + 1]
        Returned(result) == outcome' = [outcome EXCEPT ![p] = result]
    IN  /\ Oldest(e, batch[p])
        /\ outcome[p] = "none"
        /\ \/ e \in Routable /\ Enqueued /\ Returned("nil") /\ UNCHANGED faults
           \/ /\ e \in Routable /\ faults < MaxFaults
              /\ Enqueued /\ Returned("error") /\ faults' = faults + 1
           \/ UNCHANGED <<copies, faults>> /\ Returned("error")
           \/ e \notin Routable /\ UNCHANGED <<copies, faults>> /\ Returned("nil")
        /\ UNCHANGED <<created, row, due, selected, batch, sent, failed>>

\* Mutant: an error of PublishJSON is logged and the event marked published.
MarkedAnyway(p) ==
  \E e \in batch[p] :
    /\ Oldest(e, batch[p])
    /\ outcome[p] # "none"
    /\ batch'   = [batch EXCEPT ![p] = @ \ {e}]
    /\ outcome' = [outcome EXCEPT ![p] = "none"]
    /\ sent'    = [sent EXCEPT ![p] = @ \cup {e}]
    /\ UNCHANGED <<created, row, due, copies, selected, failed, faults>>

\* markPublished or markFailed, inside the transaction.
Mark(p) ==
  \E e \in batch[p] :
    /\ Oldest(e, batch[p])
    /\ outcome[p] # "none"
    /\ batch'   = [batch EXCEPT ![p] = @ \ {e}]
    /\ outcome' = [outcome EXCEPT ![p] = "none"]
    /\ IF outcome[p] = "nil"
       THEN sent' = [sent EXCEPT ![p] = @ \cup {e}] /\ UNCHANGED failed
       ELSE failed' = [failed EXCEPT ![p] = @ \cup {e}] /\ UNCHANGED sent
    /\ UNCHANGED <<created, row, due, copies, selected, faults>>

\* Mutant: nextAttempts > maxAttempts in markFailed.
OneAttemptMore(r) ==
  [status |-> IF r.attempts + 1 > maxAttempts THEN "DEAD_LETTER" ELSE "FAILED",
   attempts |-> r.attempts + 1]

\* Mutant: markFailed leaves attempts to the first failure.
NeverCounted(r) ==
  [status |-> IF r.attempts + 1 >= maxAttempts THEN "DEAD_LETTER" ELSE "FAILED",
   attempts |-> 1]

\* Mutant: markFailed does not count the first failure from 0.
CountedTwice(r) ==
  [status |-> IF r.attempts + 1 >= maxAttempts THEN "DEAD_LETTER" ELSE "FAILED",
   attempts |-> r.attempts + 2]

\* What markFailed writes.
FailedRow(r) ==
  [status |-> IF r.attempts + 1 >= maxAttempts THEN "DEAD_LETTER" ELSE "FAILED",
   attempts |-> r.attempts + 1]

\* The transaction of p is over, and with it its locks.
TxEnds(p) ==
  /\ selected' = [selected EXCEPT ![p] = {}]
  /\ batch'    = [batch EXCEPT ![p] = {}]
  /\ outcome'  = [outcome EXCEPT ![p] = "none"]
  /\ sent'     = [sent EXCEPT ![p] = {}]
  /\ failed'   = [failed EXCEPT ![p] = {}]

\* tx.Commit: nextBackoff puts a failed event off.
Commit(p) ==
  /\ selected[p] # {}
  /\ batch[p] = {}
  /\ row' = [e \in Event |->
               IF e \in sent[p] THEN [row[e] EXCEPT !.status = "PUBLISHED"]
               ELSE IF e \in failed[p] THEN FailedRow(row[e])
               ELSE row[e]]
  /\ due' = [e \in Event |-> due[e] /\ e \notin failed[p]]
  /\ TxEnds(p)
  /\ UNCHANGED <<created, copies, faults>>

\* A statement or the commit fails, or the process dies: everything that the
\* transaction wrote is undone, of the events already published too.
Abort(p) ==
  /\ selected[p] # {}
  /\ faults < MaxFaults
  /\ faults' = faults + 1
  /\ TxEnds(p)
  /\ UNCHANGED <<created, row, due, copies>>

\* The backoff of a failed event runs out.
BecomeDue(e) ==
  /\ ~due[e]
  /\ due' = [due EXCEPT ![e] = TRUE]
  /\ UNCHANGED <<created, row, copies, txVars, faults>>

\* Cleanup deletes events published long ago.
Cleanup(e) ==
  /\ row[e].status = "PUBLISHED"
  /\ row' = [row EXCEPT ![e].status = "DELETED"]
  /\ UNCHANGED <<created, due, copies, txVars, faults>>

PublisherStep(p) == SelectBatch(p) \/ PublishJSON(p) \/ Mark(p) \/ Commit(p)

Next ==
  \/ \E e \in Event : Record(e) \/ BecomeDue(e) \/ Cleanup(e)
  \/ \E p \in Publisher : PublisherStep(p) \/ Abort(p)

Spec == Init /\ [][Next]_vars

\* The ticker of Run starts a batch every second, and a batch goes on.
FairSpec ==
  /\ Spec
  /\ \A p \in Publisher : WF_vars(PublisherStep(p))
  /\ \A e \in Event : WF_vars(BecomeDue(e))

-----------------------------------------------------------------------------
(* Properties.                                                              *)

\* An event is published to its queue once, plus at most once for each batch
\* that was undone or confirmation that was lost: no two publishers hold the
\* same event.  (SKIP LOCKED of PublishPending.)
CopiesBounded == \A e \in Event : copies[e] <= 1 + faults

\* A row that is still open can be selected again, sooner or later: no event
\* runs out of attempts without becoming DEAD_LETTER.  (docs/flows.md:197.)
OpenIsSelectable ==
  \A e \in Event :
    /\ row[e].status \in {"PENDING", "FAILED"} => row[e].attempts < maxAttempts
    /\ row[e].status = "DEAD_LETTER" => row[e].attempts = maxAttempts

\* The promise knows of a row only this.
RelayState(status) ==
  CASE status = "NONE"                  -> "none"
    [] status \in {"PENDING", "FAILED"} -> "open"
    [] status = "PUBLISHED"             -> "published"
    [] status = "DEAD_LETTER"           -> "given up"
    [] OTHER                            -> "deleted"

\* The outbox keeps its promise to the payment that recorded the event.
Relay == INSTANCE EventRelay WITH
  state <- [e \in Event |-> RelayState(row[e].status)]
RelaySpec == Relay!Spec

\* Every recorded event ends published or given up, with two publishers, aborted
\* batches and a broker that refuses it any number of times.
EventDecided ==
  \A e \in Event :
    row[e].status = "PENDING" ~> row[e].status \in {"PUBLISHED", "DEAD_LETTER", "DELETED"}
=============================================================================
