---------------------------- MODULE SaleLifecycle ----------------------------
(***************************************************************************)
(* What the service promises about the life of one sale, whatever happens   *)
(* between the HTTP API, the broker, the worker and the database:           *)
(*                                                                          *)
(*   a sale that the API accepted is either reserved once or set aside in   *)
(*   the dead letter queue; a reserved sale is settled once, by an approved *)
(*   or a failed payment; a settled sale is never touched again and leaves  *)
(*   exactly one event, of the type that tells how it was settled, in the   *)
(*   outbox.                                                                *)
(*                                                                          *)
(* The detailed specification is Sales; MCSales checks, and SalesProofs     *)
(* proves, that Sales with one worker process implements this one.          *)
(***************************************************************************)
EXTENDS Sequences

CONSTANT Sale           \* identifiers of the sales a behaviour may contain

VARIABLES
  sale,                 \* [Sale -> status of the row of table sales]
  outbox                \* [Sale -> sequence of event types enqueued for it]

vars == <<sale, outbox>>

SaleStatus == {"NONE", "PENDING_PAYMENT", "COMPLETED", "FAILED"}
EventType  == {"SALE_COMPLETED", "SALE_FAILED"}

\* The event that a settled status is announced with.
EventOf(status) == IF status = "COMPLETED" THEN "SALE_COMPLETED" ELSE "SALE_FAILED"

Init ==
  /\ sale   = [s \in Sale |-> "NONE"]
  /\ outbox = [s \in Sale |-> <<>>]

\* The reservation commits: the sale waits for its payment.
Reserved(s) ==
  /\ sale[s] = "NONE"
  /\ sale' = [sale EXCEPT ![s] = "PENDING_PAYMENT"]
  /\ UNCHANGED outbox

\* The payment commits, together with the event that announces it.
Settled(s, status) ==
  /\ sale[s] = "PENDING_PAYMENT"
  /\ sale'   = [sale EXCEPT ![s] = status]
  /\ outbox' = [outbox EXCEPT ![s] = Append(@, EventOf(status))]

Next ==
  \E s \in Sale :
    \/ Reserved(s)
    \/ \E status \in {"COMPLETED", "FAILED"} : Settled(s, status)

Spec == Init /\ [][Next]_vars
=============================================================================
