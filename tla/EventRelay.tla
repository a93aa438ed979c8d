------------------------------ MODULE EventRelay ------------------------------
(***************************************************************************)
(* What the outbox promises about an event that a transaction recorded: it  *)
(* stays open, and may be sent, any number of times, until it is closed;    *)
(* it is closed as published only when a queue took it, or else given up;   *)
(* a closed event is never sent again, and only a published one is deleted. *)
(* OutboxPublisher implements this.                                         *)
(***************************************************************************)
EXTENDS Integers

CONSTANTS
  Event,        \* events that a behaviour may record
  Routable      \* those whose routing key has a queue

VARIABLES
  state,        \* [Event -> "none", "open", "published", "given up", "deleted"]
  copies        \* [Event -> messages that queues took for the event]

vars == <<state, copies>>

Init ==
  /\ state  = [e \in Event |-> "none"]
  /\ copies = [e \in Event |-> 0]

Record(e) ==
  /\ state[e] = "none"
  /\ state' = [state EXCEPT ![e] = "open"]
  /\ UNCHANGED copies

Send(e) ==
  /\ state[e] = "open"
  /\ copies' = [copies EXCEPT ![e] = @ + 1]
  /\ UNCHANGED state

\* One commit closes the events of a batch.
CloseEvents(published, givenUp) ==
  /\ \A e \in published \cup givenUp : state[e] = "open"
  /\ \A e \in published \cap Routable : copies[e] > 0
  /\ state' = [e \in Event |-> IF e \in published THEN "published"
                               ELSE IF e \in givenUp THEN "given up" ELSE state[e]]
  /\ UNCHANGED copies

Delete(e) ==
  /\ state[e] = "published"
  /\ state' = [state EXCEPT ![e] = "deleted"]
  /\ UNCHANGED copies

Next ==
  \/ \E e \in Event : Record(e) \/ Send(e) \/ Delete(e)
  \/ \E published, givenUp \in SUBSET Event : CloseEvents(published, givenUp)

Spec == Init /\ [][Next]_vars
=============================================================================
