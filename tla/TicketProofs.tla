---------------------------- MODULE TicketProofs ----------------------------
(***************************************************************************)
(* The delivery of tickets by email, for any number of sales, consumers,    *)
(* retriers, messages and faults:                                           *)
(*                                                                          *)
(*   TicketInvariant    TicketInv, the inductive invariant                  *)
(*   TicketTypeCorrect  TypeOK                                              *)
(*   SentTrue           SentIsTrue                                          *)
(*   Emails             EmailsBounded                                       *)
(*   OnRecord           UnsentIsOnRecord                                    *)
(***************************************************************************)
EXTENDS TicketDelivery, FiniteSetTheorems, TLAPS

\* A row that a retrier holds stays FAILED, is held by it alone, and is sent
\* once in its transaction.
Holding ==
  /\ \A r \in Retrier : todo[r] \cap delivered[r] = {}
  /\ \A r \in Retrier : \A s \in locked[r] : note[s].status = "FAILED"
  /\ \A r, q \in Retrier : r # q => locked[r] \cap locked[q] = {}

\* The email of the delivery is not out yet, or is not known to be out.
Undecided == {"received", "preparing", "sending", "failing"}

\* Emails go out after the tickets are issued, marks after the emails.
RowInOrder(s) ==
  /\ note[s].status = "SENT" => inbox[s] > 0
  /\ s \in emailed => inbox[s] > 0
  /\ inbox[s] > 0 => s \in issued
  /\ note[s].status # "NONE" => s \in issued
  /\ s \in issued /\ inbox[s] = 0 => note[s].status # "NONE"

ConsumerInOrder(c) ==
  /\ pc[c] \in {"marking", "stamping", "ack"} => inbox[handling[c]] > 0
  /\ pc[c] \in {"sending", "failing"} => handling[c] \in issued

RetrierInOrder(r) == \A s \in delivered[r] : inbox[s] > 0

InOrder ==
  /\ \A s \in Sale : RowInOrder(s)
  /\ \A c \in Consumer : ConsumerInOrder(c)
  /\ \A r \in Retrier : RetrierInOrder(r)

\* Consumers that may send the tickets of s, or hand them over to a retrier.
Sending(s) == {c \in Consumer : pc[c] \in Undecided /\ handling[c] = s}

\* A retrier may send the tickets of s.
RetryOpen(s) ==
  IF note[s].status = "FAILED" /\ \A r \in Retrier : s \notin delivered[r] THEN 1 ELSE 0

\* Each message and each fault is good for one email: the emails that are out
\* and those that may still go out are no more than these.
Accounted(s) ==
  /\ IsFiniteSet(Sending(s))
  /\ inbox[s] + queue[s] + Cardinality(Sending(s)) + RetryOpen(s) <= published[s] + AllFaults

\* Somebody is still to send what was not sent, or the failure is recorded.
Pursued(s) ==
  s \in issued /\ inbox[s] = 0 /\ faults["timeout"] = 0 =>
    \/ queue[s] > 0
    \/ Sending(s) # {}
    \/ note[s].status \in {"FAILED", "DEAD_LETTER"}

Settled(s) == Accounted(s) /\ Pursued(s)

TicketInv ==
  /\ TypeOK
  /\ Holding
  /\ InOrder
  /\ \A s \in Sale : Settled(s)

-----------------------------------------------------------------------------
(* Types.                                                                   *)

LEMMA FaultCounts ==
  ASSUME TypeOK
  PROVE  /\ AllFaults \in Nat
         /\ faults' = faults => AllFaults' = AllFaults
         /\ \A kind \in FaultKind : Fault(kind) =>
              /\ faults' \in [FaultKind -> 0 .. MaxFaults]
              /\ AllFaults' = AllFaults + 1
              /\ faults'["timeout"] = faults["timeout"] + IF kind = "timeout" THEN 1 ELSE 0
<1>1. /\ faults \in [FaultKind -> 0 .. MaxFaults] /\ MaxFaults \in Nat
      /\ faults["crash"] \in Nat /\ faults["timeout"] \in Nat
      /\ faults["abort"] \in Nat /\ faults["unsure"] \in Nat
  BY DeliveryAssumption DEF TypeOK, FaultKind
<1>2. ASSUME NEW kind \in FaultKind, Fault(kind)
      PROVE  /\ faults' \in [FaultKind -> 0 .. MaxFaults]
             /\ AllFaults' = AllFaults + 1
             /\ faults'["timeout"] = faults["timeout"] + IF kind = "timeout" THEN 1 ELSE 0
  <2>1. faults[kind] \in Nat /\ faults[kind] + 1 <= MaxFaults
    BY <1>1, <1>2 DEF Fault, AllFaults, FaultKind
  <2>2. faults' \in [FaultKind -> 0 .. MaxFaults]
    BY <1>1, <1>2, <2>1 DEF Fault
  <2>3. \A k \in FaultKind : faults'[k] = IF k = kind THEN faults[k] + 1 ELSE faults[k]
    BY <1>1, <1>2 DEF Fault
  <2> QED
    BY <1>1, <2>2, <2>3 DEF AllFaults, FaultKind
<1> QED
  BY <1>1, <1>2 DEF AllFaults

LEMMA NoteRow ==
  ASSUME NEW row \in [status : NoteStatus, attempts : Nat], NEW v \in NoteStatus
  PROVE  /\ [row EXCEPT !.status = v] \in [status : NoteStatus, attempts : Nat]
         /\ [row EXCEPT !.status = v].status = v
         /\ [row EXCEPT !.status = v].attempts = row.attempts
OBVIOUS

LEMMA ConsumerTypes ==
  ASSUME TypeOK, NEW c \in Consumer, NEW state \in ConsumerState \ {"idle"},
         pc[c] # "idle", GoTo(c, state)
  PROVE  /\ pc' \in [Consumer -> ConsumerState]
         /\ handling' \in [Consumer -> Sale \cup {NoSale}]
         /\ \A d \in Consumer : pc'[d] = "idle" <=> handling'[d] = NoSale
BY DEF TypeOK, GoTo

LEMMA AnswerTypes ==
  ASSUME TypeOK, NEW c \in Consumer,
         pc' = [pc EXCEPT ![c] = "idle"],
         handling' = [handling EXCEPT ![c] = NoSale]
  PROVE  /\ pc' \in [Consumer -> ConsumerState]
         /\ handling' \in [Consumer -> Sale \cup {NoSale}]
         /\ \A d \in Consumer : pc'[d] = "idle" <=> handling'[d] = NoSale
BY DEF TypeOK, ConsumerState

\* The row that an upsert or an UPDATE leaves.
LEMMA PreparedRow ==
  ASSUME TypeOK, NEW s \in Sale,
         note' = [note EXCEPT ![s].status = IF @ = "SENT" THEN "SENT" ELSE "PENDING"]
  PROVE  /\ note' \in [Sale -> [status : NoteStatus, attempts : Nat]]
         /\ \A x \in Sale : x # s => note'[x] = note[x]
         /\ note'[s].status = IF note[s].status = "SENT" THEN "SENT" ELSE "PENDING"
<1> DEFINE v == IF note[s].status = "SENT" THEN "SENT" ELSE "PENDING"
           row == [note[s] EXCEPT !.status = v]
<1>1. v \in NoteStatus
  BY DEF NoteStatus
<1>2. note[s] \in [status : NoteStatus, attempts : Nat]
  BY DEF TypeOK
<1>3. note' = [note EXCEPT ![s] = row]
  OBVIOUS
<1> HIDE DEF v
<1>4. row \in [status : NoteStatus, attempts : Nat] /\ row.status = v
  BY <1>1, <1>2, NoteRow
<1> HIDE DEF row
<1>5. note' \in [Sale -> [status : NoteStatus, attempts : Nat]]
  BY <1>3, <1>4 DEF TypeOK
<1>6. note'[s].status = v /\ \A x \in Sale : x # s => note'[x] = note[x]
  BY <1>3, <1>4 DEF TypeOK
<1> QED
  BY <1>5, <1>6 DEF v

LEMMA UpdatedRow ==
  ASSUME TypeOK, NEW s \in Sale, NEW status \in NoteStatus, NEW n \in Nat,
         UpdateNote(s, status, n)
  PROVE  /\ note' \in [Sale -> [status : NoteStatus, attempts : Nat]]
         /\ \A x \in Sale : x # s => note'[x] = note[x]
         /\ note[s].status = "NONE" => note' = note
         /\ note[s].status # "NONE" => note'[s].status = status
BY DEF UpdateNote, TypeOK

\* What the commit of a retrier makes of the rows.
LEMMA RetriedRow ==
  ASSUME TypeOK, NEW r \in Retrier, CommitRetries(r), NEW s \in Sale
  PROVE  /\ note'[s] \in [status : NoteStatus, attempts : Nat]
         /\ s \in delivered[r] => note'[s].status = "SENT"
         /\ s \in locked[r] /\ s \notin delivered[r]
              => note'[s].status \in {"FAILED", "DEAD_LETTER"}
         /\ s \notin locked[r] => note'[s] = note[s]
<1>1. note[s] \in [status : NoteStatus, attempts : Nat] /\ delivered[r] \subseteq locked[r]
  BY DEF TypeOK
<1>2. "SENT" \in NoteStatus /\ "FAILED" \in NoteStatus /\ "DEAD_LETTER" \in NoteStatus
  BY DEF NoteStatus
<1>3. CASE s \in delivered[r]
  <2>1. note'[s] = [note[s] EXCEPT !.status = "SENT"]
    BY <1>3 DEF CommitRetries
  <2> QED
    BY <1>1, <1>2, <1>3, <2>1, NoteRow
<1>4. CASE s \in locked[r] /\ s \notin delivered[r]
  <2>1. note'[s] = FailedAgain(note[s])
    BY <1>4 DEF CommitRetries
  <2>2. /\ FailedAgain(note[s]) \in [status : NoteStatus, attempts : Nat]
        /\ FailedAgain(note[s]).status \in {"FAILED", "DEAD_LETTER"}
    BY <1>1, <1>2 DEF FailedAgain
  <2> QED
    BY <1>4, <2>1, <2>2
<1>5. CASE s \notin locked[r]
  <2>1. note'[s] = note[s]
    BY <1>1, <1>5 DEF CommitRetries
  <2> QED
    BY <1>1, <1>5, <2>1
<1> QED
  BY <1>3, <1>4, <1>5

LEMMA TxTypes ==
  ASSUME TypeOK, NEW r \in Retrier, TxEnds(r)
  PROVE  /\ locked' \in [Retrier -> SUBSET Sale]
         /\ todo' \in [Retrier -> SUBSET Sale]
         /\ delivered' \in [Retrier -> SUBSET Sale]
         /\ \A q \in Retrier : todo'[q] \cup delivered'[q] \subseteq locked'[q]
BY DEF TypeOK, TxEnds

LEMMA SendTypes ==
  ASSUME TypeOK, NEW c \in Consumer, NEW s \in Sale, SendTickets(c, s)
  PROVE  TypeOK'
<1>1. /\ pc[c] = "sending"
      /\ UNCHANGED <<note, due, issued, emailed, published, queue, locked, todo, delivered>>
  BY DEF SendTickets, At, queueVars, retrierVars
<1>2. inbox' \in [Sale -> Nat]
  BY DEF SendTickets, Accepted, TypeOK
<1>3. /\ pc' \in [Consumer -> ConsumerState]
      /\ handling' \in [Consumer -> Sale \cup {NoSale}]
      /\ \A d \in Consumer : pc'[d] = "idle" <=> handling'[d] = NoSale
  <2>1. PICK state \in {"marking", "failing"} : GoTo(c, state)
    BY DEF SendTickets
  <2> QED
    BY <1>1, <2>1, ConsumerTypes DEF ConsumerState
<1>4. faults' \in [FaultKind -> 0 .. MaxFaults]
  BY FaultCounts DEF SendTickets, TypeOK, FaultKind
<1> QED
  BY <1>1, <1>2, <1>3, <1>4 DEF TypeOK

LEMMA RetryTypes ==
  ASSUME TypeOK, NEW r \in Retrier, NEW s \in Sale, RetryEmail(r, s)
  PROVE  TypeOK'
<1>1. UNCHANGED <<note, due, issued, emailed, published, queue, pc, handling, locked>>
  BY DEF RetryEmail, queueVars, consumerVars
<1>2. inbox' \in [Sale -> Nat]
  BY DEF RetryEmail, Accepted, TypeOK
<1>3. /\ todo' \in [Retrier -> SUBSET Sale] /\ delivered' \in [Retrier -> SUBSET Sale]
      /\ \A q \in Retrier : todo'[q] \cup delivered'[q] \subseteq locked[q]
  <2>1. s \in locked[r]
    BY DEF RetryEmail, TypeOK
  <2>2. delivered' = delivered \/ delivered' = [delivered EXCEPT ![r] = @ \cup {s}]
    BY DEF RetryEmail
  <2>3. todo' = [todo EXCEPT ![r] = @ \ {s}]
    BY DEF RetryEmail
  <2> QED
    BY <2>1, <2>2, <2>3 DEF TypeOK
<1>4. faults' \in [FaultKind -> 0 .. MaxFaults]
  BY FaultCounts DEF RetryEmail, TypeOK, FaultKind
<1> QED
  BY <1>1, <1>2, <1>3, <1>4 DEF TypeOK

LEMMA NextTypeOK == TypeOK /\ [Next]_vars => TypeOK'
<1> SUFFICES ASSUME TypeOK, [Next]_vars PROVE TypeOK'
  OBVIOUS
<1> USE DEF mailVars, queueVars, consumerVars, retrierVars
<1>1. ASSUME NEW s \in Sale, PublishCompleted(s) PROVE TypeOK'
  BY <1>1, DeliveryAssumption DEF PublishCompleted, TypeOK
<1>2. ASSUME NEW s \in Sale, BecomeDue(s) PROVE TypeOK'
  BY <1>2 DEF BecomeDue, TypeOK
<1>3. ASSUME NEW s \in Sale, Cleanup(s) PROVE TypeOK'
  BY <1>3 DEF Cleanup, TypeOK, NoNote, NoteStatus
<1>4. ASSUME NEW s \in Sale, NEW event \in ProviderEvent, RecordEmailEvent(s, event) PROVE TypeOK'
  BY <1>4 DEF RecordEmailEvent, TypeOK, NoteStatus
<1>5. ASSUME NEW c \in Consumer, NEW s \in Sale, Deliver(c, s) PROVE TypeOK'
  BY <1>5, DeliveryAssumption DEF Deliver, At, TypeOK, ConsumerState
<1>6. ASSUME NEW c \in Consumer, NEW s \in Sale, CheckSent(c, s) PROVE TypeOK'
  <2>1. PICK state \in {"ack", "preparing"} : GoTo(c, state)
    BY <1>6 DEF CheckSent
  <2> QED
    BY <1>6, <2>1, ConsumerTypes DEF CheckSent, At, ConsumerState, TypeOK
<1>7. ASSUME NEW c \in Consumer, NEW s \in Sale, PrepareTicketEmail(c, s) PROVE TypeOK'
  <2>1. note' \in [Sale -> [status : NoteStatus, attempts : Nat]]
    BY <1>7, PreparedRow DEF PrepareTicketEmail
  <2>2. /\ pc' \in [Consumer -> ConsumerState]
        /\ handling' \in [Consumer -> Sale \cup {NoSale}]
        /\ \A d \in Consumer : pc'[d] = "idle" <=> handling'[d] = NoSale
    BY <1>7, ConsumerTypes DEF PrepareTicketEmail, At, ConsumerState
  <2> QED
    BY <1>7, <2>1, <2>2 DEF PrepareTicketEmail, TypeOK
<1>8. ASSUME NEW c \in Consumer, NEW s \in Sale, MarkSent(c, s) PROVE TypeOK'
  <2>1. note' \in [Sale -> [status : NoteStatus, attempts : Nat]]
    BY <1>8, UpdatedRow DEF MarkSent, NoteStatus, TypeOK
  <2>2. /\ pc' \in [Consumer -> ConsumerState]
        /\ handling' \in [Consumer -> Sale \cup {NoSale}]
        /\ \A d \in Consumer : pc'[d] = "idle" <=> handling'[d] = NoSale
    BY <1>8, ConsumerTypes DEF MarkSent, At, ConsumerState
  <2> QED
    BY <1>8, <2>1, <2>2 DEF MarkSent, TypeOK
<1>9. ASSUME NEW c \in Consumer, NEW s \in Sale, StampTickets(c, s) PROVE TypeOK'
  BY <1>9, ConsumerTypes DEF StampTickets, At, ConsumerState, TypeOK
<1>10. ASSUME NEW c \in Consumer, NEW s \in Sale, MarkFailed(c, s) PROVE TypeOK'
  <2>1. note' \in [Sale -> [status : NoteStatus, attempts : Nat]]
    <3>1. (IF 1 >= MaxAttempts THEN "DEAD_LETTER" ELSE "FAILED") \in NoteStatus
      BY DEF NoteStatus
    <3>2. note[s].attempts + 1 \in Nat
      BY DEF TypeOK
    <3> QED
      BY <1>10, <3>1, <3>2, UpdatedRow DEF MarkFailed
  <2>2. /\ pc' \in [Consumer -> ConsumerState]
        /\ handling' \in [Consumer -> Sale \cup {NoSale}]
        /\ \A d \in Consumer : pc'[d] = "idle" <=> handling'[d] = NoSale
    BY <1>10, ConsumerTypes DEF MarkFailed, At, ConsumerState
  <2> QED
    BY <1>10, <2>1, <2>2 DEF MarkFailed, TypeOK
<1>11. ASSUME NEW c \in Consumer, HandleFails(c) PROVE TypeOK'
  <2>1. faults' \in [FaultKind -> 0 .. MaxFaults]
    BY <1>11, FaultCounts DEF HandleFails, FaultKind
  <2> QED
    BY <1>11, <2>1, ConsumerTypes DEF HandleFails, ConsumerState, TypeOK
<1>12. ASSUME NEW c \in Consumer, Answer(c) PROVE TypeOK'
  BY <1>12, AnswerTypes DEF Answer, TypeOK
<1>13. ASSUME NEW c \in Consumer, Crash(c) PROVE TypeOK'
  <2>1. faults' \in [FaultKind -> 0 .. MaxFaults]
    BY <1>13, FaultCounts DEF Crash, FaultKind
  <2>2. queue' \in [Sale -> Nat]
    BY <1>13 DEF Crash, TypeOK
  <2> QED
    BY <1>13, <2>1, <2>2, AnswerTypes DEF Crash, TypeOK
<1>14. ASSUME NEW r \in Retrier, SelectFailed(r) PROVE TypeOK'
  BY <1>14 DEF SelectFailed, TypeOK
<1>15. ASSUME NEW r \in Retrier, CommitRetries(r) PROVE TypeOK'
  <2>1. note' \in [Sale -> [status : NoteStatus, attempts : Nat]]
    <3>1. \A s \in Sale : note'[s] \in [status : NoteStatus, attempts : Nat]
      BY <1>15, RetriedRow
    <3>2. note' = [s \in Sale |-> note'[s]]
      BY <1>15 DEF CommitRetries
    <3> QED
      BY <3>1, <3>2
  <2>2. due' \in [Sale -> BOOLEAN]
    <3>1. due' = [s \in Sale |-> IF s \in locked[r] THEN s \in delivered[r] ELSE due[s]]
      BY <1>15 DEF CommitRetries
    <3>2. ASSUME NEW s \in Sale
          PROVE  (IF s \in locked[r] THEN s \in delivered[r] ELSE due[s]) \in BOOLEAN
      <4>1. due[s] \in BOOLEAN
        BY DEF TypeOK
      <4>2. (s \in delivered[r]) \in BOOLEAN
        OBVIOUS
      <4> QED
        BY <4>1, <4>2, Zenon
    <3> QED
      BY <3>1, <3>2, Zenon
  <2>3. emailed' \subseteq Sale
    BY <1>15 DEF CommitRetries, TypeOK
  <2> QED
    BY <1>15, <2>1, <2>2, <2>3, TxTypes DEF CommitRetries, TypeOK
<1>16. ASSUME NEW r \in Retrier, AbortRetries(r) PROVE TypeOK'
  <2>1. faults' \in [FaultKind -> 0 .. MaxFaults]
    BY <1>16, FaultCounts DEF AbortRetries, FaultKind
  <2> QED
    BY <1>16, <2>1, TxTypes DEF AbortRetries, TypeOK
<1>17. CASE UNCHANGED vars
  BY <1>17 DEF vars, TypeOK
<1> QED
  BY <1>1, <1>2, <1>3, <1>4, <1>5, <1>6, <1>7, <1>8, <1>9, <1>10, <1>11, <1>12, <1>13, <1>14,
     <1>15, <1>16, <1>17, SendTypes, RetryTypes DEF Next, ConsumerStep, RetrierStep

-----------------------------------------------------------------------------
(* Locks.                                                                   *)

\* A retrier takes rows that nobody holds and that failed.
LEMMA SelectHolds ==
  ASSUME TypeOK, Holding, NEW r \in Retrier, SelectFailed(r)
  PROVE  Holding'
<1>1. PICK batch \in SUBSET Sale :
        /\ \A s \in batch : note[s].status = "FAILED" /\ ~Locked(s)
        /\ locked' = [locked EXCEPT ![r] = batch]
        /\ todo' = [todo EXCEPT ![r] = batch]
  BY DEF SelectFailed, Retriable
<1>2. locked[r] = {} /\ UNCHANGED <<note, delivered>>
  BY DEF SelectFailed, mailVars
<1>3. delivered[r] = {}
  BY <1>2 DEF TypeOK
<1>4. \A q \in Retrier : /\ locked'[q] = IF q = r THEN batch ELSE locked[q]
                         /\ todo'[q] = IF q = r THEN batch ELSE todo[q]
  BY <1>1 DEF TypeOK
<1>5. \A q \in Retrier : todo'[q] \cap delivered'[q] = {}
  BY <1>2, <1>3, <1>4 DEF Holding
<1>6. \A q \in Retrier : \A s \in locked'[q] : note'[s].status = "FAILED"
  BY <1>1, <1>2, <1>4 DEF Holding
<1>7. \A q \in Retrier : batch \cap locked[q] = {}
  BY <1>1 DEF Locked
<1>8. \A q, p \in Retrier : q # p => locked'[q] \cap locked'[p] = {}
  BY <1>4, <1>7 DEF Holding
<1> QED
  BY <1>5, <1>6, <1>8 DEF Holding

\* A step that changes no lock changes no row that is locked.
LEMMA RowsHeld ==
  ASSUME TypeOK, Holding, UNCHANGED retrierVars, NEW s \in Sale,
         \A x \in Sale : x # s => note'[x] = note[x],
         ~Locked(s) \/ note'[s] = note[s]
  PROVE  Holding'
<1>1. \A r \in Retrier : locked[r] \subseteq Sale
  BY DEF TypeOK
<1> QED
  BY <1>1 DEF Holding, Locked, retrierVars

LEMMA TxHolds ==
  ASSUME TypeOK, Holding, NEW r \in Retrier, TxEnds(r),
         \A x \in Sale : x \notin locked[r] => note'[x] = note[x]
  PROVE  Holding'
<1>1. \A q \in Retrier :
        /\ locked'[q] = IF q = r THEN {} ELSE locked[q]
        /\ todo'[q] = IF q = r THEN {} ELSE todo[q]
        /\ delivered'[q] = IF q = r THEN {} ELSE delivered[q]
        /\ locked[q] \subseteq Sale
  BY DEF TxEnds, TypeOK
<1>2. \A q \in Retrier : \A s \in locked'[q] : note'[s].status = "FAILED"
  BY <1>1 DEF Holding
<1> QED
  BY <1>1, <1>2 DEF Holding

LEMMA HoldingKept == TypeOK /\ Holding /\ [Next]_vars => Holding'
<1> SUFFICES ASSUME TypeOK, Holding, [Next]_vars PROVE Holding'
  OBVIOUS
<1> USE DEF mailVars, queueVars, consumerVars
<1>1. ASSUME NEW s \in Sale, PublishCompleted(s) PROVE Holding'
  BY <1>1 DEF PublishCompleted, Holding, retrierVars
<1>2. ASSUME NEW s \in Sale, BecomeDue(s) PROVE Holding'
  BY <1>2 DEF BecomeDue, Holding, retrierVars
<1>3. ASSUME NEW s \in Sale, Cleanup(s) PROVE Holding'
  <2>1. ~Locked(s)
    BY <1>3 DEF Cleanup, Holding, Locked
  <2>2. \A x \in Sale : x # s => note'[x] = note[x]
    BY <1>3 DEF Cleanup, TypeOK
  <2> QED
    BY <1>3, <2>1, <2>2, RowsHeld DEF Cleanup
<1>4. ASSUME NEW s \in Sale, NEW event \in ProviderEvent, RecordEmailEvent(s, event) PROVE Holding'
  <2>1. \A x \in Sale : x # s => note'[x] = note[x]
    BY <1>4 DEF RecordEmailEvent, TypeOK
  <2> QED
    BY <1>4, <2>1, RowsHeld DEF RecordEmailEvent
<1>5. ASSUME NEW c \in Consumer,
             \/ \E s \in Sale : \/ Deliver(c, s) \/ CheckSent(c, s)
                               \/ SendTickets(c, s) \/ StampTickets(c, s)
             \/ HandleFails(c) \/ Answer(c) \/ Crash(c)
      PROVE  Holding'
  <2>1. UNCHANGED <<note, retrierVars>>
    BY <1>5 DEF Deliver, CheckSent, SendTickets, StampTickets, HandleFails, Answer, Crash
  <2> QED
    BY <2>1 DEF Holding, retrierVars
<1>6. ASSUME NEW c \in Consumer, NEW s \in Sale, PrepareTicketEmail(c, s) PROVE Holding'
  BY <1>6, PreparedRow, RowsHeld DEF PrepareTicketEmail
<1>7. ASSUME NEW c \in Consumer, NEW s \in Sale, MarkSent(c, s) \/ MarkFailed(c, s) PROVE Holding'
  <2>1. ~Locked(s) /\ UNCHANGED retrierVars
    BY <1>7 DEF MarkSent, MarkFailed
  <2>2. \A x \in Sale : x # s => note'[x] = note[x]
    BY <1>7 DEF MarkSent, MarkFailed, UpdateNote, TypeOK
  <2> QED
    BY <2>1, <2>2, RowsHeld
<1>8. ASSUME NEW r \in Retrier, NEW s \in Sale, RetryEmail(r, s) PROVE Holding'
  <2>1. UNCHANGED <<note, locked>>
    BY <1>8 DEF RetryEmail
  <2>2. /\ todo' = [todo EXCEPT ![r] = @ \ {s}]
        /\ delivered' = delivered \/ delivered' = [delivered EXCEPT ![r] = @ \cup {s}]
    BY <1>8 DEF RetryEmail
  <2>3. \A q \in Retrier : todo'[q] \cap delivered'[q] = {}
    BY <2>2 DEF Holding, TypeOK
  <2> QED
    BY <2>1, <2>3 DEF Holding
<1>9. ASSUME NEW r \in Retrier, CommitRetries(r) PROVE Holding'
  BY <1>9, RetriedRow, TxHolds DEF CommitRetries
<1>10. ASSUME NEW r \in Retrier, AbortRetries(r) PROVE Holding'
  BY <1>10, TxHolds DEF AbortRetries
<1>11. CASE UNCHANGED vars
  BY <1>11 DEF vars, Holding, retrierVars
<1> QED
  BY <1>1, <1>2, <1>3, <1>4, <1>5, <1>6, <1>7, <1>8, <1>9, <1>10, <1>11, SelectHolds
     DEF Next, ConsumerStep, RetrierStep

-----------------------------------------------------------------------------
(* Order.                                                                   *)

\* What consumers and retriers know stays true: emails are not taken back, and
\* issued tickets stay.
LEMMA OthersInOrder ==
  ASSUME TypeOK, InOrder, issued \subseteq issued',
         \A s \in Sale : inbox[s] > 0 => inbox'[s] > 0
  PROVE  /\ \A c \in Consumer :
              pc'[c] = pc[c] /\ handling'[c] = handling[c] => ConsumerInOrder(c)'
         /\ \A r \in Retrier : delivered'[r] \subseteq delivered[r] => RetrierInOrder(r)'
<1>1. ASSUME NEW c \in Consumer, pc'[c] = pc[c], handling'[c] = handling[c]
      PROVE  ConsumerInOrder(c)'
  <2>1. pc[c] # "idle" => handling[c] \in Sale
    BY DEF TypeOK
  <2> QED
    BY <1>1, <2>1 DEF InOrder, ConsumerInOrder
<1>2. ASSUME NEW r \in Retrier, delivered'[r] \subseteq delivered[r] PROVE RetrierInOrder(r)'
  <2>1. delivered[r] \subseteq Sale
    BY DEF TypeOK
  <2> QED
    BY <1>2, <2>1 DEF InOrder, RetrierInOrder
<1> QED
  BY <1>1, <1>2

\* The point of a consumer after a step of its own.
LEMMA MovedOn ==
  ASSUME TypeOK, NEW c \in Consumer, NEW state, GoTo(c, state)
  PROVE  /\ pc'[c] = state /\ handling' = handling
         /\ \A d \in Consumer : d # c => pc'[d] = pc[d]
BY DEF GoTo, TypeOK

LEMMA SentOut ==
  ASSUME TypeOK, NEW s \in Sale, Accepted(s)
  PROVE  /\ inbox'[s] = inbox[s] + 1 /\ inbox[s] \in Nat
         /\ \A x \in Sale : x # s => inbox'[x] = inbox[x]
BY DEF Accepted, TypeOK

\* A step that writes nothing but the row of s.
LEMMA RowKept ==
  ASSUME TypeOK, InOrder, NEW s \in Sale, UNCHANGED <<issued, emailed, inbox>>,
         UNCHANGED consumerVars, UNCHANGED retrierVars,
         \A x \in Sale : x # s => note'[x] = note[x],
         RowInOrder(s)'
  PROVE  InOrder'
<1>1. \A x \in Sale : RowInOrder(x)'
  BY DEF InOrder, RowInOrder
<1> QED
  BY <1>1, OthersInOrder DEF InOrder, consumerVars, retrierVars

LEMMA ConsumerKeepsOrder ==
  ASSUME TypeOK, InOrder, NEW c \in Consumer, NEW s \in Sale,
         \/ CheckSent(c, s) \/ PrepareTicketEmail(c, s) \/ SendTickets(c, s)
         \/ MarkSent(c, s) \/ StampTickets(c, s) \/ MarkFailed(c, s)
  PROVE  InOrder'
<1> USE DEF mailVars, queueVars, retrierVars
<1>1. handling[c] = s
  BY DEF CheckSent, PrepareTicketEmail, SendTickets, MarkSent, StampTickets, MarkFailed, At
<1>2. RowInOrder(s) /\ ConsumerInOrder(c)
  BY DEF InOrder
<1>3. /\ issued \subseteq issued'
      /\ \A x \in Sale : inbox[x] > 0 => inbox'[x] > 0
  <2>1. inbox' = inbox \/ Accepted(s)
    BY DEF CheckSent, PrepareTicketEmail, SendTickets, MarkSent, StampTickets, MarkFailed
  <2> QED
    BY <2>1, SentOut
       DEF CheckSent, PrepareTicketEmail, SendTickets, MarkSent, StampTickets, MarkFailed
<1>4. /\ \A x \in Sale : x # s =>
           /\ note'[x] = note[x] /\ inbox'[x] = inbox[x]
           /\ x \in issued' <=> x \in issued
           /\ x \in emailed' <=> x \in emailed
      /\ RowInOrder(s)' /\ ConsumerInOrder(c)'
      /\ handling' = handling /\ \A d \in Consumer : d # c => pc'[d] = pc[d]
  <2>1. CASE CheckSent(c, s)
    BY <1>1, <1>2, <2>1, MovedOn DEF CheckSent, AlreadySent, RowInOrder, ConsumerInOrder
  <2>2. CASE PrepareTicketEmail(c, s)
    BY <1>1, <1>2, <2>2, MovedOn, PreparedRow
       DEF PrepareTicketEmail, RowInOrder, ConsumerInOrder, TypeOK
  <2>3. CASE SendTickets(c, s)
    <3>1. pc[c] = "sending" /\ s \in issued /\ UNCHANGED <<note, issued, emailed>>
      BY <1>1, <1>2, <2>3 DEF SendTickets, At, ConsumerInOrder
    <3>2. CASE Accepted(s) /\ (GoTo(c, "marking") \/ GoTo(c, "failing"))
      BY <1>1, <1>2, <3>1, <3>2, MovedOn, SentOut DEF RowInOrder, ConsumerInOrder
    <3>3. CASE GoTo(c, "failing") /\ UNCHANGED inbox
      BY <1>1, <1>2, <3>1, <3>3, MovedOn DEF RowInOrder, ConsumerInOrder
    <3> QED
      BY <2>3, <3>2, <3>3 DEF SendTickets
  <2>4. CASE MarkSent(c, s)
    <3>1. /\ \A x \in Sale : x # s => note'[x] = note[x]
          /\ note[s].status = "NONE" => note' = note
          /\ note[s].status # "NONE" => note'[s].status = "SENT"
      BY <2>4, UpdatedRow DEF MarkSent, NoteStatus, TypeOK
    <3> QED
      BY <1>1, <1>2, <2>4, <3>1, MovedOn DEF MarkSent, At, RowInOrder, ConsumerInOrder
  <2>5. CASE StampTickets(c, s)
    BY <1>1, <1>2, <2>5, MovedOn DEF StampTickets, At, RowInOrder, ConsumerInOrder
  <2>6. CASE MarkFailed(c, s)
    <3>1. /\ \A x \in Sale : x # s => note'[x] = note[x]
          /\ note[s].status = "NONE" => note' = note
          /\ note[s].status # "NONE" => note'[s].status \in {"FAILED", "DEAD_LETTER"}
      BY <2>6 DEF MarkFailed, UpdateNote, TypeOK
    <3> QED
      BY <1>1, <1>2, <2>6, <3>1, MovedOn DEF MarkFailed, At, RowInOrder, ConsumerInOrder
  <2> QED
    BY <2>1, <2>2, <2>3, <2>4, <2>5, <2>6
<1>5. \A x \in Sale : RowInOrder(x)'
  BY <1>4 DEF InOrder, RowInOrder
<1>6. \A d \in Consumer : ConsumerInOrder(d)'
  BY <1>3, <1>4, OthersInOrder
<1>7. UNCHANGED delivered
  BY DEF CheckSent, PrepareTicketEmail, SendTickets, MarkSent, StampTickets, MarkFailed
<1> QED
  BY <1>3, <1>5, <1>6, <1>7, OthersInOrder DEF InOrder

LEMMA RetrierKeepsOrder ==
  ASSUME TypeOK, Holding, InOrder, NEW r \in Retrier,
         (\E s \in Sale : RetryEmail(r, s)) \/ CommitRetries(r) \/ AbortRetries(r)
  PROVE  InOrder'
<1> USE DEF mailVars, queueVars, consumerVars
<1>1. UNCHANGED <<issued, pc, handling>>
  BY DEF RetryEmail, CommitRetries, AbortRetries
<1>2. ASSUME NEW s \in Sale, RetryEmail(r, s) PROVE InOrder'
  <2>1. s \in issued /\ UNCHANGED <<note, emailed>>
    <3>1. s \in locked[r]
      BY <1>2 DEF RetryEmail, TypeOK
    <3>2. note[s].status # "NONE"
      BY <3>1 DEF Holding
    <3> QED
      BY <1>2, <3>2 DEF RetryEmail, InOrder, RowInOrder
  <2>2. /\ \A x \in Sale : inbox[x] > 0 => inbox'[x] > 0
        /\ \A x \in Sale : x # s => inbox'[x] = inbox[x]
        /\ RowInOrder(s)'
    BY <1>1, <1>2, <2>1, SentOut DEF RetryEmail, InOrder, RowInOrder
  <2>3. \A x \in Sale : RowInOrder(x)'
    BY <1>1, <2>1, <2>2 DEF InOrder, RowInOrder
  <2>4. RetrierInOrder(r)' /\ \A q \in Retrier : q # r => delivered'[q] = delivered[q]
    <3>1. CASE Accepted(s) /\ delivered' = [delivered EXCEPT ![r] = @ \cup {s}]
      <4>1. /\ delivered'[r] = delivered[r] \cup {s} /\ delivered[r] \subseteq Sale
            /\ \A q \in Retrier : q # r => delivered'[q] = delivered[q]
        BY <3>1 DEF TypeOK
      <4>2. inbox'[s] > 0
        BY <3>1, SentOut
      <4> QED
        BY <2>2, <4>1, <4>2 DEF InOrder, RetrierInOrder
    <3>2. CASE UNCHANGED delivered
      BY <1>1, <2>2, <3>2, OthersInOrder
    <3> QED
      BY <1>2, <3>1, <3>2 DEF RetryEmail
  <2> QED
    BY <1>1, <2>2, <2>3, <2>4, OthersInOrder DEF InOrder
<1>3. ASSUME CommitRetries(r) PROVE InOrder'
  <2>1. UNCHANGED inbox /\ emailed' = emailed \cup delivered[r]
    BY <1>3 DEF CommitRetries
  <2>2. \A q \in Retrier : delivered'[q] \subseteq delivered[q]
    BY <1>3 DEF CommitRetries, TxEnds, TypeOK
  <2>3. ASSUME NEW s \in Sale PROVE RowInOrder(s)'
    <3>1. RowInOrder(s) /\ (s \in delivered[r] => inbox[s] > 0)
      BY DEF InOrder, RetrierInOrder
    <3>2. /\ s \in delivered[r] => s \in locked[r] /\ note'[s].status = "SENT"
          /\ s \in locked[r] /\ s \notin delivered[r]
               => note'[s].status \in {"FAILED", "DEAD_LETTER"}
          /\ s \notin locked[r] => note'[s] = note[s]
      BY <1>3, RetriedRow DEF TypeOK
    <3>3. s \in locked[r] => note[s].status = "FAILED"
      BY DEF Holding
    <3> QED
      BY <1>1, <2>1, <3>1, <3>2, <3>3 DEF RowInOrder
  <2> QED
    BY <1>1, <2>1, <2>2, <2>3, OthersInOrder DEF InOrder
<1>4. ASSUME AbortRetries(r) PROVE InOrder'
  <2>1. UNCHANGED <<note, emailed, inbox>>
    BY <1>4 DEF AbortRetries
  <2>2. \A q \in Retrier : delivered'[q] \subseteq delivered[q]
    BY <1>4 DEF AbortRetries, TxEnds, TypeOK
  <2>3. \A s \in Sale : RowInOrder(s)'
    BY <1>1, <2>1 DEF InOrder, RowInOrder
  <2> QED
    BY <1>1, <2>1, <2>2, <2>3, OthersInOrder DEF InOrder
<1> QED
  BY <1>2, <1>3, <1>4

LEMMA InOrderKept == TypeOK /\ Holding /\ InOrder /\ [Next]_vars => InOrder'
<1> SUFFICES ASSUME TypeOK, Holding, InOrder, [Next]_vars PROVE InOrder'
  OBVIOUS
<1> USE DEF mailVars, queueVars
<1>1. ASSUME UNCHANGED mailVars,
             \A c \in Consumer : ConsumerInOrder(c)',
             \A r \in Retrier : delivered'[r] \subseteq delivered[r]
      PROVE  InOrder'
  <2>1. \A s \in Sale : RowInOrder(s)'
    BY <1>1 DEF InOrder, RowInOrder
  <2> QED
    BY <1>1, <2>1, OthersInOrder DEF InOrder
<1>2. ASSUME NEW s \in Sale, PublishCompleted(s) \/ BecomeDue(s) PROVE InOrder'
  <2>1. UNCHANGED <<note, issued, emailed, inbox, pc, handling, delivered>>
    BY <1>2 DEF PublishCompleted, BecomeDue, consumerVars, retrierVars
  <2>2. \A x \in Sale : RowInOrder(x)'
    BY <2>1 DEF InOrder, RowInOrder
  <2> QED
    BY <2>1, <2>2, OthersInOrder DEF InOrder
<1>3. ASSUME NEW s \in Sale, Cleanup(s) PROVE InOrder'
  <2>1. /\ note'[s].status = "NONE"
        /\ \A x \in Sale : x # s => note'[x] = note[x]
    BY <1>3 DEF Cleanup, NoNote, TypeOK
  <2>2. RowInOrder(s)'
    BY <1>3, <2>1 DEF Cleanup, InOrder, RowInOrder
  <2> QED
    BY <1>3, <2>1, <2>2, RowKept DEF Cleanup
<1>4. ASSUME NEW s \in Sale, NEW event \in ProviderEvent, RecordEmailEvent(s, event) PROVE InOrder'
  <2>1. /\ note'[s].status = event
        /\ \A x \in Sale : x # s => note'[x] = note[x]
    BY <1>4 DEF RecordEmailEvent, TypeOK
  <2>2. RowInOrder(s)'
    BY <1>4, <2>1 DEF RecordEmailEvent, InOrder, RowInOrder, ProviderEvent
  <2> QED
    BY <1>4, <2>1, <2>2, RowKept DEF RecordEmailEvent
<1>5. ASSUME NEW c \in Consumer,
             (\E s \in Sale : Deliver(c, s)) \/ HandleFails(c) \/ Answer(c) \/ Crash(c)
      PROVE  InOrder'
  <2>1. UNCHANGED mailVars /\ UNCHANGED delivered
    BY <1>5 DEF Deliver, HandleFails, Answer, Crash, retrierVars
  <2>2. /\ pc'[c] \in {"received", "nack", "idle"}
        /\ \A d \in Consumer : d # c => pc'[d] = pc[d] /\ handling'[d] = handling[d]
    BY <1>5, MovedOn DEF Deliver, HandleFails, Answer, Crash, TypeOK
  <2>3. ConsumerInOrder(c)'
    BY <2>2 DEF ConsumerInOrder
  <2> QED
    BY <1>1, <2>1, <2>2, <2>3, OthersInOrder
<1>6. ASSUME NEW r \in Retrier, SelectFailed(r) PROVE InOrder'
  BY <1>1, <1>6, OthersInOrder DEF SelectFailed, consumerVars
<1>7. CASE UNCHANGED vars
  BY <1>1, <1>7, OthersInOrder DEF vars, consumerVars, retrierVars
<1> QED
  BY <1>2, <1>3, <1>4, <1>5, <1>6, <1>7, ConsumerKeepsOrder, RetrierKeepsOrder
     DEF Next, ConsumerStep, RetrierStep

-----------------------------------------------------------------------------
(* The account of a sale.                                                   *)

LEMMA AtMost ==
  ASSUME NEW A, NEW B, IsFiniteSet(B), A \subseteq B
  PROVE  /\ IsFiniteSet(A) /\ Cardinality(A) \in Nat /\ Cardinality(B) \in Nat
         /\ Cardinality(A) <= Cardinality(B)
BY FS_Subset, FS_CardinalityType, Zenon

LEMMA OneMore ==
  ASSUME NEW A, NEW B, NEW x, IsFiniteSet(B), A \subseteq B \cup {x}
  PROVE  /\ IsFiniteSet(A) /\ Cardinality(A) \in Nat /\ Cardinality(B) \in Nat
         /\ Cardinality(A) <= Cardinality(B) + 1
<1>1. /\ IsFiniteSet(B \cup {x})
      /\ Cardinality(B \cup {x}) = IF x \in B THEN Cardinality(B) ELSE Cardinality(B) + 1
  BY FS_AddElement, Zenon
<1>2. /\ IsFiniteSet(A) /\ Cardinality(A) \in Nat /\ Cardinality(B) \in Nat
      /\ Cardinality(A) <= Cardinality(B \cup {x})
  BY <1>1, AtMost, FS_CardinalityType, Zenon
<1> QED
  BY <1>1, <1>2

LEMMA OneLess ==
  ASSUME NEW A, NEW B, NEW x \in B, IsFiniteSet(B), A \subseteq B \ {x}
  PROVE  /\ IsFiniteSet(A) /\ Cardinality(A) \in Nat /\ Cardinality(B) \in Nat
         /\ Cardinality(A) <= Cardinality(B) - 1
<1>1. /\ IsFiniteSet(B \ {x})
      /\ Cardinality(B \ {x}) = IF x \in B THEN Cardinality(B) - 1 ELSE Cardinality(B)
  BY FS_RemoveElement, Zenon
<1>2. /\ IsFiniteSet(A) /\ Cardinality(A) \in Nat /\ Cardinality(B) \in Nat
      /\ Cardinality(A) <= Cardinality(B \ {x})
  BY <1>1, AtMost, FS_CardinalityType, Zenon
<1> QED
  BY <1>1, <1>2

\* What is out or may go out without a consumer, less what it may come from.
Debt(s) == inbox[s] + queue[s] + RetryOpen(s) - (published[s] + AllFaults)

LEMMA DebtType ==
  ASSUME TypeOK, NEW s \in Sale
  PROVE  Debt(s) \in Int /\ RetryOpen(s) \in {0, 1}
<1>1. inbox[s] \in Nat /\ queue[s] \in Nat /\ published[s] \in Nat
  BY DeliveryAssumption DEF TypeOK
<1>2. RetryOpen(s) \in {0, 1}
  BY DEF RetryOpen
<1> QED
  BY <1>1, <1>2, FaultCounts DEF Debt

LEMMA DebtIs ==
  ASSUME TypeOK, NEW s \in Sale
  PROVE  Accounted(s) <=> IsFiniteSet(Sending(s)) /\ Debt(s) + Cardinality(Sending(s)) <= 0
<1>1. inbox[s] \in Nat /\ queue[s] \in Nat /\ published[s] \in Nat
  BY DeliveryAssumption DEF TypeOK
<1>2. IsFiniteSet(Sending(s)) => Cardinality(Sending(s)) \in Nat
  BY FS_CardinalityType, Zenon
<1>3. RetryOpen(s) \in {0, 1} /\ AllFaults \in Nat
  BY FaultCounts, DebtType
<1> QED
  BY <1>1, <1>2, <1>3 DEF Accounted, Debt

\* The same of the next state.
LEMMA NextDebt ==
  ASSUME TypeOK', NEW s \in Sale
  PROVE  /\ Debt(s)' \in Int
         /\ IsFiniteSet(Sending(s)') /\ Debt(s)' + Cardinality(Sending(s)') <= 0
              => Accounted(s)'
<1>1. inbox'[s] \in Nat /\ queue'[s] \in Nat /\ published'[s] \in Nat
  BY DeliveryAssumption DEF TypeOK
<1>2. IsFiniteSet(Sending(s)') => Cardinality(Sending(s)') \in Nat
  BY FS_CardinalityType, Zenon
<1>3. RetryOpen(s)' \in {0, 1}
  BY DEF RetryOpen
<1>4. AllFaults' \in Nat
  <2>1. /\ faults'["crash"] \in Nat /\ faults'["timeout"] \in Nat
        /\ faults'["abort"] \in Nat /\ faults'["unsure"] \in Nat
    BY DeliveryAssumption DEF TypeOK, FaultKind
  <2> QED
    BY <2>1 DEF AllFaults
<1> QED
  BY <1>1, <1>2, <1>3, <1>4 DEF Accounted, Debt

\* No consumer more, and no more debt.
LEMMA BalanceKept ==
  ASSUME TypeOK, TypeOK', NEW s \in Sale, Accounted(s),
         Sending(s)' \subseteq Sending(s), Debt(s)' <= Debt(s)
  PROVE  Accounted(s)'
<1>1. IsFiniteSet(Sending(s)) /\ Debt(s) + Cardinality(Sending(s)) <= 0
  BY DebtIs
<1>2. /\ IsFiniteSet(Sending(s)') /\ Cardinality(Sending(s)') \in Nat
      /\ Cardinality(Sending(s)) \in Nat
      /\ Cardinality(Sending(s)') <= Cardinality(Sending(s))
  BY <1>1, AtMost, Zenon
<1> QED
  BY <1>1, <1>2, DebtType, NextDebt

\* A consumer is done, and leaves one email or one retry behind.
LEMMA BalanceLeft ==
  ASSUME TypeOK, TypeOK', NEW s \in Sale, Accounted(s), NEW c \in Sending(s),
         Sending(s)' \subseteq Sending(s) \ {c}, Debt(s)' <= Debt(s) + 1
  PROVE  Accounted(s)'
<1>1. IsFiniteSet(Sending(s)) /\ Debt(s) + Cardinality(Sending(s)) <= 0
  BY DebtIs
<1>2. /\ IsFiniteSet(Sending(s)') /\ Cardinality(Sending(s)') \in Nat
      /\ Cardinality(Sending(s)) \in Nat
      /\ Cardinality(Sending(s)') <= Cardinality(Sending(s)) - 1
  BY <1>1, OneLess
<1> QED
  BY <1>1, <1>2, DebtType, NextDebt

\* A consumer takes a message.
LEMMA BalanceTaken ==
  ASSUME TypeOK, TypeOK', NEW s \in Sale, Accounted(s), NEW c,
         Sending(s)' \subseteq Sending(s) \cup {c}, Debt(s)' <= Debt(s) - 1
  PROVE  Accounted(s)'
<1>1. IsFiniteSet(Sending(s)) /\ Debt(s) + Cardinality(Sending(s)) <= 0
  BY DebtIs
<1>2. /\ IsFiniteSet(Sending(s)') /\ Cardinality(Sending(s)') \in Nat
      /\ Cardinality(Sending(s)) \in Nat
      /\ Cardinality(Sending(s)') <= Cardinality(Sending(s)) + 1
  BY <1>1, OneMore, Zenon
<1> QED
  BY <1>1, <1>2, DebtType, NextDebt

\* The consumers of a sale when c moves.
LEMMA SendingMoves ==
  ASSUME NEW c \in Consumer, NEW s,
         \A d \in Consumer : d # c => pc'[d] = pc[d] /\ handling'[d] = handling[d]
  PROVE  /\ Sending(s)' \subseteq Sending(s) \cup {c}
         /\ Sending(s) \ {c} \subseteq Sending(s)'
         /\ c \in Sending(s)' <=> pc'[c] \in Undecided /\ handling'[c] = s
         /\ c \in Sending(s) <=> pc[c] \in Undecided /\ handling[c] = s
BY DEF Sending

\* Debt changes by what its parts change by.
LEMMA DebtMoves ==
  ASSUME TypeOK, TypeOK', NEW s \in Sale
  PROVE  Debt(s)' - Debt(s) =
             (inbox'[s] - inbox[s]) + (queue'[s] - queue[s])
           + (RetryOpen(s)' - RetryOpen(s))
           - (published'[s] - published[s]) - (AllFaults' - AllFaults)
<1>1. /\ inbox[s] \in Nat /\ queue[s] \in Nat /\ published[s] \in Nat
      /\ inbox'[s] \in Nat /\ queue'[s] \in Nat /\ published'[s] \in Nat
  BY DeliveryAssumption DEF TypeOK
<1>2. RetryOpen(s) \in {0, 1} /\ RetryOpen(s)' \in {0, 1}
  BY DEF RetryOpen
<1>3. AllFaults \in Nat /\ AllFaults' \in Nat
  <2>1. /\ faults'["crash"] \in Nat /\ faults'["timeout"] \in Nat
        /\ faults'["abort"] \in Nat /\ faults'["unsure"] \in Nat
    BY DeliveryAssumption DEF TypeOK, FaultKind
  <2> QED
    BY <2>1, FaultCounts DEF AllFaults
<1> QED
  BY <1>1, <1>2, <1>3 DEF Debt

\* Faults are counted up.
LEMMA MoreFaults ==
  ASSUME TypeOK,
         UNCHANGED faults \/ \E kind \in FaultKind : Fault(kind)
  PROVE  /\ AllFaults \in Nat /\ AllFaults' \in Nat /\ AllFaults <= AllFaults'
         /\ faults["timeout"] \in Nat /\ faults'["timeout"] \in Nat
         /\ faults["timeout"] <= faults'["timeout"]
<1>1. faults["timeout"] \in Nat
  BY DeliveryAssumption DEF TypeOK, FaultKind
<1> QED
  BY <1>1, FaultCounts

\* A sale that a step leaves alone.
LEMMA LeftAlone ==
  ASSUME TypeOK, TypeOK', NEW s \in Sale, Settled(s),
         note'[s] = note[s], inbox'[s] = inbox[s],
         queue'[s] = queue[s], published'[s] = published[s],
         s \in issued' => s \in issued, Sending(s)' = Sending(s),
         \A r \in Retrier : s \in delivered[r] => s \in delivered'[r],
         UNCHANGED faults \/ \E kind \in FaultKind : Fault(kind)
  PROVE  Settled(s)'
<1>1. RetryOpen(s)' \in {0, 1} /\ RetryOpen(s)' <= RetryOpen(s)
  BY DEF RetryOpen
<1>2. inbox[s] \in Nat /\ queue[s] \in Nat /\ published[s] \in Nat
  BY DeliveryAssumption DEF TypeOK
<1>3. Debt(s)' <= Debt(s)
  BY <1>1, <1>2, DebtMoves, DebtType, NextDebt, MoreFaults
<1>4. Accounted(s)'
  BY <1>3, BalanceKept DEF Settled
<1>5. Pursued(s)'
  BY MoreFaults DEF Settled, Pursued
<1> QED
  BY <1>4, <1>5 DEF Settled

\* A consumer moves with the sale it handles; all other sales are left alone.
LEMMA OthersSettled ==
  ASSUME TypeOK, TypeOK', NEW c \in Consumer, NEW s \in Sale, NEW state,
         handling[c] = s, GoTo(c, state),
         \A x \in Sale : Settled(x),
         \A x \in Sale \ {s} : /\ note'[x] = note[x] /\ inbox'[x] = inbox[x]
                               /\ x \in issued' => x \in issued,
         UNCHANGED queueVars, UNCHANGED retrierVars,
         UNCHANGED faults \/ \E kind \in FaultKind : Fault(kind)
  PROVE  \A x \in Sale \ {s} : Settled(x)'
<1> SUFFICES ASSUME NEW x \in Sale, x # s PROVE Settled(x)'
  OBVIOUS
<1>1. Sending(x)' = Sending(x)
  BY MovedOn, SendingMoves
<1>2. /\ note'[x] = note[x] /\ inbox'[x] = inbox[x] /\ (x \in issued' => x \in issued)
      /\ queue'[x] = queue[x] /\ published'[x] = published[x] /\ delivered' = delivered
  BY DEF queueVars, retrierVars
<1> QED
  BY <1>1, <1>2, LeftAlone

LEMMA CheckSettles ==
  ASSUME TicketInv, TypeOK', NEW c \in Consumer, NEW s \in Sale, CheckSent(c, s)
  PROVE  \A x \in Sale : Settled(x)'
<1>1. /\ pc[c] = "received" /\ handling[c] = s
      /\ UNCHANGED <<note, issued, inbox, published, queue, delivered, faults>>
  BY DEF CheckSent, At, mailVars, queueVars, retrierVars
<1>2. TypeOK /\ Settled(s) /\ RowInOrder(s)
  BY DEF TicketInv, InOrder
<1>3. PICK state \in {"ack", "preparing"} :
        GoTo(c, state) /\ (state = "ack" => note[s].status = "SENT")
  BY DEF CheckSent, AlreadySent
<1>4. c \in Sending(s) /\ (c \in Sending(s)' <=> state = "preparing")
  BY <1>1, <1>2, <1>3, MovedOn, SendingMoves DEF Undecided
<1>5. Sending(s)' \subseteq Sending(s)
  BY <1>2, <1>3, <1>4, MovedOn, SendingMoves
<1>6. Debt(s)' = Debt(s)
  BY <1>1 DEF Debt, RetryOpen, AllFaults
<1>7. Accounted(s)'
  BY <1>2, <1>5, <1>6, DebtType, BalanceKept DEF Settled
<1>8. Pursued(s)'
  BY <1>1, <1>2, <1>3, <1>4 DEF Pursued, RowInOrder, TypeOK
<1>9. \A x \in Sale \ {s} : Settled(x)'
  BY <1>1, <1>2, <1>3, OthersSettled DEF CheckSent, TicketInv
<1> QED
  BY <1>7, <1>8, <1>9 DEF Settled

LEMMA PrepareSettles ==
  ASSUME TicketInv, TypeOK', NEW c \in Consumer, NEW s \in Sale, PrepareTicketEmail(c, s)
  PROVE  \A x \in Sale : Settled(x)'
<1>1. /\ pc[c] = "preparing" /\ handling[c] = s /\ GoTo(c, "sending")
      /\ UNCHANGED <<inbox, published, queue, delivered, faults>>
  BY DEF PrepareTicketEmail, At, queueVars, retrierVars
<1>2. TypeOK /\ Settled(s)
  BY DEF TicketInv
<1>3. /\ \A x \in Sale : x # s => note'[x] = note[x]
      /\ note'[s].status # "FAILED"
  BY <1>2, PreparedRow DEF PrepareTicketEmail
<1>4. c \in Sending(s) /\ c \in Sending(s)'
  BY <1>1, <1>2, MovedOn, SendingMoves DEF Undecided
<1>5. Sending(s)' \subseteq Sending(s)
  BY <1>1, <1>2, <1>4, MovedOn, SendingMoves
<1>6. RetryOpen(s)' = 0
  BY <1>3 DEF RetryOpen
<1>7. inbox[s] \in Nat /\ queue[s] \in Nat /\ published[s] \in Nat
  BY <1>2, DeliveryAssumption DEF TypeOK
<1>8. Debt(s)' <= Debt(s)
  BY <1>1, <1>2, <1>6, <1>7, DebtMoves, DebtType, NextDebt, MoreFaults, FaultCounts
<1>9. Accounted(s)'
  BY <1>2, <1>5, <1>8, BalanceKept DEF Settled
<1>10. Pursued(s)'
  BY <1>4 DEF Pursued
<1>11. \A x \in Sale \ {s} : Settled(x)'
  BY <1>1, <1>2, <1>3, OthersSettled DEF PrepareTicketEmail, TicketInv
<1> QED
  BY <1>9, <1>10, <1>11 DEF Settled

LEMMA SendSettles ==
  ASSUME TicketInv, TypeOK', NEW c \in Consumer, NEW s \in Sale, SendTickets(c, s)
  PROVE  \A x \in Sale : Settled(x)'
<1>1. /\ pc[c] = "sending" /\ handling[c] = s
      /\ UNCHANGED <<note, issued, published, queue, delivered>>
      /\ UNCHANGED queueVars /\ UNCHANGED retrierVars
  BY DEF SendTickets, At, queueVars, retrierVars
<1>2. TypeOK /\ Settled(s)
  BY DEF TicketInv
<1>3. RetryOpen(s)' = RetryOpen(s)
  BY <1>1 DEF RetryOpen
<1>4. inbox[s] \in Nat /\ queue[s] \in Nat /\ published[s] \in Nat
  BY <1>2, DeliveryAssumption DEF TypeOK
<1>5. CASE Accepted(s) /\ GoTo(c, "marking") /\ UNCHANGED faults
  <2>1. c \in Sending(s) /\ Sending(s)' \subseteq Sending(s) \ {c}
    BY <1>1, <1>2, <1>5, MovedOn, SendingMoves DEF Undecided
  <2>2. Debt(s)' <= Debt(s) + 1
    BY <1>1, <1>2, <1>3, <1>4, <1>5, SentOut, DebtMoves, DebtType, NextDebt, FaultCounts
  <2>3. Accounted(s)'
    BY <1>2, <2>1, <2>2, BalanceLeft DEF Settled
  <2>4. Pursued(s)'
    BY <1>2, <1>5, SentOut DEF Pursued
  <2>5. \A x \in Sale \ {s} : Settled(x)'
    BY <1>1, <1>2, <1>5, SentOut, OthersSettled DEF TicketInv
  <2> QED
    BY <2>3, <2>4, <2>5 DEF Settled
<1>6. CASE Accepted(s) /\ GoTo(c, "failing") /\ Fault("unsure")
  <2>1. c \in Sending(s)' /\ Sending(s)' \subseteq Sending(s)
    BY <1>1, <1>2, <1>6, MovedOn, SendingMoves DEF Undecided
  <2>2. AllFaults' = AllFaults + 1 /\ AllFaults \in Nat
    BY <1>2, <1>6, FaultCounts DEF FaultKind
  <2>3. Debt(s)' <= Debt(s)
    BY <1>1, <1>2, <1>3, <1>4, <1>6, <2>2, SentOut, DebtMoves, DebtType, NextDebt
  <2>4. Accounted(s)'
    BY <1>2, <2>1, <2>3, BalanceKept DEF Settled
  <2>5. Pursued(s)'
    BY <2>1 DEF Pursued
  <2>6. \A x \in Sale \ {s} : Settled(x)'
    BY <1>1, <1>2, <1>6, SentOut, OthersSettled DEF TicketInv, FaultKind
  <2> QED
    BY <2>4, <2>5, <2>6 DEF Settled
<1>7. CASE GoTo(c, "failing") /\ UNCHANGED <<inbox, faults>>
  <2>1. c \in Sending(s)' /\ Sending(s)' \subseteq Sending(s)
    BY <1>1, <1>2, <1>7, MovedOn, SendingMoves DEF Undecided
  <2>2. Debt(s)' = Debt(s)
    BY <1>1, <1>7 DEF Debt, RetryOpen, AllFaults
  <2>3. Accounted(s)'
    BY <1>2, <2>1, <2>2, DebtType, BalanceKept DEF Settled
  <2>4. Pursued(s)'
    BY <2>1 DEF Pursued
  <2>5. \A x \in Sale \ {s} : Settled(x)'
    BY <1>1, <1>2, <1>7, OthersSettled DEF TicketInv
  <2> QED
    BY <2>3, <2>4, <2>5 DEF Settled
<1> QED
  BY <1>5, <1>6, <1>7 DEF SendTickets

\* The email is out: marking it changes no account for the worse.
LEMMA MarkSettles ==
  ASSUME TicketInv, TypeOK', NEW c \in Consumer, NEW s \in Sale,
         MarkSent(c, s) \/ StampTickets(c, s)
  PROVE  \A x \in Sale : Settled(x)'
<1>1. /\ pc[c] \in {"marking", "stamping"} /\ handling[c] = s
      /\ UNCHANGED <<issued, inbox, published, queue, delivered, faults>>
      /\ UNCHANGED queueVars /\ UNCHANGED retrierVars
  BY DEF MarkSent, StampTickets, At, queueVars, retrierVars
<1>2. TypeOK /\ Settled(s) /\ ConsumerInOrder(c)
  BY DEF TicketInv, InOrder
<1>3. PICK state \in {"stamping", "ack"} : GoTo(c, state)
  BY DEF MarkSent, StampTickets
<1>4. /\ \A x \in Sale : x # s => note'[x] = note[x]
      /\ note'[s] = note[s] \/ note'[s].status = "SENT"
  <2>1. CASE MarkSent(c, s)
    <3>1. note[s].attempts \in Nat /\ "SENT" \in NoteStatus
      BY <1>2 DEF TypeOK, NoteStatus
    <3> QED
      BY <1>2, <2>1, <3>1, UpdatedRow DEF MarkSent
  <2>2. CASE StampTickets(c, s)
    BY <2>2 DEF StampTickets
  <2> QED
    BY <2>1, <2>2
<1>5. Sending(s)' \subseteq Sending(s)
  BY <1>1, <1>2, <1>3, MovedOn, SendingMoves DEF Undecided
<1>6. RetryOpen(s)' \in {0, 1} /\ RetryOpen(s)' <= RetryOpen(s)
  BY <1>1, <1>4 DEF RetryOpen
<1>7. inbox[s] \in Nat /\ queue[s] \in Nat /\ published[s] \in Nat
  BY <1>2, DeliveryAssumption DEF TypeOK
<1>8. Debt(s)' <= Debt(s)
  BY <1>1, <1>2, <1>6, <1>7, DebtMoves, DebtType, NextDebt, FaultCounts
<1>9. Accounted(s)'
  BY <1>2, <1>5, <1>8, BalanceKept DEF Settled
<1>10. Pursued(s)'
  BY <1>1, <1>2 DEF Pursued, ConsumerInOrder
<1>11. \A x \in Sale \ {s} : Settled(x)'
  BY <1>1, <1>2, <1>3, <1>4, OthersSettled DEF TicketInv
<1> QED
  BY <1>9, <1>10, <1>11 DEF Settled

\* The failure is recorded: what the consumer leaves is a row to retry.
LEMMA FailureSettles ==
  ASSUME TicketInv, TypeOK', NEW c \in Consumer, NEW s \in Sale, MarkFailed(c, s)
  PROVE  \A x \in Sale : Settled(x)'
<1>1. /\ pc[c] = "failing" /\ handling[c] = s /\ GoTo(c, "nack")
      /\ UNCHANGED <<issued, inbox, published, queue, delivered, faults>>
      /\ UNCHANGED queueVars /\ UNCHANGED retrierVars
  BY DEF MarkFailed, At, queueVars, retrierVars
<1>2. TypeOK /\ Settled(s) /\ ConsumerInOrder(c) /\ RowInOrder(s)
  BY DEF TicketInv, InOrder
<1>3. /\ \A x \in Sale : x # s => note'[x] = note[x]
      /\ note[s].status # "NONE" => note'[s].status \in {"FAILED", "DEAD_LETTER"}
  BY <1>2 DEF MarkFailed, UpdateNote, TypeOK
<1>4. c \in Sending(s) /\ Sending(s)' \subseteq Sending(s) \ {c}
  BY <1>1, <1>2, MovedOn, SendingMoves DEF Undecided
<1>5. inbox[s] \in Nat /\ queue[s] \in Nat /\ published[s] \in Nat
      /\ RetryOpen(s)' \in {0, 1}
  BY <1>2, DeliveryAssumption DEF TypeOK, RetryOpen
<1>6. Debt(s)' <= Debt(s) + 1
  BY <1>1, <1>2, <1>5, DebtMoves, DebtType, NextDebt, FaultCounts
<1>7. Accounted(s)'
  BY <1>2, <1>4, <1>6, BalanceLeft DEF Settled
<1>8. Pursued(s)'
  BY <1>1, <1>2, <1>3 DEF Pursued, ConsumerInOrder, RowInOrder
<1>9. \A x \in Sale \ {s} : Settled(x)'
  BY <1>1, <1>2, <1>3, OthersSettled DEF TicketInv
<1> QED
  BY <1>7, <1>8, <1>9 DEF Settled

\* A message leaves the queue with a consumer, or comes back without it.
LEMMA DeliverSettles ==
  ASSUME TicketInv, TypeOK', NEW c \in Consumer, NEW s \in Sale, Deliver(c, s)
  PROVE  \A x \in Sale : Settled(x)'
<1>1. /\ handling[c] = NoSale /\ queue[s] > 0
      /\ queue' = [queue EXCEPT ![s] = @ - 1]
      /\ pc' = [pc EXCEPT ![c] = "received"]
      /\ handling' = [handling EXCEPT ![c] = s]
      /\ UNCHANGED <<note, issued, inbox, published, delivered, faults>>
  BY DEF Deliver, At, mailVars, retrierVars
<1>2. TypeOK /\ \A x \in Sale : Settled(x)
  BY DEF TicketInv
<1>3. /\ pc'[c] = "received" /\ handling'[c] = s
      /\ \A d \in Consumer : d # c => pc'[d] = pc[d] /\ handling'[d] = handling[d]
      /\ queue'[s] = queue[s] - 1
      /\ \A x \in Sale : x # s => queue'[x] = queue[x]
  BY <1>1, <1>2 DEF TypeOK
<1>4. c \in Sending(s)' /\ Sending(s)' \subseteq Sending(s) \cup {c}
  BY <1>3, SendingMoves DEF Undecided
<1>5. /\ inbox[s] \in Nat /\ queue[s] \in Nat /\ published[s] \in Nat
      /\ RetryOpen(s)' = RetryOpen(s)
  BY <1>1, <1>2, DeliveryAssumption DEF TypeOK, RetryOpen
<1>6. Debt(s)' <= Debt(s) - 1
  BY <1>1, <1>2, <1>3, <1>5, DebtMoves, DebtType, NextDebt, FaultCounts
<1>7. Accounted(s)'
  BY <1>2, <1>4, <1>6, BalanceTaken DEF Settled
<1>8. Pursued(s)'
  BY <1>4 DEF Pursued
<1>9. ASSUME NEW x \in Sale, x # s PROVE Settled(x)'
  <2>1. c \notin Sending(x) /\ c \notin Sending(x)'
    BY <1>1, <1>3, <1>9, DeliveryAssumption DEF Sending
  <2>2. Sending(x)' = Sending(x)
    BY <1>3, <2>1, SendingMoves
  <2> QED
    BY <1>1, <1>2, <1>3, <1>9, <2>2, LeftAlone
<1> QED
  BY <1>7, <1>8, <1>9 DEF Settled

LEMMA CrashSettles ==
  ASSUME TicketInv, TypeOK', NEW c \in Consumer, NEW s \in Sale, handling[c] = s, Crash(c)
  PROVE  \A x \in Sale : Settled(x)'
<1>1. /\ Fault("crash")
      /\ queue' = [queue EXCEPT ![s] = @ + 1]
      /\ pc' = [pc EXCEPT ![c] = "idle"]
      /\ handling' = [handling EXCEPT ![c] = NoSale]
      /\ UNCHANGED <<note, issued, inbox, published, delivered>>
  BY DEF Crash, mailVars, retrierVars
<1>2. TypeOK /\ \A x \in Sale : Settled(x)
  BY DEF TicketInv
<1>3. /\ pc'[c] = "idle"
      /\ \A d \in Consumer : d # c => pc'[d] = pc[d] /\ handling'[d] = handling[d]
      /\ queue'[s] = queue[s] + 1
      /\ \A x \in Sale : x # s => queue'[x] = queue[x]
  BY <1>1, <1>2 DEF TypeOK
<1>4. Sending(s)' \subseteq Sending(s)
  BY <1>3, SendingMoves DEF Undecided
<1>5. /\ inbox[s] \in Nat /\ queue[s] \in Nat /\ published[s] \in Nat
      /\ RetryOpen(s)' = RetryOpen(s)
  BY <1>1, <1>2, DeliveryAssumption DEF TypeOK, RetryOpen
<1>6. AllFaults' = AllFaults + 1 /\ AllFaults \in Nat
  BY <1>1, <1>2, FaultCounts DEF FaultKind
<1>7. Debt(s)' <= Debt(s)
  BY <1>1, <1>2, <1>3, <1>5, <1>6, DebtMoves, DebtType, NextDebt
<1>8. Accounted(s)'
  BY <1>2, <1>4, <1>7, BalanceKept DEF Settled
<1>9. Pursued(s)'
  <2>1. queue'[s] > 0
    BY <1>3, <1>5
  <2> QED
    BY <2>1 DEF Pursued
<1>10. ASSUME NEW x \in Sale, x # s PROVE Settled(x)'
  <2>1. c \notin Sending(x) /\ c \notin Sending(x)'
    BY <1>3, <1>10 DEF Sending, Undecided
  <2>2. Sending(x)' = Sending(x)
    BY <1>3, <2>1, SendingMoves
  <2>3. \E kind \in FaultKind : Fault(kind)
    BY <1>1 DEF FaultKind
  <2> QED
    BY <1>1, <1>2, <1>3, <1>10, <2>2, <2>3, LeftAlone
<1> QED
  BY <1>8, <1>9, <1>10 DEF Settled

\* A consumer answers, or gives up because its time is over.
LEMMA AnswerSettles ==
  ASSUME TicketInv, TypeOK', NEW c \in Consumer, Answer(c) \/ HandleFails(c)
  PROVE  \A x \in Sale : Settled(x)'
<1>1. TypeOK /\ \A x \in Sale : Settled(x)
  BY DEF TicketInv
<1>2. CASE Answer(c)
  <2>1. /\ pc[c] \in {"ack", "nack"} /\ pc'[c] = "idle"
        /\ \A d \in Consumer : d # c => pc'[d] = pc[d] /\ handling'[d] = handling[d]
        /\ UNCHANGED <<note, issued, inbox, published, queue, delivered, faults>>
    BY <1>1, <1>2 DEF Answer, TypeOK, mailVars, queueVars, retrierVars
  <2>2. \A x \in Sale : Sending(x)' = Sending(x)
    BY <2>1, SendingMoves DEF Undecided
  <2> QED
    BY <1>1, <2>1, <2>2, LeftAlone
<1>3. CASE HandleFails(c)
  <2>1. /\ pc'[c] = "nack"
        /\ \A d \in Consumer : d # c => pc'[d] = pc[d] /\ handling'[d] = handling[d]
        /\ UNCHANGED <<note, inbox, published, queue, delivered>>
    BY <1>1, <1>3, MovedOn DEF HandleFails, mailVars, queueVars, retrierVars
  <2>2. /\ AllFaults' = AllFaults + 1 /\ AllFaults \in Nat
        /\ faults'["timeout"] = faults["timeout"] + 1 /\ faults["timeout"] \in Nat
    BY <1>1, <1>3, FaultCounts, DeliveryAssumption DEF HandleFails, FaultKind, TypeOK
  <2>3. ASSUME NEW x \in Sale PROVE Settled(x)'
    <3>1. Sending(x)' \subseteq Sending(x)
      BY <2>1, SendingMoves DEF Undecided
    <3>2. /\ inbox[x] \in Nat /\ queue[x] \in Nat /\ published[x] \in Nat
          /\ RetryOpen(x)' = RetryOpen(x)
      BY <1>1, <2>1, DeliveryAssumption DEF TypeOK, RetryOpen
    <3>3. Debt(x)' <= Debt(x)
      BY <1>1, <2>1, <2>2, <3>2, DebtMoves, DebtType, NextDebt
    <3>4. Accounted(x)'
      BY <1>1, <3>1, <3>3, BalanceKept DEF Settled
    <3>5. Pursued(x)'
      BY <2>2 DEF Pursued
    <3> QED
      BY <3>4, <3>5 DEF Settled
  <2> QED
    BY <2>3
<1> QED
  BY <1>2, <1>3

\* The outbox, the customer's provider, the cleaner and the clock.
LEMMA OutsideSettles ==
  ASSUME TicketInv, TypeOK', NEW s \in Sale,
         \/ PublishCompleted(s) \/ BecomeDue(s) \/ Cleanup(s)
         \/ \E event \in ProviderEvent : RecordEmailEvent(s, event)
  PROVE  \A x \in Sale : Settled(x)'
<1>1. TypeOK /\ (\A x \in Sale : Settled(x)) /\ RowInOrder(s)
  BY DEF TicketInv, InOrder
<1>2. /\ UNCHANGED <<issued, inbox, delivered, faults>>
      /\ \A x \in Sale : Sending(x)' = Sending(x)
  BY DEF PublishCompleted, BecomeDue, Cleanup, RecordEmailEvent, Sending,
         mailVars, consumerVars, retrierVars
<1>3. /\ \A x \in Sale : x # s => /\ note'[x] = note[x] /\ queue'[x] = queue[x]
                                 /\ published'[x] = published[x]
      /\ \/ UNCHANGED note /\ queue'[s] - queue[s] = published'[s] - published[s]
            /\ queue'[s] >= queue[s]
         \/ /\ UNCHANGED <<queue, published>>
            /\ note'[s].status # "FAILED" /\ inbox[s] > 0
  <2>1. CASE PublishCompleted(s)
    <3>1. queue[s] \in Nat /\ published[s] \in Nat
      BY <1>1, DeliveryAssumption DEF TypeOK
    <3> QED
      BY <1>1, <2>1, <3>1 DEF PublishCompleted, TypeOK, mailVars
  <2>2. CASE BecomeDue(s)
    <3>1. queue[s] \in Nat /\ published[s] \in Nat
      BY <1>1, DeliveryAssumption DEF TypeOK
    <3> QED
      BY <2>2, <3>1 DEF BecomeDue, queueVars
  <2>3. CASE Cleanup(s)
    BY <1>1, <2>3 DEF Cleanup, NoNote, queueVars, TypeOK, RowInOrder
  <2>4. CASE \E event \in ProviderEvent : RecordEmailEvent(s, event)
    BY <1>1, <2>4 DEF RecordEmailEvent, ProviderEvent, queueVars, TypeOK
  <2> QED
    BY <2>1, <2>2, <2>3, <2>4
<1>4. inbox[s] \in Nat /\ queue[s] \in Nat /\ published[s] \in Nat
      /\ queue'[s] \in Nat /\ published'[s] \in Nat
  BY <1>1, DeliveryAssumption DEF TypeOK
<1>5. RetryOpen(s)' \in {0, 1} /\ RetryOpen(s)' <= RetryOpen(s)
  BY <1>2, <1>3 DEF RetryOpen
<1>6. Debt(s)' <= Debt(s)
  BY <1>1, <1>2, <1>3, <1>4, <1>5, DebtMoves, DebtType, NextDebt, FaultCounts
<1>7. Accounted(s)'
  BY <1>1, <1>2, <1>6, BalanceKept DEF Settled
<1>8. Pursued(s)'
  BY <1>1, <1>2, <1>3, <1>4 DEF Pursued, Settled
<1>9. \A x \in Sale : x # s => Settled(x)'
  BY <1>1, <1>2, <1>3, LeftAlone
<1> QED
  BY <1>7, <1>8, <1>9 DEF Settled

\* One email of a retrier: the row it holds is good for one email, until it is
\* marked.
LEMMA RetrySettles ==
  ASSUME TicketInv, TypeOK', NEW r \in Retrier, NEW s \in Sale, RetryEmail(r, s)
  PROVE  \A x \in Sale : Settled(x)'
<1>1. TypeOK /\ Holding /\ \A x \in Sale : Settled(x)
  BY DEF TicketInv
<1>2. /\ UNCHANGED <<note, issued, published, queue>>
      /\ \A x \in Sale : Sending(x)' = Sending(x)
  BY DEF RetryEmail, queueVars, consumerVars, Sending
<1>3. s \in todo[r] /\ s \in locked[r] /\ s \notin delivered[r]
  BY <1>1 DEF RetryEmail, TypeOK, Holding
<1>4. RetryOpen(s) = 1
  <2>1. note[s].status = "FAILED"
    BY <1>1, <1>3 DEF Holding
  <2>2. \A q \in Retrier : delivered[q] \subseteq locked[q]
    BY <1>1 DEF TypeOK
  <2>3. \A q \in Retrier : s \notin delivered[q]
    BY <1>1, <1>3, <2>2 DEF Holding
  <2> QED
    BY <2>1, <2>3 DEF RetryOpen
<1>5. /\ inbox[s] \in Nat /\ queue[s] \in Nat /\ published[s] \in Nat
      /\ RetryOpen(s)' \in {0, 1}
  BY <1>1, DeliveryAssumption DEF TypeOK, RetryOpen
<1>6. /\ UNCHANGED faults \/ \E kind \in FaultKind : Fault(kind)
      /\ \A x \in Sale : x # s => inbox'[x] = inbox[x]
      /\ inbox'[s] >= inbox[s]
  BY <1>1, <1>5, SentOut DEF RetryEmail, FaultKind
<1>7. Debt(s)' <= Debt(s)
  <2>1. CASE Accepted(s) /\ delivered' = [delivered EXCEPT ![r] = @ \cup {s}] /\ UNCHANGED faults
    <3>1. s \in delivered'[r]
      BY <1>1, <2>1 DEF TypeOK
    <3>2. RetryOpen(s)' = 0
      BY <3>1 DEF RetryOpen
    <3> QED
      BY <1>1, <1>2, <1>4, <1>5, <2>1, <3>2, SentOut, DebtMoves, DebtType, NextDebt, FaultCounts
  <2>2. CASE Accepted(s) /\ Fault("unsure") /\ UNCHANGED delivered
    <3>1. AllFaults' = AllFaults + 1 /\ AllFaults \in Nat
      BY <1>1, <2>2, FaultCounts DEF FaultKind
    <3> QED
      BY <1>1, <1>2, <1>4, <1>5, <2>2, <3>1, SentOut, DebtMoves, DebtType, NextDebt
  <2>3. CASE UNCHANGED <<inbox, delivered, faults>>
    BY <1>1, <1>2, <1>4, <1>5, <2>3, DebtMoves, DebtType, NextDebt, FaultCounts
  <2> QED
    BY <2>1, <2>2, <2>3 DEF RetryEmail
<1>8. Accounted(s)'
  BY <1>1, <1>2, <1>7, BalanceKept DEF Settled
<1>9. Pursued(s)'
  BY <1>1, <1>2, <1>3 DEF Holding, Pursued
<1>10. ASSUME NEW x \in Sale, x # s PROVE Settled(x)'
  <2>1. \A q \in Retrier : x \in delivered[q] => x \in delivered'[q]
    <3>1. delivered' = delivered \/ delivered' = [delivered EXCEPT ![r] = @ \cup {s}]
      BY DEF RetryEmail
    <3> QED
      BY <1>1, <3>1 DEF TypeOK
  <2> QED
    BY <1>1, <1>2, <1>6, <1>10, <2>1, LeftAlone
<1> QED
  BY <1>8, <1>9, <1>10 DEF Settled

\* The commit turns the emails of the batch into marks, and its failures into
\* rows that failed once more.
LEMMA CommitSettles ==
  ASSUME TicketInv, TypeOK', NEW r \in Retrier, CommitRetries(r), NEW s \in Sale
  PROVE  Settled(s)'
<1>1. TypeOK /\ Holding /\ Settled(s) /\ RetrierInOrder(r)
  BY DEF TicketInv, InOrder
<1>2. UNCHANGED <<issued, inbox, published, queue, faults>> /\ Sending(s)' = Sending(s)
  BY DEF CommitRetries, queueVars, consumerVars, Sending
<1>3. /\ delivered[r] \subseteq locked[r]
      /\ s \in delivered[r] => note'[s].status = "SENT" /\ inbox[s] > 0
      /\ s \in locked[r] /\ s \notin delivered[r]
           => note'[s].status \in {"FAILED", "DEAD_LETTER"}
      /\ s \notin locked[r] => note'[s] = note[s]
  BY <1>1, RetriedRow DEF TypeOK, RetrierInOrder
<1>4. RetryOpen(s)' <= RetryOpen(s) /\ RetryOpen(s)' \in {0, 1}
  <2>1. CASE s \in delivered[r]
    <3>1. RetryOpen(s)' = 0
      BY <1>3, <2>1 DEF RetryOpen
    <3> QED
      BY <1>1, <3>1, DebtType
  <2>2. CASE s \in locked[r] /\ s \notin delivered[r]
    <3>1. note[s].status = "FAILED"
      BY <1>1, <2>2 DEF Holding
    <3>2. \A q \in Retrier : s \notin delivered[q]
      <4>1. \A q \in Retrier : delivered[q] \subseteq locked[q]
        BY <1>1 DEF TypeOK
      <4> QED
        BY <1>1, <2>2, <4>1 DEF Holding
    <3> QED
      BY <3>1, <3>2 DEF RetryOpen
  <2>3. CASE s \notin locked[r]
    <3>1. \A q \in Retrier : s \in delivered[q] => s \in delivered'[q]
      BY <1>1, <1>3, <2>3 DEF CommitRetries, TxEnds, TypeOK
    <3> QED
      BY <1>3, <2>3, <3>1 DEF RetryOpen
  <2> QED
    BY <1>3, <2>1, <2>2, <2>3
<1>5. inbox[s] \in Nat /\ queue[s] \in Nat /\ published[s] \in Nat
  BY <1>1, DeliveryAssumption DEF TypeOK
<1>6. Debt(s)' <= Debt(s)
  BY <1>1, <1>2, <1>4, <1>5, DebtMoves, DebtType, NextDebt, FaultCounts
<1>7. Accounted(s)'
  BY <1>1, <1>2, <1>6, BalanceKept DEF Settled
<1>8. Pursued(s)'
  BY <1>1, <1>2, <1>3 DEF Pursued, Settled
<1> QED
  BY <1>7, <1>8 DEF Settled

\* A batch that is undone: its emails may go out again, on the account of the
\* fault.
LEMMA AbortSettles ==
  ASSUME TicketInv, TypeOK', NEW r \in Retrier, AbortRetries(r), NEW s \in Sale
  PROVE  Settled(s)'
<1>1. TypeOK /\ Settled(s)
  BY DEF TicketInv
<1>2. UNCHANGED <<note, issued, inbox, published, queue>> /\ Sending(s)' = Sending(s)
  BY DEF AbortRetries, mailVars, queueVars, consumerVars, Sending
<1>3. AllFaults' = AllFaults + 1 /\ AllFaults \in Nat /\ Fault("abort")
  BY <1>1, FaultCounts DEF AbortRetries, FaultKind
<1>4. /\ inbox[s] \in Nat /\ queue[s] \in Nat /\ published[s] \in Nat
      /\ RetryOpen(s)' \in {0, 1}
  BY <1>1, DeliveryAssumption DEF TypeOK, RetryOpen
<1>5. Debt(s)' <= Debt(s)
  BY <1>1, <1>2, <1>3, <1>4, DebtMoves, DebtType, NextDebt
<1>6. Accounted(s)'
  BY <1>1, <1>2, <1>5, BalanceKept DEF Settled
<1>7. Pursued(s)'
  <2>1. "abort" \in FaultKind
    BY DEF FaultKind
  <2> QED
    BY <1>1, <1>2, <1>3, <2>1, MoreFaults DEF Pursued, Settled
<1> QED
  BY <1>6, <1>7 DEF Settled

LEMMA SettledKept == TicketInv /\ [Next]_vars /\ TypeOK' => \A s \in Sale : Settled(s)'
<1> SUFFICES ASSUME TicketInv, [Next]_vars, TypeOK' PROVE \A s \in Sale : Settled(s)'
  OBVIOUS
<1>1. ASSUME NEW r \in Retrier, SelectFailed(r) PROVE \A s \in Sale : Settled(s)'
  <2>1. UNCHANGED <<note, issued, inbox, published, queue, pc, handling, delivered, faults>>
    BY <1>1 DEF SelectFailed, mailVars, queueVars, consumerVars
  <2>2. \A s \in Sale : Sending(s)' = Sending(s)
    BY <2>1 DEF Sending
  <2> QED
    BY <2>1, <2>2, LeftAlone DEF TicketInv
<1>2. ASSUME NEW c \in Consumer, Crash(c) PROVE \A s \in Sale : Settled(s)'
  <2>1. handling[c] \in Sale
    BY <1>2 DEF Crash, TicketInv, TypeOK
  <2> QED
    BY <1>2, <2>1, CrashSettles
<1>3. CASE UNCHANGED vars
  <2>1. UNCHANGED <<note, issued, inbox, published, queue, pc, handling, delivered, faults>>
    BY <1>3 DEF vars, mailVars, queueVars, consumerVars, retrierVars
  <2>2. \A s \in Sale : Sending(s)' = Sending(s)
    BY <2>1 DEF Sending
  <2> QED
    BY <2>1, <2>2, LeftAlone DEF TicketInv
<1>4. ASSUME NEW c \in Consumer, ConsumerStep(c) PROVE \A s \in Sale : Settled(s)'
  BY <1>4, DeliverSettles, CheckSettles, PrepareSettles, SendSettles, MarkSettles,
     FailureSettles, AnswerSettles DEF ConsumerStep
<1>5. ASSUME NEW c \in Consumer, HandleFails(c) PROVE \A s \in Sale : Settled(s)'
  BY <1>5, AnswerSettles
<1>6. ASSUME NEW r \in Retrier, RetrierStep(r) \/ AbortRetries(r)
      PROVE  \A s \in Sale : Settled(s)'
  BY <1>1, <1>6, RetrySettles, CommitSettles, AbortSettles DEF RetrierStep
<1>7. ASSUME NEW s \in Sale,
             \/ PublishCompleted(s) \/ BecomeDue(s) \/ Cleanup(s)
             \/ \E event \in ProviderEvent : RecordEmailEvent(s, event)
      PROVE  \A x \in Sale : Settled(x)'
  BY <1>7, OutsideSettles
<1> QED
  BY <1>2, <1>3, <1>4, <1>5, <1>6, <1>7 DEF Next

-----------------------------------------------------------------------------
(* Theorems.                                                                *)

LEMMA InitTicketInv == Init => TicketInv
<1> SUFFICES ASSUME Init PROVE TicketInv
  OBVIOUS
<1>1. TypeOK
  BY DeliveryAssumption
     DEF Init, TypeOK, NoNote, NoteStatus, ConsumerState
<1>2. Holding
  BY DEF Init, Holding
<1>3. InOrder
  BY DEF Init, InOrder, RowInOrder, ConsumerInOrder, RetrierInOrder, NoNote
<1>4. ASSUME NEW s \in Sale PROVE Settled(s)
  <2>1. Sending(s) = {}
    BY DEF Init, Sending, Undecided
  <2>2. IsFiniteSet(Sending(s)) /\ Cardinality(Sending(s)) = 0
    BY <2>1, FS_EmptySet, Zenon
  <2>3. RetryOpen(s) = 0
    BY DEF Init, RetryOpen, NoNote
  <2>4. inbox[s] = 0 /\ queue[s] = 0 /\ published[s] = 0 /\ s \notin issued
    BY DEF Init
  <2>5. AllFaults \in Nat
    BY <1>1, FaultCounts
  <2>6. Accounted(s)
    BY <2>2, <2>3, <2>4, <2>5 DEF Accounted
  <2>7. Pursued(s)
    BY <2>4 DEF Pursued
  <2> QED
    BY <2>6, <2>7 DEF Settled
<1> QED
  BY <1>1, <1>2, <1>3, <1>4 DEF TicketInv

\* The rows of notifications, the messages, the consumers and the retriers stay
\* as TicketInv says: locks are exclusive, marks come after emails, and each
\* email has a message or a fault of its own.
\* (TicketDeliveryProcessor.Handle and RetryFailedEmails.)
THEOREM TicketInvariant == Spec => []TicketInv
<1>1. Init => TicketInv
  BY InitTicketInv
<1>2. TicketInv /\ [Next]_vars => TicketInv'
  <2> SUFFICES ASSUME TicketInv, [Next]_vars PROVE TicketInv'
    OBVIOUS
  <2>1. TypeOK'
    BY NextTypeOK DEF TicketInv
  <2>2. Holding'
    BY HoldingKept DEF TicketInv
  <2>3. InOrder'
    BY InOrderKept DEF TicketInv
  <2>4. \A s \in Sale : Settled(s)'
    BY <2>1, SettledKept
  <2> QED
    BY <2>1, <2>2, <2>3, <2>4 DEF TicketInv
<1> QED
  BY <1>1, <1>2, PTL DEF Spec

\* Notifications, messages, consumers and retriers keep their types: a consumer
\* is idle when and only when it handles no sale, and a retrier sends and marks
\* only rows it holds.
THEOREM TicketTypeCorrect == Spec => []TypeOK
<1>1. TicketInv => TypeOK
  BY DEF TicketInv
<1> QED
  BY <1>1, TicketInvariant, PTL

\* A notification that says SENT, a sale with emailed_at and a delivery that is
\* acknowledged all have an email that went out, and its tickets were issued
\* before: at any number of workers, retriers, messages and faults.
\* (Handle commits prepareTicketEmail, then sends, then marks.)
THEOREM SentTrue == Spec => []SentIsTrue
<1>1. TicketInv => SentIsTrue
  BY DEF TicketInv, InOrder, RowInOrder, ConsumerInOrder, SentIsTrue
<1> QED
  BY <1>1, TicketInvariant, PTL

\* A customer gets at most one email for each message of the sale and each fault,
\* however many workers and retriers there are.
\* (FOR UPDATE SKIP LOCKED in RetryFailedEmails, and the locks of its rows.)
THEOREM Emails == Spec => []EmailsBounded
<1>1. TicketInv => EmailsBounded
  <2> SUFFICES ASSUME TicketInv, NEW s \in Sale PROVE inbox[s] <= published[s] + AllFaults
    BY DEF EmailsBounded
  <2>1. TypeOK /\ Accounted(s)
    BY DEF TicketInv, Settled
  <2>2. inbox[s] \in Nat /\ queue[s] \in Nat /\ published[s] \in Nat
    BY <2>1, DeliveryAssumption DEF TypeOK
  <2>3. Cardinality(Sending(s)) \in Nat
    BY <2>1, FS_CardinalityType, Zenon DEF Accounted
  <2> QED
    BY <2>1, <2>2, <2>3, FaultCounts, DebtType DEF Accounted
<1> QED
  BY <1>1, TicketInvariant, PTL

\* When the messages of a sale are used up and its email did not go out, the
\* failure is on record, crashes and aborted batches included, unless a delivery
\* ran into its timeout.  (markTicketEmailFailed, before Handle returns.)
THEOREM OnRecord == Spec => []UnsentIsOnRecord
<1>1. TicketInv => UnsentIsOnRecord
  <2> SUFFICES ASSUME TicketInv, NEW s \in Sale,
                      s \in issued, queue[s] = 0, inbox[s] = 0,
                      \A c \in Consumer : handling[c] # s
               PROVE  note[s].status \in {"FAILED", "DEAD_LETTER"} \/ faults["timeout"] > 0
    BY DEF UnsentIsOnRecord
  <2>1. Pursued(s) /\ Sending(s) = {}
    BY DEF TicketInv, Settled, Sending
  <2>2. faults["timeout"] \in Nat
    BY DeliveryAssumption DEF TicketInv, TypeOK, FaultKind
  <2> QED
    BY <2>1, <2>2 DEF Pursued
<1> QED
  BY <1>1, TicketInvariant, PTL
=============================================================================
