---------------------------- MODULE OutboxProofs -----------------------------
(***************************************************************************)
(* OutboxPublisher for any number of publishers and events, any batch size  *)
(* and any number of faults: an event is sent once and once more at most    *)
(* for each fault, no open event is out of reach, and the publisher keeps   *)
(* the promise of EventRelay.                                               *)
(***************************************************************************)
EXTENDS OutboxPublisher, FiniteSetTheorems, TLAPS

Open(e) == row[e].status \in {"PENDING", "FAILED"}

\* PublishJSON reported the event to p as published, and p has not committed.
Reported(p, e) ==
  \/ e \in sent[p]
  \/ outcome[p] = "nil" /\ Oldest(e, batch[p])

\* A transaction handles the rows that it locked, each once.
BatchInv ==
  \A p \in Publisher :
    /\ batch[p] \cup sent[p] \cup failed[p] \subseteq selected[p]
    /\ batch[p] \cap sent[p] = {}
    /\ batch[p] \cap failed[p] = {}
    /\ sent[p] \cap failed[p] = {}
    /\ outcome[p] # "none" => batch[p] # {}

\* No two transactions lock the same row.
OneHolder == \A p, q \in Publisher : p # q => selected[p] \cap selected[q] = {}

\* Nobody else changes a locked row.
SelectedOpen ==
  \A p \in Publisher : \A e \in selected[p] : Open(e) /\ row[e].attempts < maxAttempts

\* The order of the events is total.
Dated ==
  /\ \A e \in Event : row[e].status # "NONE" => created[e] # 0
  /\ \A e, f \in Event : created[e] = created[f] /\ created[e] # 0 => e = f

\* Nothing was done for an event without a row.
Untouched ==
  \A e \in Event : row[e].status = "NONE" => row[e].attempts = 0 /\ copies[e] = 0

\* Each copy but the one that will close the event is the trace of a fault.
CopiesInv ==
  \A e \in Event :
    /\ copies[e] <= 1 + faults
    /\ Open(e) /\ (\A p \in Publisher : ~Reported(p, e)) => copies[e] <= faults
    /\ e \in Routable => \A p \in Publisher : Reported(p, e) => copies[e] > 0

OutboxInv ==
  /\ TypeOK
  /\ BatchInv
  /\ OneHolder
  /\ SelectedOpen
  /\ OpenIsSelectable
  /\ Untouched
  /\ Dated
  /\ CopiesInv

LEMMA InitOutboxInv == Init => OutboxInv
<1> SUFFICES ASSUME Init PROVE OutboxInv
  OBVIOUS
<1>1. TypeOK
  BY OutboxAssumption DEF Init, TypeOK, Status, maxAttempts
<1>2. BatchInv /\ OneHolder /\ SelectedOpen
  BY DEF Init, BatchInv, OneHolder, SelectedOpen
<1>3. OpenIsSelectable /\ Untouched /\ Dated
  BY DEF Init, OpenIsSelectable, Untouched, Dated, maxAttempts
<1>4. CopiesInv
  BY DEF Init, CopiesInv, Reported, Open
<1> QED
  BY <1>1, <1>2, <1>3, <1>4 DEF OutboxInv

\* The first event of a batch is determined.
LEMMA OldestUnique ==
  ASSUME OutboxInv, NEW p \in Publisher,
         NEW e, Oldest(e, batch[p]), NEW f, Oldest(f, batch[p])
  PROVE  e = f /\ e \in Event /\ e \in selected[p]
<1>1. e \in selected[p] /\ f \in selected[p]
  BY DEF OutboxInv, BatchInv, Oldest
<1>2. e \in Event /\ f \in Event
  BY <1>1 DEF OutboxInv, TypeOK
<1>3. created[e] = created[f]
  <2>1. created[e] \in Nat /\ created[f] \in Nat
    BY <1>2 DEF OutboxInv, TypeOK
  <2>2. created[e] <= created[f] /\ created[f] <= created[e]
    BY DEF Oldest, Before
  <2> QED
    BY <2>1, <2>2
<1>4. created[e] # 0
  BY <1>1, <1>2 DEF OutboxInv, SelectedOpen, Dated, Open
<1> QED
  BY <1>1, <1>2, <1>3, <1>4 DEF OutboxInv, Dated

LEMMA ReportedSelected ==
  ASSUME OutboxInv, NEW p \in Publisher, NEW e, Reported(p, e)
  PROVE  e \in selected[p] /\ e \in Event
<1>1. e \in selected[p]
  BY DEF OutboxInv, BatchInv, Reported, Oldest
<1> QED
  BY <1>1 DEF OutboxInv, TypeOK

-----------------------------------------------------------------------------
(* One lemma for each action.                                               *)

\* The rank of a new event is that of no other.
LEMMA RecordInv ==
  ASSUME OutboxInv, NEW e \in Event, Record(e)
  PROVE  OutboxInv'
<1>1. PICK t \in 1 .. Cardinality(Event) :
        (\A f \in Event : created[f] # t) /\ created' = [created EXCEPT ![e] = t]
  BY DEF Record
<1>2. t \in Nat /\ t # 0
  BY <1>1, OutboxAssumption, FS_CardinalityType
<1>3. \A p \in Publisher : e \notin selected[p]
  BY DEF OutboxInv, SelectedOpen, Open, Record
<1>4. TypeOK'
  BY <1>1, <1>2 DEF OutboxInv, TypeOK, Record, txVars, Status
<1>5. BatchInv' /\ OneHolder'
  BY DEF OutboxInv, BatchInv, OneHolder, Record, txVars
<1>6. SelectedOpen'
  BY <1>3 DEF OutboxInv, TypeOK, SelectedOpen, Open, Record, txVars
<1>7. OpenIsSelectable' /\ Untouched'
  BY DEF OutboxInv, TypeOK, OpenIsSelectable, Untouched, Record, maxAttempts
<1>8. Dated'
  BY <1>1, <1>2 DEF OutboxInv, TypeOK, Dated, Record
<1>9. CopiesInv'
  <2>1. ASSUME NEW p \in Publisher, NEW f
        PROVE  Reported(p, f)' <=> Reported(p, f)
    <3>1. \A g \in batch[p] : created'[g] = created[g]
      BY <1>1, <1>3 DEF OutboxInv, BatchInv, TypeOK
    <3> QED
      BY <3>1 DEF Reported, Oldest, Before, Record, txVars
  <2>2. \A f \in Event : Open(f)' => Open(f) \/ f = e
    BY DEF OutboxInv, TypeOK, Open, Record
  <2>3. \A f \in Event : row'[f].status = "NONE" => row[f].status = "NONE"
    BY DEF OutboxInv, TypeOK, Record
  <2>4. copies[e] = 0 /\ faults \in Nat
    BY OutboxAssumption DEF OutboxInv, TypeOK, Untouched, Record
  <2> QED
    BY <2>1, <2>2, <2>3, <2>4 DEF OutboxInv, CopiesInv, Record
<1> QED
  BY <1>4, <1>5, <1>6, <1>7, <1>8, <1>9 DEF OutboxInv

\* The chosen rows are free, and the transaction had none before.
LEMMA SelectBatchInv ==
  ASSUME OutboxInv, NEW p \in Publisher, SelectBatch(p)
  PROVE  OutboxInv'
<1>1. PICK chosen \in SUBSET Free :
        /\ chosen # {}
        /\ batch'    = [batch EXCEPT ![p] = chosen]
        /\ selected' = [selected EXCEPT ![p] = chosen]
  BY DEF SelectBatch
<1>2. chosen \subseteq Event /\ \A e \in chosen : Selectable(e) /\ ~Locked(e)
  BY <1>1 DEF Free
<1>3. batch[p] = {} /\ sent[p] = {} /\ failed[p] = {} /\ outcome[p] = "none"
  BY DEF OutboxInv, BatchInv, SelectBatch
<1>4. TypeOK'
  BY <1>1, <1>2 DEF OutboxInv, TypeOK, SelectBatch
<1>5. BatchInv'
  <2> SUFFICES ASSUME NEW q \in Publisher
               PROVE  /\ batch'[q] \cup sent'[q] \cup failed'[q] \subseteq selected'[q]
                      /\ batch'[q] \cap sent'[q] = {}
                      /\ batch'[q] \cap failed'[q] = {}
                      /\ sent'[q] \cap failed'[q] = {}
                      /\ outcome'[q] # "none" => batch'[q] # {}
    BY DEF BatchInv
  <2>1. CASE q = p
    BY <1>1, <1>3, <2>1 DEF OutboxInv, TypeOK, SelectBatch
  <2>2. CASE q # p
    BY <1>1, <2>2 DEF OutboxInv, TypeOK, BatchInv, SelectBatch
  <2> QED
    BY <2>1, <2>2
<1>6. OneHolder'
  <2>1. \A q \in Publisher : chosen \cap selected[q] = {}
    BY <1>2 DEF Locked
  <2> QED
    BY <1>1, <2>1 DEF OutboxInv, TypeOK, OneHolder
<1>7. SelectedOpen'
  BY <1>1, <1>2 DEF OutboxInv, TypeOK, SelectedOpen, Open, Selectable, SelectBatch
<1>8. OpenIsSelectable' /\ Untouched' /\ Dated'
  BY DEF OutboxInv, OpenIsSelectable, Untouched, Dated, SelectBatch
<1>9. CopiesInv'
  <2>1. ASSUME NEW q \in Publisher, NEW f PROVE Reported(q, f)' <=> Reported(q, f)
    <3>1. CASE q = p
      BY <1>3, <3>1 DEF Reported, SelectBatch
    <3>2. CASE q # p
      BY <1>1, <3>2 DEF OutboxInv, TypeOK, Reported, Oldest, Before, SelectBatch
    <3> QED
      BY <3>1, <3>2
  <2> QED
    BY <2>1 DEF OutboxInv, CopiesInv, Open, SelectBatch
<1> QED
  BY <1>4, <1>5, <1>6, <1>7, <1>8, <1>9 DEF OutboxInv

\* A message reported as published takes the copy that the event has free; one
\* whose report was lost takes that of the fault.
LEMMA PublishJSONInv ==
  ASSUME OutboxInv, NEW p \in Publisher, PublishJSON(p)
  PROVE  OutboxInv'
<1>1. PICK e \in batch[p], result \in {"nil", "error"} :
        /\ Oldest(e, batch[p])
        /\ outcome[p] = "none"
        /\ outcome' = [outcome EXCEPT ![p] = result]
        /\ \/ /\ e \in Routable /\ result = "nil"
              /\ copies' = [copies EXCEPT ![e] = @ + 1] /\ faults' = faults
           \/ /\ e \in Routable /\ result = "error" /\ faults < MaxFaults
              /\ copies' = [copies EXCEPT ![e] = @ + 1] /\ faults' = faults + 1
           \/ copies' = copies /\ faults' = faults /\ result = "error"
           \/ copies' = copies /\ faults' = faults /\ result = "nil" /\ e \notin Routable
        /\ UNCHANGED <<created, row, due, selected, batch, sent, failed>>
  BY DEF PublishJSON
<1>2. e \in Event /\ e \in selected[p] /\ batch[p] # {}
  BY <1>1, OldestUnique
<1>3. copies \in [Event -> Nat] /\ faults \in Nat
  BY OutboxAssumption DEF OutboxInv, TypeOK
<1>4. TypeOK'
  BY <1>1, <1>2, OutboxAssumption DEF OutboxInv, TypeOK
<1>5. BatchInv'
  BY <1>1, <1>2 DEF OutboxInv, TypeOK, BatchInv
<1>6. OneHolder' /\ SelectedOpen' /\ OpenIsSelectable' /\ Dated'
  BY <1>1 DEF OutboxInv, OneHolder, SelectedOpen, OpenIsSelectable, Dated, Open
<1>7. Untouched'
  <2>1. row[e].status # "NONE"
    BY <1>2 DEF OutboxInv, SelectedOpen, Open
  <2> QED
    BY <1>1, <1>2, <1>3, <2>1 DEF OutboxInv, Untouched
<1>8. CopiesInv'
  <2>1. \A q \in Publisher : ~Reported(q, e)
    <3>1. ~Reported(p, e)
      BY <1>1 DEF OutboxInv, BatchInv, Reported
    <3>2. ASSUME NEW q \in Publisher, q # p PROVE ~Reported(q, e)
      BY <1>2, <3>2, ReportedSelected DEF OutboxInv, OneHolder
    <3> QED
      BY <3>1, <3>2
  <2>2. ASSUME NEW q \in Publisher, NEW f
        PROVE  Reported(q, f)' <=> Reported(q, f) \/ (q = p /\ f = e /\ result = "nil")
    <3>1. CASE q = p
      <4>1. Oldest(f, batch[p])' <=> f = e
        BY <1>1, OldestUnique DEF Oldest, Before
      <4> QED
        BY <1>1, <3>1, <4>1 DEF OutboxInv, TypeOK, Reported
    <3>2. CASE q # p
      BY <1>1, <3>2 DEF OutboxInv, TypeOK, Reported, Oldest, Before
    <3> QED
      BY <3>1, <3>2
  <2>3. Open(e) /\ copies[e] <= faults
    BY <1>2, <2>1 DEF OutboxInv, SelectedOpen, CopiesInv
  <2> SUFFICES ASSUME NEW f \in Event
               PROVE  /\ copies'[f] <= 1 + faults'
                      /\ Open(f)' /\ (\A q \in Publisher : ~Reported(q, f)')
                           => copies'[f] <= faults'
                      /\ f \in Routable =>
                           \A q \in Publisher : Reported(q, f)' => copies'[f] > 0
    BY DEF CopiesInv
  <2>4. /\ copies[f] <= 1 + faults
        /\ Open(f) /\ (\A q \in Publisher : ~Reported(q, f)) => copies[f] <= faults
        /\ f \in Routable => \A q \in Publisher : Reported(q, f) => copies[f] > 0
    BY DEF OutboxInv, CopiesInv
  <2>5. Open(f)' <=> Open(f)
    BY <1>1 DEF Open
  <2>6. CASE f = e
    <3>1. copies[e] \in Nat /\ copies'[e] \in Nat
      BY <1>1, <1>2, <1>3
    <3>2. CASE e \in Routable /\ result = "nil" /\ copies' = [copies EXCEPT ![e] = @ + 1]
               /\ faults' = faults
      BY <1>2, <1>3, <2>2, <2>3, <2>6, <3>1, <3>2
    <3>3. CASE e \in Routable /\ result = "error" /\ faults' = faults + 1
               /\ copies' = [copies EXCEPT ![e] = @ + 1]
      BY <1>2, <1>3, <2>1, <2>2, <2>3, <2>6, <3>1, <3>3
    <3>4. CASE copies' = copies /\ faults' = faults /\ (result = "error" \/ e \notin Routable)
      BY <1>2, <1>3, <2>1, <2>2, <2>3, <2>6, <3>1, <3>4
    <3> QED
      BY <1>1, <3>2, <3>3, <3>4
  <2>7. CASE f # e
    <3>1. copies'[f] = copies[f] /\ copies[f] \in Nat /\ faults' \in Nat /\ faults <= faults'
      BY <1>1, <1>3, <2>7
    <3> QED
      BY <1>3, <2>2, <2>4, <2>5, <2>7, <3>1
  <2> QED
    BY <2>6, <2>7
<1> QED
  BY <1>4, <1>5, <1>6, <1>7, <1>8 DEF OutboxInv

LEMMA MarkInv ==
  ASSUME OutboxInv, NEW p \in Publisher, Mark(p)
  PROVE  OutboxInv'
<1>1. PICK e \in batch[p] :
        /\ Oldest(e, batch[p])
        /\ outcome[p] # "none"
        /\ batch'   = [batch EXCEPT ![p] = @ \ {e}]
        /\ outcome' = [outcome EXCEPT ![p] = "none"]
        /\ \/ /\ outcome[p] = "nil"
              /\ sent' = [sent EXCEPT ![p] = @ \cup {e}] /\ UNCHANGED failed
           \/ /\ outcome[p] # "nil"
              /\ failed' = [failed EXCEPT ![p] = @ \cup {e}] /\ UNCHANGED sent
        /\ UNCHANGED <<created, row, due, copies, selected, faults>>
  BY DEF Mark
<1>2. e \in Event /\ e \in selected[p]
  BY <1>1, OldestUnique
<1>3. TypeOK'
  BY <1>1, <1>2 DEF OutboxInv, TypeOK
<1>4. BatchInv'
  BY <1>1, <1>2 DEF OutboxInv, TypeOK, BatchInv
<1>5. OneHolder' /\ SelectedOpen' /\ OpenIsSelectable' /\ Untouched' /\ Dated'
  BY <1>1 DEF OutboxInv, OneHolder, SelectedOpen, OpenIsSelectable, Untouched, Dated, Open
<1>6. CopiesInv'
  <2>1. ASSUME NEW q \in Publisher, NEW f PROVE Reported(q, f)' <=> Reported(q, f)
    <3>1. CASE q = p
      <4>1. Oldest(f, batch[p]) <=> f = e
        BY <1>1, OldestUnique
      <4>2. outcome'[p] = "none"
        BY <1>1 DEF OutboxInv, TypeOK
      <4>3. CASE outcome[p] = "nil" /\ sent'[p] = sent[p] \cup {e}
        BY <3>1, <4>1, <4>2, <4>3 DEF Reported
      <4>4. CASE outcome[p] # "nil" /\ sent'[p] = sent[p]
        BY <3>1, <4>1, <4>2, <4>4 DEF Reported
      <4> QED
        BY <1>1, <4>3, <4>4 DEF OutboxInv, TypeOK
    <3>2. CASE q # p
      BY <1>1, <3>2 DEF OutboxInv, TypeOK, Reported, Oldest, Before
    <3> QED
      BY <3>1, <3>2
  <2> QED
    BY <1>1, <2>1 DEF OutboxInv, CopiesInv, Open
<1> QED
  BY <1>3, <1>4, <1>5, <1>6 DEF OutboxInv

\* Whatever ends a transaction leaves those of the others alone.
LEMMA TxEndsOthers ==
  ASSUME OutboxInv, NEW p \in Publisher, TxEnds(p), created' = created
  PROVE  /\ BatchInv' /\ OneHolder'
         /\ selected' = [selected EXCEPT ![p] = {}]
         /\ selected' \in [Publisher -> SUBSET Event]
         /\ batch'    \in [Publisher -> SUBSET Event]
         /\ outcome'  \in [Publisher -> {"none", "nil", "error"}]
         /\ sent'     \in [Publisher -> SUBSET Event]
         /\ failed'   \in [Publisher -> SUBSET Event]
         /\ \A q \in Publisher : \A f : Reported(q, f)' <=> q # p /\ Reported(q, f)
<1>1. BatchInv'
  BY DEF OutboxInv, TypeOK, BatchInv, TxEnds
<1>2. OneHolder'
  BY DEF OutboxInv, TypeOK, OneHolder, TxEnds
<1>3. \A q \in Publisher : \A f : Reported(q, f)' <=> q # p /\ Reported(q, f)
  BY DEF OutboxInv, TypeOK, Reported, Oldest, Before, TxEnds
<1> QED
  BY <1>1, <1>2, <1>3 DEF OutboxInv, TypeOK, TxEnds

\* What a commit makes of the rows that it had locked, and of the others.
LEMMA CommittedRow ==
  ASSUME OutboxInv, NEW p \in Publisher, Commit(p), NEW e \in Event
  PROVE  /\ row'[e] \in [status : Status, attempts : 0 .. maxAttempts]
         /\ e \notin sent[p] \cup failed[p] => row'[e] = row[e]
         /\ e \in sent[p] => Open(e) /\ row'[e].status = "PUBLISHED"
         /\ e \in failed[p] =>
              /\ Open(e)
              /\ row'[e].attempts = row[e].attempts + 1
              /\ \/ row'[e].status = "FAILED" /\ row'[e].attempts < maxAttempts
                 \/ row'[e].status = "DEAD_LETTER" /\ row'[e].attempts = maxAttempts
<1>1. row'[e] = IF e \in sent[p] THEN [row[e] EXCEPT !.status = "PUBLISHED"]
                ELSE IF e \in failed[p] THEN FailedRow(row[e])
                ELSE row[e]
  BY DEF Commit
<1>2. row[e] \in [status : Status, attempts : 0 .. maxAttempts]
  BY DEF OutboxInv, TypeOK
<1>3. sent[p] \cap failed[p] = {}
  BY DEF OutboxInv, BatchInv
<1>4. CASE e \in sent[p]
  <2>1. Open(e)
    BY <1>4 DEF OutboxInv, BatchInv, SelectedOpen
  <2> QED
    BY <1>1, <1>2, <1>3, <1>4, <2>1 DEF Status
<1>5. CASE e \in failed[p]
  <2>1. Open(e) /\ row[e].attempts < maxAttempts
    BY <1>5 DEF OutboxInv, BatchInv, SelectedOpen
  <2> QED
    BY <1>1, <1>2, <1>3, <1>5, <2>1 DEF FailedRow, Status, maxAttempts
<1>6. CASE e \notin sent[p] \cup failed[p]
  BY <1>1, <1>2, <1>6
<1> QED
  BY <1>4, <1>5, <1>6

LEMMA CommitInv ==
  ASSUME OutboxInv, NEW p \in Publisher, Commit(p)
  PROVE  OutboxInv'
<1>1. /\ batch[p] = {} /\ TxEnds(p)
      /\ row' = [e \in Event |-> row'[e]]
      /\ UNCHANGED <<created, copies, faults>>
  BY DEF Commit
<1>2. TypeOK'
  <2>1. row' \in [Event -> [status : Status, attempts : 0 .. maxAttempts]]
    BY <1>1, CommittedRow
  <2>2. due' \in [Event -> BOOLEAN]
    BY DEF OutboxInv, TypeOK, Commit
  <2> QED
    BY <1>1, <2>1, <2>2, TxEndsOthers DEF OutboxInv, TypeOK
<1>3. BatchInv' /\ OneHolder'
  BY <1>1, TxEndsOthers
<1>4. SelectedOpen'
  <2> SUFFICES ASSUME NEW q \in Publisher, NEW e \in selected'[q]
               PROVE  Open(e)' /\ row'[e].attempts < maxAttempts
    BY DEF SelectedOpen
  <2>1. q # p /\ e \in selected[q]
    BY <1>1, TxEndsOthers DEF OutboxInv, TypeOK
  <2>2. e \in Event /\ e \notin sent[p] \cup failed[p]
    BY <2>1 DEF OutboxInv, TypeOK, OneHolder, BatchInv
  <2> QED
    BY <2>1, <2>2, CommittedRow DEF OutboxInv, SelectedOpen, Open
<1>5. OpenIsSelectable' /\ Untouched'
  <2> SUFFICES ASSUME NEW e \in Event
               PROVE  /\ row'[e].status \in {"PENDING", "FAILED"} => row'[e].attempts < maxAttempts
                      /\ row'[e].status = "DEAD_LETTER" => row'[e].attempts = maxAttempts
                      /\ row'[e].status = "NONE" => row'[e].attempts = 0 /\ copies[e] = 0
    BY <1>1 DEF OpenIsSelectable, Untouched
  <2>1. CASE e \in sent[p] \cup failed[p]
    BY <2>1, CommittedRow
  <2>2. CASE e \notin sent[p] \cup failed[p]
    BY <2>2, CommittedRow DEF OutboxInv, OpenIsSelectable, Untouched
  <2> QED
    BY <2>1, <2>2
<1>6. Dated'
  BY <1>1, CommittedRow DEF OutboxInv, Dated, Open
<1>7. CopiesInv'
  <2> SUFFICES ASSUME NEW e \in Event
               PROVE  /\ copies[e] <= 1 + faults
                      /\ Open(e)' /\ (\A q \in Publisher : ~Reported(q, e)') => copies[e] <= faults
                      /\ e \in Routable => \A q \in Publisher : Reported(q, e)' => copies[e] > 0
    BY <1>1 DEF CopiesInv
  <2>1. Reported(p, e) <=> e \in sent[p]
    BY <1>1 DEF Reported, Oldest
  <2>2. Open(e)' => Open(e) /\ e \notin sent[p]
    BY CommittedRow DEF Open
  <2> QED
    BY <1>1, <2>1, <2>2, TxEndsOthers DEF OutboxInv, CopiesInv
<1> QED
  BY <1>2, <1>3, <1>4, <1>5, <1>6, <1>7 DEF OutboxInv

\* The fault pays for the copies that the undone transaction had sent.
LEMMA AbortInv ==
  ASSUME OutboxInv, NEW p \in Publisher, Abort(p)
  PROVE  OutboxInv'
<1>1. TxEnds(p) /\ faults' = faults + 1 /\ UNCHANGED <<created, row, due, copies>>
  BY DEF Abort
<1>2. faults \in Nat /\ faults' \in 0 .. MaxFaults /\ copies \in [Event -> Nat]
  BY OutboxAssumption DEF OutboxInv, TypeOK, Abort
<1>3. TypeOK'
  BY <1>1, <1>2, TxEndsOthers DEF OutboxInv, TypeOK
<1>4. BatchInv' /\ OneHolder'
  BY <1>1, TxEndsOthers
<1>5. SelectedOpen'
  BY <1>1, TxEndsOthers DEF OutboxInv, TypeOK, SelectedOpen, Open
<1>6. OpenIsSelectable' /\ Untouched' /\ Dated'
  BY <1>1 DEF OutboxInv, OpenIsSelectable, Untouched, Dated
<1>7. CopiesInv'
  <2> SUFFICES ASSUME NEW e \in Event
               PROVE  /\ copies[e] <= faults'
                      /\ copies[e] <= 1 + faults'
                      /\ e \in Routable => \A q \in Publisher : Reported(q, e)' => copies[e] > 0
    BY <1>1 DEF CopiesInv
  <2>1. copies[e] <= 1 + faults /\ copies[e] \in Nat
    BY <1>2 DEF OutboxInv, CopiesInv
  <2>2. copies[e] <= faults' /\ copies[e] <= 1 + faults'
    BY <1>1, <1>2, <2>1
  <2>3. e \in Routable => \A q \in Publisher : Reported(q, e)' => copies[e] > 0
    BY <1>1, TxEndsOthers DEF OutboxInv, CopiesInv
  <2> QED
    BY <2>2, <2>3
<1> QED
  BY <1>3, <1>4, <1>5, <1>6, <1>7 DEF OutboxInv

LEMMA BecomeDueInv ==
  ASSUME OutboxInv, NEW e \in Event, BecomeDue(e)
  PROVE  OutboxInv'
<1>1. UNCHANGED <<created, row, copies, selected, batch, outcome, sent, failed, faults>>
  BY DEF BecomeDue, txVars
<1>2. TypeOK'
  BY <1>1 DEF OutboxInv, TypeOK, BecomeDue
<1>3. BatchInv' /\ OneHolder' /\ SelectedOpen' /\ OpenIsSelectable' /\ Untouched' /\ Dated'
  BY <1>1 DEF OutboxInv, BatchInv, OneHolder, SelectedOpen, OpenIsSelectable, Untouched, Dated,
              Open
<1>4. CopiesInv'
  BY <1>1 DEF OutboxInv, CopiesInv, Reported, Oldest, Before, Open
<1> QED
  BY <1>2, <1>3, <1>4 DEF OutboxInv

\* A published row is in no transaction.
LEMMA CleanupInv ==
  ASSUME OutboxInv, NEW e \in Event, Cleanup(e)
  PROVE  OutboxInv'
<1>1. /\ UNCHANGED <<created, due, copies, selected, batch, outcome, sent, failed, faults>>
      /\ row[e].status = "PUBLISHED"
      /\ row' = [row EXCEPT ![e].status = "DELETED"]
  BY DEF Cleanup, txVars
<1>2. /\ row' \in [Event -> [status : Status, attempts : 0 .. maxAttempts]]
      /\ row'[e].status = "DELETED"
      /\ \A f \in Event \ {e} : row'[f] = row[f]
  BY <1>1 DEF OutboxInv, TypeOK, Status
<1>3. \A p \in Publisher : e \notin selected[p] /\ selected[p] \subseteq Event
  BY <1>1 DEF OutboxInv, TypeOK, SelectedOpen, Open
<1>4. TypeOK'
  BY <1>1, <1>2 DEF OutboxInv, TypeOK
<1>5. BatchInv' /\ OneHolder'
  BY <1>1 DEF OutboxInv, BatchInv, OneHolder
<1>6. SelectedOpen'
  BY <1>1, <1>2, <1>3 DEF OutboxInv, SelectedOpen, Open
<1>7. OpenIsSelectable' /\ Untouched' /\ Dated'
  BY <1>1, <1>2 DEF OutboxInv, OpenIsSelectable, Untouched, Dated
<1>8. CopiesInv'
  <2>1. \A f \in Event : Open(f)' => Open(f)
    BY <1>2 DEF Open
  <2>2. \A p \in Publisher : \A f : Reported(p, f)' <=> Reported(p, f)
    BY <1>1 DEF Reported, Oldest, Before
  <2> QED
    BY <1>1, <2>1, <2>2 DEF OutboxInv, CopiesInv
<1> QED
  BY <1>4, <1>5, <1>6, <1>7, <1>8 DEF OutboxInv

LEMMA NextOutboxInv == OutboxInv /\ [Next]_vars => OutboxInv'
<1> SUFFICES ASSUME OutboxInv, [Next]_vars PROVE OutboxInv'
  OBVIOUS
<1>1. ASSUME NEW e \in Event, Record(e) \/ BecomeDue(e) \/ Cleanup(e) PROVE OutboxInv'
  BY <1>1, RecordInv, BecomeDueInv, CleanupInv
<1>2. ASSUME NEW p \in Publisher, PublisherStep(p) \/ Abort(p) PROVE OutboxInv'
  BY <1>2, SelectBatchInv, PublishJSONInv, MarkInv, CommitInv, AbortInv DEF PublisherStep
<1>3. CASE UNCHANGED vars
  BY <1>3 DEF vars, txVars, OutboxInv, TypeOK, BatchInv, OneHolder, SelectedOpen,
              OpenIsSelectable, Untouched, Dated, CopiesInv, Reported, Oldest, Before, Open
<1> QED
  BY <1>1, <1>2, <1>3 DEF Next

\* What publishers, events and copies look like between any two statements of
\* PublishPending: rows have one holder, who alone changes them, and each copy
\* but the one that will close its event is the trace of a fault.
THEOREM OutboxInvariant == Spec => []OutboxInv
BY InitOutboxInv, NextOutboxInv, PTL DEF Spec

\* Rows, batches and marks keep their types; above all, no event is tried more
\* often than maxAttempts.  (markFailed counts an attempt and, at the last one,
\* closes the row.)
THEOREM OutboxTypeCorrect == Spec => []TypeOK
<1>1. OutboxInv => TypeOK
  BY DEF OutboxInv
<1> QED
  BY <1>1, OutboxInvariant, PTL

\* Two workers that publish at the same time send no event twice: whatever is
\* in a queue twice has been there once for an undone batch or a broken
\* connection.  (FOR UPDATE SKIP LOCKED of PublishPending.)
THEOREM Copies == Spec => []CopiesBounded
<1>1. OutboxInv => CopiesBounded
  BY DEF OutboxInv, CopiesInv, CopiesBounded
<1> QED
  BY <1>1, OutboxInvariant, PTL

\* An event that PublishPending did not close is one that its WHERE accepts
\* again when it is due.
THEOREM NeverStuck == Spec => []OpenIsSelectable
<1>1. OutboxInv => OpenIsSelectable
  BY DEF OutboxInv
<1> QED
  BY <1>1, OutboxInvariant, PTL

-----------------------------------------------------------------------------
(* The refinement of EventRelay.                                            *)

\* The state that EventRelay sees.
relayState == [e \in Event |-> RelayState(row[e].status)]

LEMMA OpenRelayState ==
  ASSUME NEW e \in Event, Open(e)
  PROVE  RelayState(row[e].status) = "open"
BY DEF Open, RelayState

\* Nothing of a transaction is seen before its commit.
LEMMA InvisibleStep ==
  ASSUME row' = row, copies' = copies
  PROVE  UNCHANGED Relay!vars
BY DEF Relay!vars

LEMMA RecordRefines ==
  ASSUME OutboxInv, NEW e \in Event, Record(e)
  PROVE  Relay!Record(e)
<1>1. relayState' = [relayState EXCEPT ![e] = "open"]
  <2>1. /\ row'[e].status = "PENDING"
        /\ \A f \in Event \ {e} : row'[f] = row[f]
    BY DEF OutboxInv, TypeOK, Record
  <2>2. RelayState(row'[e].status) = "open"
    BY <2>1 DEF RelayState
  <2> QED
    BY <2>1, <2>2 DEF relayState
<1>2. relayState[e] = "none" /\ copies' = copies
  BY DEF Record, relayState, RelayState
<1> QED
  BY <1>1, <1>2 DEF Relay!Record, relayState

LEMMA PublishRefines ==
  ASSUME OutboxInv, NEW p \in Publisher, PublishJSON(p)
  PROVE  (\E e \in Event : Relay!Send(e)) \/ UNCHANGED Relay!vars
<1>1. PICK e \in batch[p] :
        /\ Oldest(e, batch[p])
        /\ row' = row
        /\ copies' = copies \/ copies' = [copies EXCEPT ![e] = @ + 1]
  BY DEF PublishJSON
<1>2. e \in Event /\ Open(e)
  BY <1>1, OldestUnique DEF OutboxInv, SelectedOpen
<1>3. CASE copies' = copies
  BY <1>1, <1>3, InvisibleStep
<1>4. CASE copies' = [copies EXCEPT ![e] = @ + 1]
  <2>1. relayState[e] = "open" /\ relayState' = relayState
    BY <1>1, <1>2, OpenRelayState DEF relayState
  <2>2. Relay!Send(e)
    BY <1>4, <2>1 DEF Relay!Send, relayState
  <2> QED
    BY <1>2, <2>2
<1> QED
  BY <1>1, <1>3, <1>4

\* A commit closes what it marked published, of which a queue took every
\* routable event, and what it failed for the last time.
LEMMA CommitRefines ==
  ASSUME OutboxInv, NEW p \in Publisher, Commit(p)
  PROVE  \E published, givenUp \in SUBSET Event : Relay!CloseEvents(published, givenUp)
<1> DEFINE published == sent[p]
           givenUp   == {e \in failed[p] : row'[e].status = "DEAD_LETTER"}
<1>1. published \in SUBSET Event /\ givenUp \in SUBSET Event
  BY DEF OutboxInv, TypeOK
<1>2. \A e \in published \cup givenUp : relayState[e] = "open"
  BY <1>1, CommittedRow, OpenRelayState DEF relayState
<1>3. \A e \in published \cap Routable : copies[e] > 0
  BY <1>1 DEF OutboxInv, CopiesInv, Reported
<1>4. ASSUME NEW e \in Event
      PROVE  relayState'[e] = IF e \in published THEN "published"
                              ELSE IF e \in givenUp THEN "given up" ELSE relayState[e]
  <2>1. relayState'[e] = RelayState(row'[e].status) /\ relayState[e] = RelayState(row[e].status)
    BY DEF relayState
  <2>2. CASE e \in sent[p]
    BY <2>1, <2>2, CommittedRow DEF RelayState
  <2>3. CASE e \in failed[p] /\ e \notin sent[p]
    <3>1. RelayState(row[e].status) = "open"
      BY <2>3, CommittedRow, OpenRelayState
    <3>2. CASE row'[e].status = "FAILED"
      BY <2>1, <2>3, <3>1, <3>2 DEF RelayState
    <3>3. CASE row'[e].status = "DEAD_LETTER"
      BY <2>1, <2>3, <3>3 DEF RelayState
    <3> QED
      BY <2>3, <3>2, <3>3, CommittedRow
  <2>4. CASE e \notin sent[p] \cup failed[p]
    BY <2>1, <2>4, CommittedRow
  <2> QED
    BY <2>2, <2>3, <2>4
<1>5. relayState' = [e \in Event |-> IF e \in published THEN "published"
                                     ELSE IF e \in givenUp THEN "given up" ELSE relayState[e]]
  BY <1>4 DEF relayState
<1>6. copies' = copies
  BY DEF Commit
<1>7. Relay!CloseEvents(published, givenUp)
  BY <1>2, <1>3, <1>5, <1>6 DEF Relay!CloseEvents, relayState
<1> QED
  BY <1>1, <1>7

LEMMA CleanupRefines ==
  ASSUME OutboxInv, NEW e \in Event, Cleanup(e)
  PROVE  Relay!Delete(e)
<1>1. relayState' = [relayState EXCEPT ![e] = "deleted"]
  BY DEF OutboxInv, TypeOK, Cleanup, relayState, RelayState
<1>2. relayState[e] = "published" /\ copies' = copies
  BY DEF Cleanup, relayState, RelayState
<1> QED
  BY <1>1, <1>2 DEF Relay!Delete, relayState

LEMMA InitRefines == Init => Relay!Init
BY DEF Init, Relay!Init, RelayState

LEMMA NextRefines == OutboxInv /\ [Next]_vars => [Relay!Next]_(Relay!vars)
<1> SUFFICES ASSUME OutboxInv, [Next]_vars PROVE Relay!Next \/ UNCHANGED Relay!vars
  OBVIOUS
<1>1. ASSUME NEW e \in Event, Record(e) PROVE Relay!Next
  BY <1>1, RecordRefines DEF Relay!Next
<1>2. ASSUME NEW e \in Event, BecomeDue(e) PROVE UNCHANGED Relay!vars
  BY <1>2, InvisibleStep DEF BecomeDue
<1>3. ASSUME NEW e \in Event, Cleanup(e) PROVE Relay!Next
  BY <1>3, CleanupRefines DEF Relay!Next
<1>4. ASSUME NEW p \in Publisher, SelectBatch(p) \/ Mark(p) \/ Abort(p)
      PROVE  UNCHANGED Relay!vars
  BY <1>4, InvisibleStep DEF SelectBatch, Mark, Abort
<1>5. ASSUME NEW p \in Publisher, PublishJSON(p) PROVE Relay!Next \/ UNCHANGED Relay!vars
  BY <1>5, PublishRefines DEF Relay!Next
<1>6. ASSUME NEW p \in Publisher, Commit(p) PROVE Relay!Next
  BY <1>6, CommitRefines DEF Relay!Next
<1>7. CASE UNCHANGED vars
  BY <1>7, InvisibleStep DEF vars
<1> QED
  BY <1>1, <1>2, <1>3, <1>4, <1>5, <1>6, <1>7 DEF Next, PublisherStep

\* The publisher keeps the promise of EventRelay: an event is closed as
\* published only when its queue took it or it has none, given up only open,
\* never sent again once closed, and deleted only published.
\* (PublishPending, markPublished, markFailed, Cleanup.)
THEOREM RelayImplemented == Spec => RelaySpec
<1>1. OutboxInv /\ [Next]_vars => [Relay!Next]_(Relay!vars)
  BY NextRefines
<1>2. Init => Relay!Init
  BY InitRefines
<1> QED
  BY <1>1, <1>2, OutboxInvariant, PTL DEF Spec, RelaySpec, Relay!Spec
=============================================================================
