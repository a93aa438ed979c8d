----------------------------- MODULE SalesProofs -----------------------------
(***************************************************************************)
(* Theorems about Sales and SalesSystem, for every set of sales, tickets,   *)
(* workers, gates and providers, every stock and every bound on faults.     *)
(*                                                                          *)
(* Sales, for any number of workers and any requests                        *)
(*     TypeCorrect, Oversell (NeverOversold), Acked (AckedIsPersisted)      *)
(*   for one worker                                                         *)
(*     Implements (LifecycleSpec), SettlementAgrees (SettlementConsistent)  *)
(*   for one worker and requests that name no ticket twice                  *)
(*     Conservation (StockConserved)                                        *)
(*                                                                          *)
(* SalesSystem, from POST /sales to the door, for any number of workers,    *)
(* also when a second one reopens a sale that was settled                   *)
(*     SystemInvariant    SystemInv, the inductive invariant                *)
(*     SystemTypeCorrect  SystemTypeOK                                      *)
(*     Settlements        SettlementsBounded                                *)
(*     Admission          AdmittedWithinStock                               *)
(*     Promised           PromiseSpec, the refinement of TicketPromise      *)
(***************************************************************************)
EXTENDS SalesSystem, FiniteSetTheorems, SequenceTheorems, TLAPS

-----------------------------------------------------------------------------
(* Type correctness.                                                        *)

USE SalesAssumption DEF Request

\* A worker that is not idle handles a sale: TypeOK alone is not inductive.
HandlingOK == \A w \in Worker : pc[w] # "idle" => handling[w] \in Sale

TypeInv == TypeOK /\ HandlingOK

\* A row of payments or payment_intents keeps its type when its status changes.
LEMMA RowStatus ==
  ASSUME NEW S, NEW P, NEW row \in [status : S, provider : P], NEW v \in S
  PROVE  /\ [row EXCEPT !.status = v] \in [status : S, provider : P]
         /\ [row EXCEPT !.status = v].status = v
         /\ [row EXCEPT !.status = v].provider = row.provider
  OBVIOUS

LEMMA NoRequestType == NoRequest \in Request
  BY DEF NoRequest, Request

LEMMA InitTypeOK == Init => TypeOK
  BY NoRequestType DEF Init, TypeOK, MessageState, WorkerState, SaleStatus, PaymentStatus,
     IntentStatus, EventType

LEMMA ProcessPaymentTxType ==
  ASSUME TypeOK, NEW s \in Sale, NEW p \in Provider, NEW status \in {"APPROVED", "FAILED"},
         ProcessPaymentTx(s, p, status)
  PROVE  /\ available' \in [Ticket -> Nat]
         /\ sale' \in [Sale -> SaleStatus]
         /\ items' = items
         /\ payment' \in [Sale -> [status : PaymentStatus, provider : Provider \cup {"pending"}]]
         /\ outbox' \in [Sale -> Seq(EventType)]
<1>1. available' \in [Ticket -> Nat]
  BY DEF TypeOK, ProcessPaymentTx, Released
<1>2. /\ sale' \in [Sale -> SaleStatus]
      /\ items' = items
      /\ payment' \in [Sale -> [status : PaymentStatus, provider : Provider \cup {"pending"}]]
  BY DEF TypeOK, ProcessPaymentTx, SaleStatus, PaymentStatus
<1>3. outbox' \in [Sale -> Seq(EventType)]
  BY DEF TypeOK, ProcessPaymentTx, EventType
<1> QED BY <1>1, <1>2, <1>3

LEMMA RequeuedType ==
  ASSUME TypeOK, NEW w \in Worker
  PROVE  Requeued(w) \in [Sale -> MessageState]
  BY DEF TypeOK, Requeued, MessageState

LEMMA PersistSaleType ==
  ASSUME TypeOK, NEW w \in Worker, handling[w] \in Sale, PersistSale(w)
  PROVE  TypeOK'
<1> DEFINE s == handling[w]
           r == request[s]
<1>1. r \in Request
  BY DEF TypeOK
<1>2. available' \in [Ticket -> Nat]
  BY <1>1 DEF TypeOK, PersistSale, EnoughTickets, Taken
<1>3. items' \in [Sale -> [Ticket -> 0 .. MaxQuantity]]
  BY <1>1 DEF TypeOK, PersistSale, StoredItems
<1>4. /\ sale' \in [Sale -> SaleStatus]
      /\ pc' \in [Worker -> WorkerState]
  BY DEF TypeOK, PersistSale, SaleStatus, WorkerState
<1>5. payment' \in [Sale -> [status : PaymentStatus, provider : Provider \cup {"pending"}]]
  <2> DEFINE row == [payment[s] EXCEPT !.status = "PENDING"]
  <2>1. row \in [status : PaymentStatus, provider : Provider \cup {"pending"}]
    <3>1. payment[s] \in [status : PaymentStatus, provider : Provider \cup {"pending"}]
      BY DEF TypeOK
    <3>2. "PENDING" \in PaymentStatus
      BY DEF PaymentStatus
    <3> QED
      BY <3>1, <3>2, RowStatus
  <2>2. payment' = [payment EXCEPT ![s] = row]
    BY DEF PersistSale
  <2> HIDE DEF row
  <2> QED
    BY <2>1, <2>2 DEF TypeOK
<1> QED
  <2>1. /\ request' = request /\ message' = message /\ handling' = handling
        /\ connected' = connected /\ faults' = faults /\ intent' = intent /\ outbox' = outbox
    BY DEF PersistSale, brokerVars
  <2> QED
    BY <1>2, <1>3, <1>4, <1>5, <2>1 DEF TypeOK

LEMMA NextTypeOK == TypeInv /\ [Next]_vars => TypeOK'
<1> SUFFICES ASSUME TypeOK, HandlingOK, [Next]_vars PROVE TypeOK'
  BY DEF TypeInv
<1>1. ASSUME NEW s \in Sale, NEW r \in Requests, CreateSale(s, r) PROVE TypeOK'
  BY <1>1 DEF TypeOK, CreateSale, workerVars, dbVars, MessageState
<1>2. ASSUME NEW s \in Sale, NEW p \in Provider, CreatePaymentIntent(s, p) PROVE TypeOK'
  BY <1>2 DEF TypeOK, CreatePaymentIntent, brokerVars, workerVars, IntentStatus, PaymentStatus
<1>3. ASSUME NEW s \in Sale, NEW p \in Provider, NEW status \in {"APPROVED", "FAILED"},
             ProcessPayment(s, p, status)
      PROVE  TypeOK'
  BY <1>3, ProcessPaymentTxType DEF TypeOK, ProcessPayment, brokerVars, workerVars
<1>4. ASSUME NEW s \in Sale, NEW p \in Provider, NEW status \in {"APPROVED", "FAILED"},
             ProcessPaymentWebhook(s, p, status)
      PROVE  TypeOK'
  <2> DEFINE row == [intent[s] EXCEPT !.status = IF status = "APPROVED" THEN "SUCCEEDED" ELSE "FAILED"]
  <2>1. row \in [status : IntentStatus, provider : Provider \cup {"pending"}]
    <3>1. intent[s] \in [status : IntentStatus, provider : Provider \cup {"pending"}]
      BY DEF TypeOK
    <3>2. (IF status = "APPROVED" THEN "SUCCEEDED" ELSE "FAILED") \in IntentStatus
      BY DEF IntentStatus
    <3> QED
      BY <3>1, <3>2, RowStatus
  <2>2. intent' = [intent EXCEPT ![s] = row]
    BY <1>4 DEF ProcessPaymentWebhook
  <2> HIDE DEF row
  <2>3. intent' \in [Sale -> [status : IntentStatus, provider : Provider \cup {"pending"}]]
    BY <2>1, <2>2 DEF TypeOK
  <2> QED
    BY <1>4, <2>3, ProcessPaymentTxType
       DEF TypeOK, ProcessPaymentWebhook, brokerVars, workerVars
<1>5. ASSUME NEW w \in Worker, NEW s \in Sale, Deliver(w, s) PROVE TypeOK'
  BY <1>5 DEF TypeOK, Deliver, dbVars, MessageState, WorkerState
<1>6. ASSUME NEW w \in Worker, SaleAlreadyProcessed(w) PROVE TypeOK'
  BY <1>6 DEF TypeOK, SaleAlreadyProcessed, brokerVars, dbVars, WorkerState
<1>7. ASSUME NEW w \in Worker, HandlerFails(w) PROVE TypeOK'
  BY <1>7 DEF TypeOK, HandlerFails, brokerVars, dbVars, WorkerState
<1>8. ASSUME NEW w \in Worker, Answer(w) PROVE TypeOK'
  BY <1>8 DEF TypeOK, Answer, dbVars, MessageState, WorkerState
<1>9. ASSUME NEW w \in Worker, Restart(w) PROVE TypeOK'
  BY <1>9 DEF TypeOK, Restart, brokerVars, dbVars
<1>10. ASSUME NEW w \in Worker, LoseConnection(w) PROVE TypeOK'
  <2>1. faults' \in 0 .. MaxFaults
    BY <1>10 DEF TypeOK, LoseConnection
  <2>2. connected' \in [Worker -> BOOLEAN] /\ message' \in [Sale -> MessageState]
    BY <1>10, RequeuedType, Zenon DEF TypeOK, LoseConnection
  <2> QED
    BY <1>10, <2>1, <2>2 DEF TypeOK, LoseConnection, dbVars
<1>11. ASSUME NEW w \in Worker, Crash(w) PROVE TypeOK'
  <2>1. faults' \in 0 .. MaxFaults
    BY <1>11 DEF TypeOK, Crash
  <2>2. connected' \in [Worker -> BOOLEAN] /\ message' \in [Sale -> MessageState]
    BY <1>11, RequeuedType, Zenon DEF TypeOK, Crash
  <2>3. pc' \in [Worker -> WorkerState] /\ handling' \in [Worker -> Sale \cup {NoSale}]
    BY <1>11 DEF TypeOK, Crash, WorkerState
  <2> QED
    BY <1>11, <2>1, <2>2, <2>3 DEF TypeOK, Crash, dbVars
<1>12. CASE UNCHANGED vars
  BY <1>12 DEF TypeOK, vars, brokerVars, workerVars, dbVars
<1>13. ASSUME NEW w \in Worker, PersistSale(w) PROVE TypeOK'
  BY <1>13, PersistSaleType DEF HandlingOK, PersistSale
<1> QED
  BY <1>1, <1>2, <1>3, <1>4, <1>5, <1>6, <1>7, <1>8, <1>9, <1>10, <1>11, <1>12, <1>13
     DEF Next, ApiNext, WorkerStep, Fault

LEMMA NextHandlingOK == TypeInv /\ [Next]_vars => HandlingOK'
<1> SUFFICES ASSUME TypeOK, HandlingOK, [Next]_vars, NEW v \in Worker, pc'[v] # "idle"
             PROVE  handling'[v] \in Sale
  BY DEF TypeInv, HandlingOK
<1> USE DEF HandlingOK
<1>1. CASE UNCHANGED <<pc, handling>>
  BY <1>1
<1>2. ASSUME NEW w \in Worker, NEW s \in Sale, Deliver(w, s) PROVE handling'[v] \in Sale
  BY <1>2 DEF TypeOK, Deliver
<1>3. ASSUME NEW w \in Worker, \/ SaleAlreadyProcessed(w) \/ PersistSale(w) \/ HandlerFails(w)
      PROVE  handling'[v] \in Sale
  BY <1>3 DEF TypeOK, SaleAlreadyProcessed, PersistSale, HandlerFails
<1>4. ASSUME NEW w \in Worker, Answer(w) \/ Crash(w) PROVE handling'[v] \in Sale
  BY <1>4 DEF TypeOK, Answer, Crash
<1>5. ASSUME NEW w \in Worker, Restart(w) \/ LoseConnection(w) PROVE UNCHANGED <<pc, handling>>
  BY <1>5 DEF Restart, LoseConnection
<1>6. CASE ApiNext
  BY <1>1, <1>6 DEF ApiNext, CreateSale, CreatePaymentIntent, ProcessPayment,
     ProcessPaymentWebhook, workerVars
<1>7. CASE UNCHANGED vars
  BY <1>1, <1>7 DEF vars, workerVars
<1> QED
  BY <1>1, <1>2, <1>3, <1>4, <1>5, <1>6, <1>7 DEF Next, WorkerStep, Fault

\* Every variable keeps its type; a busy worker handles a sale.
THEOREM TypeInvariant == Spec => []TypeInv
<1>1. Init => TypeInv
  BY InitTypeOK DEF Init, TypeInv, HandlingOK
<1>2. TypeInv /\ [Next]_vars => TypeInv'
  BY NextTypeOK, NextHandlingOK DEF TypeInv
<1> QED
  BY <1>1, <1>2, PTL DEF Spec

\* Every variable keeps its type.
THEOREM TypeCorrect == Spec => []TypeOK
<1>1. TypeInv => TypeOK
  BY DEF TypeInv
<1> QED
  BY <1>1, TypeInvariant, PTL

-----------------------------------------------------------------------------
(* Counting the units that sales hold.                                      *)

Held == {"PENDING_PAYMENT", "COMPLETED"}

\* HeldUnits for given contents of the tables sales and sale_items.
Units(st, it, t) ==
  {u \in Sale \X (1 .. MaxQuantity) : st[u[1]] \in Held /\ u[2] <= it[u[1]][t]}

LEMMA HeldUnitsDef ==
  ASSUME NEW t \in Ticket
  PROVE  /\ Cardinality(HeldUnits(t)) = Cardinality(Units(sale, items, t))
         /\ Cardinality(HeldUnits(t))' = Cardinality(Units(sale', items', t))
  BY DEF HeldUnits, Units, Held

\* The units 1 .. n are n.
LEMMA Interval ==
  ASSUME NEW n \in Nat
  PROVE  IsFiniteSet(1 .. n) /\ Cardinality(1 .. n) = n
<1>1. 1 \in Int /\ n \in Int
  OBVIOUS
<1>2. /\ IsFiniteSet(1 .. n)
      /\ Cardinality(1 .. n) = IF 1 > n THEN 0 ELSE n - 1 + 1
  <2> HIDE SalesAssumption
  <2> QED
    BY <1>1, FS_Interval, Zenon
<1> QED
  BY <1>2

LEMMA UnitsFinite ==
  ASSUME NEW st, NEW it, NEW t
  PROVE  /\ IsFiniteSet(Units(st, it, t))
         /\ Cardinality(Units(st, it, t)) \in Nat
<1>1. IsFiniteSet(1 .. MaxQuantity)
  BY Interval
<1>2. IsFiniteSet(Sale \X (1 .. MaxQuantity))
  BY <1>1, FS_Product, Zenon
<1>3. Units(st, it, t) \in SUBSET (Sale \X (1 .. MaxQuantity))
  BY DEF Units
<1>4. IsFiniteSet(Units(st, it, t))
  BY <1>2, <1>3, FS_Subset, Zenon
<1> QED
  BY <1>4, FS_CardinalityType, Zenon

\* The first n units of a sale.
LEMMA UnitsOfSale ==
  ASSUME NEW s \in Sale, NEW n \in Nat
  PROVE  /\ IsFiniteSet({s} \X (1 .. n))
         /\ Cardinality({s} \X (1 .. n)) = n
<1>1. IsFiniteSet({s}) /\ Cardinality({s}) = 1
  BY FS_Singleton, Zenon
<1>2. IsFiniteSet(1 .. n) /\ Cardinality(1 .. n) = n
  BY Interval
<1>3. /\ IsFiniteSet({s} \X (1 .. n))
      /\ Cardinality({s} \X (1 .. n)) = Cardinality({s}) * Cardinality(1 .. n)
  BY <1>1, <1>2, FS_Product, Zenon
<1> QED
  BY <1>1, <1>2, <1>3

\* A reservation of at most n units of t adds at most n of them.
LEMMA ReserveBound ==
  ASSUME NEW st, NEW it, NEW st2, NEW it2, NEW t \in Ticket, NEW s \in Sale, NEW n \in Nat,
         \A x \in Sale \ {s} : st2[x] = st[x] /\ it2[x] = it[x],
         it2[s][t] \in 0 .. n
  PROVE  Cardinality(Units(st2, it2, t)) <= Cardinality(Units(st, it, t)) + n
<1> DEFINE A == Units(st, it, t)
           B == Units(st2, it2, t)
           C == {s} \X (1 .. n)
<1>1. B \subseteq A \cup C
  <2> SUFFICES ASSUME NEW u \in B PROVE u \in A \cup C
    OBVIOUS
  <2>1. u \in Sale \X (1 .. MaxQuantity) /\ st2[u[1]] \in Held /\ u[2] <= it2[u[1]][t]
    BY DEF Units
  <2>2. CASE u[1] = s
    BY <2>1, <2>2
  <2>3. CASE u[1] # s
    BY <2>1, <2>3 DEF Units
  <2> QED
    BY <2>2, <2>3
<1>2. IsFiniteSet(A) /\ IsFiniteSet(B) /\ Cardinality(A) \in Nat /\ Cardinality(B) \in Nat
  BY UnitsFinite
<1>3. IsFiniteSet(C) /\ Cardinality(C) = n
  BY UnitsOfSale
<1> HIDE DEF A, B, C
<1>4. IsFiniteSet(A \cup C) /\ Cardinality(A \cup C) = Cardinality(A) + n - Cardinality(A \cap C)
  BY <1>2, <1>3, FS_Union
<1>5. Cardinality(A \cap C) \in Nat
  BY <1>2, FS_Intersection, FS_CardinalityType
<1>6. Cardinality(B) <= Cardinality(A \cup C)
  BY <1>1, <1>4, FS_Subset
<1>7. Cardinality(B) <= Cardinality(A) + n
  BY <1>2, <1>4, <1>5, <1>6
<1> QED
  BY <1>7 DEF A, B

LEMMA DisjointUnion ==
  ASSUME NEW A, NEW B, IsFiniteSet(A), IsFiniteSet(B), A \cap B = {}
  PROVE  Cardinality(A \cup B) = Cardinality(A) + Cardinality(B)
<1>1. Cardinality(A \cup B) = Cardinality(A) + Cardinality(B) - Cardinality(A \cap B)
  BY FS_Union, Zenon
<1>2. Cardinality(A \cap B) = 0
  BY FS_EmptySet, Zenon
<1>3. Cardinality(A) \in Nat /\ Cardinality(B) \in Nat
  BY FS_CardinalityType, Zenon
<1> QED
  BY <1>1, <1>2, <1>3

\* The first reservation of a sale that holds nothing adds exactly its units.
LEMMA ReserveExact ==
  ASSUME NEW st, NEW it, NEW st2, NEW it2, NEW t \in Ticket, NEW s \in Sale,
         NEW n \in 0 .. MaxQuantity,
         \A x \in Sale \ {s} : st2[x] = st[x] /\ it2[x] = it[x],
         st[s] \notin Held, st2[s] \in Held, it2[s][t] = n
  PROVE  Cardinality(Units(st2, it2, t)) = Cardinality(Units(st, it, t)) + n
<1> DEFINE A == Units(st, it, t)
           B == Units(st2, it2, t)
           C == {s} \X (1 .. n)
<1>1. B = A \cup C
  <2>1. ASSUME NEW u \in B PROVE u \in A \cup C
    <3>1. u \in Sale \X (1 .. MaxQuantity) /\ st2[u[1]] \in Held /\ u[2] <= it2[u[1]][t]
      BY <2>1 DEF Units
    <3>2. CASE u[1] = s
      BY <3>1, <3>2
    <3>3. CASE u[1] # s
      BY <3>1, <3>3 DEF Units
    <3> QED
      BY <3>2, <3>3
  <2>2. ASSUME NEW u \in A PROVE u \in B
    BY <2>2 DEF Units
  <2>3. ASSUME NEW u \in C PROVE u \in B
    BY <2>3 DEF Units
  <2> QED
    BY <2>1, <2>2, <2>3
<1>2. A \cap C = {}
  BY DEF Units
<1>3. IsFiniteSet(A) /\ Cardinality(A) \in Nat
  BY UnitsFinite
<1>4. IsFiniteSet(C) /\ Cardinality(C) = n
  BY UnitsOfSale
<1> HIDE DEF A, B, C
<1>5. Cardinality(B) = Cardinality(A) + n
  BY <1>1, <1>2, <1>3, <1>4, DisjointUnion
<1> QED
  BY <1>5 DEF A, B

\* A sale that fails gives up exactly the units that it held.
LEMMA ReleaseExact ==
  ASSUME NEW st, NEW it, NEW st2, NEW t \in Ticket, NEW s \in Sale,
         \A x \in Sale \ {s} : st2[x] = st[x],
         st[s] \in Held, st2[s] \notin Held, it[s][t] \in 0 .. MaxQuantity
  PROVE  Cardinality(Units(st, it, t)) = Cardinality(Units(st2, it, t)) + it[s][t]
<1>1. Units(st, it, t) = Units(st2, it, t) \cup ({s} \X (1 .. it[s][t]))
  <2>1. ASSUME NEW u \in Units(st, it, t)
        PROVE  u \in Units(st2, it, t) \cup ({s} \X (1 .. it[s][t]))
    <3>1. u \in Sale \X (1 .. MaxQuantity) /\ st[u[1]] \in Held /\ u[2] <= it[u[1]][t]
      BY <2>1 DEF Units
    <3>2. CASE u[1] = s
      BY <3>1, <3>2
    <3>3. CASE u[1] # s
      BY <3>1, <3>3 DEF Units
    <3> QED
      BY <3>2, <3>3
  <2>2. ASSUME NEW u \in Units(st2, it, t) PROVE u \in Units(st, it, t)
    BY <2>2 DEF Units
  <2>3. ASSUME NEW u \in {s} \X (1 .. it[s][t]) PROVE u \in Units(st, it, t)
    BY <2>3 DEF Units
  <2> QED
    BY <2>1, <2>2, <2>3
<1>2. Units(st2, it, t) \cap ({s} \X (1 .. it[s][t])) = {}
  BY DEF Units
<1>3. IsFiniteSet(Units(st2, it, t)) /\ Cardinality(Units(st2, it, t)) \in Nat
  BY UnitsFinite
<1>4. /\ IsFiniteSet({s} \X (1 .. it[s][t]))
      /\ Cardinality({s} \X (1 .. it[s][t])) = it[s][t]
  BY UnitsOfSale
<1> QED
  BY <1>1, <1>2, <1>3, <1>4, DisjointUnion

\* Steps that leave the held sales and their items alone hold the same units.
LEMMA SameUnits ==
  ASSUME NEW st, NEW it, NEW st2, NEW it2, NEW t \in Ticket,
         \A x \in Sale : (st2[x] \in Held <=> st[x] \in Held) /\ it2[x] = it[x]
  PROVE  Units(st2, it2, t) = Units(st, it, t)
  BY DEF Units

-----------------------------------------------------------------------------
(* No interleaving oversells, for any number of workers and any requests.   *)

\* A message exists before its delivery and its sale.
PublishedFirst ==
  /\ \A s \in Sale : message[s] = "none" => sale[s] = "NONE"
  /\ \A w \in Worker : pc[w] # "idle" => message[handling[w]] # "none"

\* sale_items holds what the request says, or nothing.
ItemsFromRequest ==
  \A s \in Sale, t \in Ticket :
    /\ items[s][t] \in {0, request[s].kept[t]}
    /\ sale[s] = "NONE" => items[s][t] = 0

StockInv == PublishedFirst /\ ItemsFromRequest

LEMMA NextPublishedFirst == TypeInv /\ PublishedFirst /\ [Next]_vars => PublishedFirst'
<1> SUFFICES ASSUME TypeOK, HandlingOK, PublishedFirst, [Next]_vars PROVE PublishedFirst'
  BY DEF TypeInv
<1> USE DEF HandlingOK, PublishedFirst
<1>1. ASSUME NEW s \in Sale, NEW r \in Requests, CreateSale(s, r) PROVE PublishedFirst'
  BY <1>1 DEF TypeOK, CreateSale, workerVars, dbVars
<1>2. ASSUME NEW s \in Sale, NEW p \in Provider, CreatePaymentIntent(s, p) PROVE PublishedFirst'
  BY <1>2 DEF CreatePaymentIntent, brokerVars, workerVars
<1>3. ASSUME NEW s \in Sale, NEW p \in Provider, NEW status \in {"APPROVED", "FAILED"},
             ProcessPayment(s, p, status) \/ ProcessPaymentWebhook(s, p, status)
      PROVE  PublishedFirst'
  BY <1>3 DEF TypeOK, ProcessPayment, ProcessPaymentWebhook, ProcessPaymentTx,
     brokerVars, workerVars
<1>4. ASSUME NEW w \in Worker, NEW s \in Sale, Deliver(w, s) PROVE PublishedFirst'
  BY <1>4 DEF TypeOK, Deliver, dbVars
<1>5. ASSUME NEW w \in Worker, SaleAlreadyProcessed(w) \/ HandlerFails(w) PROVE PublishedFirst'
  BY <1>5 DEF TypeOK, SaleAlreadyProcessed, HandlerFails, brokerVars, dbVars
<1>6. ASSUME NEW w \in Worker, PersistSale(w) PROVE PublishedFirst'
  BY <1>6 DEF TypeOK, PersistSale, brokerVars
<1>7. ASSUME NEW w \in Worker, Answer(w) PROVE PublishedFirst'
  BY <1>7 DEF TypeOK, Answer, dbVars
<1>8. ASSUME NEW w \in Worker, Restart(w) PROVE PublishedFirst'
  BY <1>8 DEF Restart, brokerVars, dbVars
<1>9. ASSUME NEW w \in Worker, LoseConnection(w) PROVE PublishedFirst'
  BY <1>9 DEF TypeOK, LoseConnection, Requeued, dbVars
<1>10. ASSUME NEW w \in Worker, Crash(w) PROVE PublishedFirst'
  BY <1>10 DEF TypeOK, Crash, Requeued, dbVars
<1>11. CASE UNCHANGED vars
  BY <1>11 DEF vars, brokerVars, workerVars, dbVars
<1> QED
  BY <1>1, <1>2, <1>3, <1>4, <1>5, <1>6, <1>7, <1>8, <1>9, <1>10, <1>11
     DEF Next, ApiNext, WorkerStep, Fault

\* Only persistSale writes sale_items: it stores the first line of each ticket.
LEMMA PersistSaleItems ==
  ASSUME TypeInv, ItemsFromRequest, NEW w \in Worker, PersistSale(w)
  PROVE  LET s == handling[w] IN
           /\ s \in Sale
           /\ sale' = [sale EXCEPT ![s] = "PENDING_PAYMENT"]
           /\ items' = [items EXCEPT ![s] = request[s].kept]
           /\ \A t \in Ticket : available'[t] <= available[t] - request[s].kept[t]
<1> DEFINE s == handling[w]
<1>1. s \in Sale /\ request[s] \in Request
  BY DEF TypeInv, TypeOK, HandlingOK, PersistSale
<1>2. StoredItems(s) = request[s].kept
  <2>1. \A t \in Ticket : items[s][t] \in {0, request[s].kept[t]} /\ request[s].kept[t] \in Nat
    BY <1>1 DEF ItemsFromRequest
  <2>2. \A t \in Ticket : StoredItems(s)[t] = request[s].kept[t]
    BY <2>1 DEF StoredItems
  <2> QED
    BY <1>1, <2>2 DEF StoredItems
<1>3. \A t \in Ticket : available'[t] <= available[t] - request[s].kept[t]
  BY <1>1 DEF PersistSale, Taken, TypeInv, TypeOK
<1> QED
  BY <1>1, <1>2, <1>3 DEF PersistSale

LEMMA NextItemsFromRequest ==
  TypeInv /\ StockInv /\ [Next]_vars => ItemsFromRequest'
<1> SUFFICES ASSUME TypeInv, PublishedFirst, ItemsFromRequest, [Next]_vars
             PROVE  ItemsFromRequest'
  BY DEF StockInv
<1> USE DEF ItemsFromRequest
<1>1. ASSUME NEW s \in Sale, NEW r \in Requests, CreateSale(s, r) PROVE ItemsFromRequest'
  <2>1. \A t \in Ticket : items[s][t] = 0
    BY <1>1 DEF CreateSale, PublishedFirst
  <2>2. /\ request' = [request EXCEPT ![s] = r]
        /\ items' = items /\ sale' = sale
    BY <1>1 DEF CreateSale, dbVars
  <2> QED
    BY <2>1, <2>2 DEF TypeInv, TypeOK
<1>2. ASSUME NEW w \in Worker, PersistSale(w) PROVE ItemsFromRequest'
  <2> DEFINE s == handling[w]
  <2>1. /\ s \in Sale
        /\ sale' = [sale EXCEPT ![s] = "PENDING_PAYMENT"]
        /\ items' = [items EXCEPT ![s] = request[s].kept]
    BY <1>2, PersistSaleItems
  <2>2. request' = request
    BY <1>2 DEF PersistSale, brokerVars
  <2> HIDE DEF s
  <2> QED
    BY <2>1, <2>2 DEF TypeInv, TypeOK
<1>3. ASSUME NEW s \in Sale, NEW p \in Provider, NEW status \in {"APPROVED", "FAILED"},
             ProcessPayment(s, p, status) \/ ProcessPaymentWebhook(s, p, status)
      PROVE  ItemsFromRequest'
  BY <1>3 DEF TypeInv, TypeOK, ProcessPayment, ProcessPaymentWebhook, ProcessPaymentTx, brokerVars
<1>4. CASE UNCHANGED <<request, sale, items>>
  BY <1>4
<1>5. ASSUME NEW s \in Sale, NEW p \in Provider, CreatePaymentIntent(s, p)
      PROVE  UNCHANGED <<request, sale, items>>
  BY <1>5 DEF CreatePaymentIntent, brokerVars
<1>6. ASSUME NEW w \in Worker,
             \/ \E s \in Sale : Deliver(w, s)
             \/ SaleAlreadyProcessed(w) \/ HandlerFails(w) \/ Answer(w) \/ Restart(w) \/ Fault(w)
      PROVE  UNCHANGED <<request, sale, items>>
  BY <1>6 DEF Deliver, SaleAlreadyProcessed, HandlerFails, Answer, Restart, Fault,
     LoseConnection, Crash, brokerVars, dbVars
<1> QED
  BY <1>1, <1>2, <1>3, <1>4, <1>5, <1>6
     DEF Next, ApiNext, WorkerStep, vars, brokerVars, dbVars

\* What a payment does to the units of ticket t.
LEMMA PaymentUnits ==
  ASSUME TypeInv, NEW s \in Sale, NEW p \in Provider, NEW status \in {"APPROVED", "FAILED"},
         ProcessPaymentTx(s, p, status), NEW t \in Ticket
  PROVE  available'[t] + Cardinality(HeldUnits(t))' = available[t] + Cardinality(HeldUnits(t))
<1>1. /\ sale \in [Sale -> SaleStatus]
      /\ items[s][t] \in 0 .. MaxQuantity
      /\ items' = items
      /\ available[t] \in Nat
  BY DEF TypeInv, TypeOK, ProcessPaymentTx
<1>2. CASE status = "FAILED"
  <2>1. /\ available'[t] = available[t] + items[s][t]
        /\ sale' = [sale EXCEPT ![s] = "FAILED"]
        /\ sale[s] = "PENDING_PAYMENT"
    BY <1>2 DEF ProcessPaymentTx, Released
  <2>2. Cardinality(Units(sale, items, t)) = Cardinality(Units(sale', items, t)) + items[s][t]
    <3>1. /\ \A x \in Sale \ {s} : sale'[x] = sale[x]
          /\ sale[s] \in Held /\ sale'[s] \notin Held
          /\ items[s][t] \in 0 .. MaxQuantity
      BY <1>1, <2>1 DEF Held
    <3> QED
      BY <3>1, ReleaseExact
  <2>3. Cardinality(Units(sale', items, t)) \in Nat /\ Cardinality(Units(sale, items, t)) \in Nat
    BY UnitsFinite
  <2> QED
    <3>1. /\ Cardinality(HeldUnits(t)) = Cardinality(Units(sale, items, t))
          /\ Cardinality(HeldUnits(t))' = Cardinality(Units(sale', items, t))
      BY <1>1, HeldUnitsDef
    <3> QED
      BY <1>1, <2>1, <2>2, <2>3, <3>1
<1>3. CASE status = "APPROVED"
  <2>1. /\ available' = available
        /\ sale' = [sale EXCEPT ![s] = "COMPLETED"]
        /\ sale[s] = "PENDING_PAYMENT"
    BY <1>3 DEF ProcessPaymentTx
  <2>2. Units(sale', items', t) = Units(sale, items, t)
    <3>1. \A x \in Sale : (sale'[x] \in Held <=> sale[x] \in Held) /\ items'[x] = items[x]
      BY <1>1, <2>1 DEF Held
    <3> QED
      BY <3>1, SameUnits
  <2> QED
    BY <2>1, <2>2, HeldUnitsDef
<1> QED
  BY <1>2, <1>3

LEMMA NextNeverOversold ==
  TypeInv /\ StockInv /\ NeverOversold /\ [Next]_vars => NeverOversold'
<1> SUFFICES ASSUME TypeInv, StockInv, NeverOversold, [Next]_vars, NEW t \in Ticket
             PROVE  available'[t] + Cardinality(HeldUnits(t))' <= Stock[t]
  BY DEF NeverOversold
<1>1. /\ available[t] + Cardinality(HeldUnits(t)) <= Stock[t]
      /\ available[t] \in Nat /\ Stock[t] \in Nat
  BY DEF NeverOversold, TypeInv, TypeOK
<1>2. CASE UNCHANGED <<available, sale, items>>
  BY <1>1, <1>2, HeldUnitsDef
<1>3. ASSUME NEW w \in Worker, PersistSale(w)
      PROVE  available'[t] + Cardinality(HeldUnits(t))' <= Stock[t]
  <2> DEFINE s == handling[w]
             n == request[s].kept[t]
  <2>1. /\ s \in Sale
        /\ sale' = [sale EXCEPT ![s] = "PENDING_PAYMENT"]
        /\ items' = [items EXCEPT ![s] = request[s].kept]
        /\ available'[t] <= available[t] - n
    BY <1>3, PersistSaleItems DEF StockInv
  <2>2. n \in Nat /\ available'[t] \in Nat
    BY <1>3, <2>1, PersistSaleType DEF TypeInv, TypeOK
  <2> HIDE DEF s
  <2>3. /\ \A x \in Sale \ {s} : sale'[x] = sale[x] /\ items'[x] = items[x]
        /\ items'[s][t] \in 0 .. n
    BY <2>1, <2>2 DEF TypeInv, TypeOK
  <2> HIDE DEF n
  <2>4. Cardinality(Units(sale', items', t)) <= Cardinality(Units(sale, items, t)) + n
    BY <2>1, <2>2, <2>3, ReserveBound, Zenon
  <2>5. Cardinality(Units(sale', items', t)) \in Nat /\ Cardinality(Units(sale, items, t)) \in Nat
    BY UnitsFinite
  <2>6. /\ Cardinality(HeldUnits(t)) = Cardinality(Units(sale, items, t))
        /\ Cardinality(HeldUnits(t))' = Cardinality(Units(sale', items', t))
    BY HeldUnitsDef
  <2>7. available'[t] + Cardinality(Units(sale', items', t)) <= Stock[t]
    BY <1>1, <2>1, <2>2, <2>4, <2>5, <2>6
  <2> QED
    BY <2>6, <2>7
<1>4. ASSUME NEW s \in Sale, NEW p \in Provider, NEW status \in {"APPROVED", "FAILED"},
             ProcessPayment(s, p, status) \/ ProcessPaymentWebhook(s, p, status)
      PROVE  available'[t] + Cardinality(HeldUnits(t))' <= Stock[t]
  BY <1>1, <1>4, PaymentUnits DEF ProcessPayment, ProcessPaymentWebhook
<1>5. ASSUME NEW s \in Sale,
             \/ \E r \in Requests : CreateSale(s, r)
             \/ \E p \in Provider : CreatePaymentIntent(s, p)
      PROVE  UNCHANGED <<available, sale, items>>
  BY <1>5 DEF CreateSale, CreatePaymentIntent, dbVars
<1>6. ASSUME NEW w \in Worker,
             \/ \E s \in Sale : Deliver(w, s)
             \/ SaleAlreadyProcessed(w) \/ HandlerFails(w) \/ Answer(w) \/ Restart(w) \/ Fault(w)
      PROVE  UNCHANGED <<available, sale, items>>
  BY <1>6 DEF Deliver, SaleAlreadyProcessed, HandlerFails, Answer, Restart, Fault,
     LoseConnection, Crash, dbVars
<1> QED
  BY <1>2, <1>3, <1>4, <1>5, <1>6 DEF Next, ApiNext, WorkerStep, vars, dbVars

\* What is for sale and what sales hold never exceeds the stock, with any number
\* of workers racing on redelivered messages and requests that name a ticket
\* twice.  (Guarded UPDATE of persistSale, releaseReservedTickets.)
THEOREM Oversell == Spec => []NeverOversold
<1>1. Init => StockInv /\ NeverOversold
  <2>1. Init => StockInv
    BY DEF Init, StockInv, PublishedFirst, ItemsFromRequest
  <2>2. ASSUME Init, NEW t \in Ticket PROVE available[t] + Cardinality(HeldUnits(t)) <= Stock[t]
    <3>1. HeldUnits(t) = {}
      BY <2>2 DEF Init, HeldUnits
    <3> QED
      BY <2>2, <3>1, FS_EmptySet DEF Init
  <2> QED
    BY <2>1, <2>2 DEF NeverOversold
<1>2. TypeInv /\ StockInv /\ NeverOversold /\ [Next]_vars => (StockInv /\ NeverOversold)'
  BY NextPublishedFirst, NextItemsFromRequest, NextNeverOversold DEF StockInv
<1> QED
  BY <1>1, <1>2, TypeInvariant, PTL DEF Spec

-----------------------------------------------------------------------------
(* No accepted sale is lost, for any number of workers.                     *)

\* The handler returns nil only when the sale has its row.
AckJustified == \A w \in Worker : pc[w] = "ack" => sale[handling[w]] # "NONE"

LEMMA SaleStays ==
  ASSUME TypeInv, [Next]_vars, NEW s \in Sale, sale[s] # "NONE"
  PROVE  sale'[s] # "NONE"
<1>1. ASSUME NEW w \in Worker, PersistSale(w) PROVE sale'[s] # "NONE"
  BY <1>1 DEF PersistSale, TypeInv, TypeOK
<1>2. ASSUME NEW x \in Sale, NEW p \in Provider, NEW status \in {"APPROVED", "FAILED"},
             ProcessPayment(x, p, status) \/ ProcessPaymentWebhook(x, p, status)
      PROVE  sale'[s] # "NONE"
  BY <1>2 DEF ProcessPayment, ProcessPaymentWebhook, ProcessPaymentTx, TypeInv, TypeOK
<1>3. ASSUME NEW x \in Sale,
             \/ \E r \in Requests : CreateSale(x, r)
             \/ \E p \in Provider : CreatePaymentIntent(x, p)
      PROVE  sale' = sale
  BY <1>3 DEF CreateSale, CreatePaymentIntent, dbVars
<1>4. ASSUME NEW w \in Worker,
             \/ \E x \in Sale : Deliver(w, x)
             \/ SaleAlreadyProcessed(w) \/ HandlerFails(w) \/ Answer(w) \/ Restart(w) \/ Fault(w)
      PROVE  sale' = sale
  BY <1>4 DEF Deliver, SaleAlreadyProcessed, HandlerFails, Answer, Restart, Fault,
     LoseConnection, Crash, dbVars
<1> QED
  BY <1>1, <1>2, <1>3, <1>4 DEF Next, ApiNext, WorkerStep, vars, dbVars

LEMMA NextAcked ==
  TypeInv /\ AckJustified /\ AckedIsPersisted /\ [Next]_vars => (AckJustified /\ AckedIsPersisted)'
<1> SUFFICES ASSUME TypeInv, AckJustified, AckedIsPersisted, [Next]_vars
             PROVE  AckJustified' /\ AckedIsPersisted'
  OBVIOUS
<1> USE DEF AckJustified, AckedIsPersisted
<1>1. \A s \in Sale : sale[s] # "NONE" => sale'[s] # "NONE"
  BY SaleStays
<1>2. TypeOK /\ HandlingOK
  BY DEF TypeInv
<1>3. CASE UNCHANGED <<pc, handling, message>>
  BY <1>1, <1>2, <1>3 DEF HandlingOK
<1>4. ASSUME NEW s \in Sale, NEW r \in Requests, CreateSale(s, r)
      PROVE  AckJustified' /\ AckedIsPersisted'
  BY <1>1, <1>2, <1>4 DEF CreateSale, workerVars, TypeOK, HandlingOK
<1>5. ASSUME NEW w \in Worker, NEW s \in Sale, Deliver(w, s)
      PROVE  AckJustified' /\ AckedIsPersisted'
  BY <1>1, <1>2, <1>5 DEF Deliver, TypeOK, HandlingOK
<1>6. ASSUME NEW w \in Worker, SaleAlreadyProcessed(w) \/ HandlerFails(w)
      PROVE  AckJustified' /\ AckedIsPersisted'
  BY <1>1, <1>2, <1>6 DEF SaleAlreadyProcessed, HandlerFails, brokerVars, dbVars, TypeOK, HandlingOK
<1>7. ASSUME NEW w \in Worker, PersistSale(w) PROVE AckJustified' /\ AckedIsPersisted'
  <2>1. /\ handling' = handling /\ message' = message
        /\ sale' = [sale EXCEPT ![handling[w]] = "PENDING_PAYMENT"]
        /\ \E result \in {"ack", "nack"} : pc' = [pc EXCEPT ![w] = result]
        /\ handling[w] \in Sale
    BY <1>2, <1>7 DEF PersistSale, brokerVars, HandlingOK
  <2> QED
    BY <1>1, <1>2, <2>1 DEF TypeOK, HandlingOK
<1>8. ASSUME NEW w \in Worker, Answer(w) PROVE AckJustified' /\ AckedIsPersisted'
  BY <1>1, <1>2, <1>8 DEF Answer, TypeOK, HandlingOK, dbVars
<1>9. ASSUME NEW w \in Worker, Restart(w) PROVE UNCHANGED <<pc, handling, message>>
  BY <1>9 DEF Restart, brokerVars
<1>10. ASSUME NEW w \in Worker, LoseConnection(w) PROVE AckJustified' /\ AckedIsPersisted'
  BY <1>1, <1>2, <1>10 DEF LoseConnection, Requeued, TypeOK, HandlingOK, dbVars
<1>11. ASSUME NEW w \in Worker, Crash(w) PROVE AckJustified' /\ AckedIsPersisted'
  BY <1>1, <1>2, <1>11 DEF Crash, Requeued, TypeOK, HandlingOK, dbVars
<1>12. ASSUME NEW s \in Sale, NEW p \in Provider,
              \/ CreatePaymentIntent(s, p)
              \/ \E status \in {"APPROVED", "FAILED"} :
                   ProcessPayment(s, p, status) \/ ProcessPaymentWebhook(s, p, status)
       PROVE  UNCHANGED <<pc, handling, message>>
  BY <1>12 DEF CreatePaymentIntent, ProcessPayment, ProcessPaymentWebhook, brokerVars, workerVars
<1> QED
  BY <1>3, <1>4, <1>5, <1>6, <1>7, <1>8, <1>9, <1>10, <1>11, <1>12
     DEF Next, ApiNext, WorkerStep, Fault, vars, brokerVars, workerVars

\* An acknowledged message has its sale in the database, wherever a worker
\* crashes or loses its connection.  (Handle, the loop of cmd/worker/main.go.)
THEOREM Acked == Spec => []AckedIsPersisted
<1>1. Init => AckJustified /\ AckedIsPersisted
  BY DEF Init, AckJustified, AckedIsPersisted
<1> QED
  BY <1>1, NextAcked, TypeInvariant, PTL DEF Spec

-----------------------------------------------------------------------------
(* One worker process.                                                      *)

OneWorker == \A v, w \in Worker : v = w

\* What saleAlreadyProcessed saw still holds when persistSale begins: this is
\* what a second worker breaks.
AbsentStillTrue == \A w \in Worker : pc[w] = "absent" => sale[handling[w]] = "NONE"

LEMMA NextAbsentStillTrue ==
  ASSUME OneWorker, TypeInv, AbsentStillTrue, [Next]_vars
  PROVE  AbsentStillTrue'
<1> USE DEF AbsentStillTrue
<1>1. TypeOK /\ HandlingOK
  BY DEF TypeInv
<1>2. CASE UNCHANGED <<pc, handling, sale>>
  BY <1>2
<1>3. ASSUME NEW w \in Worker, NEW s \in Sale, Deliver(w, s) PROVE AbsentStillTrue'
  BY <1>1, <1>3 DEF OneWorker, Deliver, dbVars, TypeOK
<1>4. ASSUME NEW w \in Worker, SaleAlreadyProcessed(w) \/ HandlerFails(w) PROVE AbsentStillTrue'
  BY <1>1, <1>4 DEF SaleAlreadyProcessed, HandlerFails, dbVars, TypeOK
<1>5. ASSUME NEW w \in Worker, PersistSale(w) PROVE AbsentStillTrue'
  BY <1>1, <1>5 DEF OneWorker, PersistSale, TypeOK
<1>6. ASSUME NEW w \in Worker, Answer(w) \/ Crash(w) PROVE AbsentStillTrue'
  BY <1>1, <1>6 DEF OneWorker, Answer, Crash, dbVars, TypeOK
<1>7. ASSUME NEW s \in Sale, NEW p \in Provider, NEW status \in {"APPROVED", "FAILED"},
             ProcessPayment(s, p, status) \/ ProcessPaymentWebhook(s, p, status)
      PROVE  AbsentStillTrue'
  BY <1>1, <1>7 DEF ProcessPayment, ProcessPaymentWebhook, ProcessPaymentTx, workerVars,
     TypeOK, HandlingOK
<1>8. ASSUME NEW w \in Worker, Restart(w) \/ LoseConnection(w)
      PROVE  UNCHANGED <<pc, handling, sale>>
  BY <1>8 DEF Restart, LoseConnection, dbVars
<1>9. ASSUME NEW s \in Sale,
             \/ \E r \in Requests : CreateSale(s, r)
             \/ \E p \in Provider : CreatePaymentIntent(s, p)
      PROVE  UNCHANGED <<pc, handling, sale>>
  BY <1>9 DEF CreateSale, CreatePaymentIntent, dbVars, workerVars
<1> QED
  BY <1>2, <1>3, <1>4, <1>5, <1>6, <1>7, <1>8, <1>9
     DEF Next, ApiNext, WorkerStep, Fault, vars, workerVars, dbVars

SingleInv == TypeInv /\ AbsentStillTrue

LEMMA SingleWorkerInv ==
  ASSUME OneWorker
  PROVE  Spec => []SingleInv
<1>1. Init => AbsentStillTrue
  BY DEF Init, AbsentStillTrue
<1>2. TypeInv /\ AbsentStillTrue /\ [Next]_vars => AbsentStillTrue'
  BY NextAbsentStillTrue
<1> QED
  BY <1>1, <1>2, TypeInvariant, PTL DEF Spec, SingleInv

-----------------------------------------------------------------------------
(* Sales with one worker implements the abstract life cycle.                *)

LEMMA PersistReserves ==
  ASSUME SingleInv, NEW w \in Worker, PersistSale(w)
  PROVE  Lifecycle!Reserved(handling[w])
  BY DEF SingleInv, AbsentStillTrue, PersistSale, Lifecycle!Reserved

LEMMA PaymentSettles ==
  ASSUME NEW s \in Sale, NEW p \in Provider, NEW status \in {"APPROVED", "FAILED"},
         ProcessPaymentTx(s, p, status)
  PROVE  \E settled \in {"COMPLETED", "FAILED"} : Lifecycle!Settled(s, settled)
<1>1. CASE status = "APPROVED"
  <2>1. Lifecycle!Settled(s, "COMPLETED")
    BY <1>1 DEF ProcessPaymentTx, Lifecycle!Settled, Lifecycle!EventOf
  <2> QED
    BY <2>1
<1>2. CASE status = "FAILED"
  <2>1. Lifecycle!Settled(s, "FAILED")
    BY <1>2 DEF ProcessPaymentTx, Lifecycle!Settled, Lifecycle!EventOf
  <2> QED
    BY <2>1
<1> QED
  BY <1>1, <1>2

LEMMA NextLifecycle == SingleInv /\ [Next]_vars => [Lifecycle!Next]_(Lifecycle!vars)
<1> SUFFICES ASSUME SingleInv, [Next]_vars PROVE [Lifecycle!Next]_(Lifecycle!vars)
  OBVIOUS
<1>1. ASSUME NEW w \in Worker, PersistSale(w) PROVE Lifecycle!Next
  <2>1. handling[w] \in Sale
    BY <1>1 DEF SingleInv, TypeInv, HandlingOK, PersistSale
  <2> QED
    BY <1>1, <2>1, PersistReserves DEF Lifecycle!Next
<1>2. ASSUME NEW s \in Sale, NEW p \in Provider, NEW status \in {"APPROVED", "FAILED"},
             ProcessPayment(s, p, status) \/ ProcessPaymentWebhook(s, p, status)
      PROVE  Lifecycle!Next
  BY <1>2, PaymentSettles DEF Lifecycle!Next, ProcessPayment, ProcessPaymentWebhook
<1>3. ASSUME NEW s \in Sale,
             \/ \E r \in Requests : CreateSale(s, r)
             \/ \E p \in Provider : CreatePaymentIntent(s, p)
      PROVE  UNCHANGED <<sale, outbox>>
  BY <1>3 DEF CreateSale, CreatePaymentIntent, dbVars
<1>4. ASSUME NEW w \in Worker,
             \/ \E s \in Sale : Deliver(w, s)
             \/ SaleAlreadyProcessed(w) \/ HandlerFails(w) \/ Answer(w) \/ Restart(w) \/ Fault(w)
      PROVE  UNCHANGED <<sale, outbox>>
  BY <1>4 DEF Deliver, SaleAlreadyProcessed, HandlerFails, Answer, Restart, Fault,
     LoseConnection, Crash, dbVars
<1> QED
  BY <1>1, <1>2, <1>3, <1>4 DEF Next, ApiNext, WorkerStep, vars, dbVars, Lifecycle!vars

\* With one worker a sale is reserved once, settled once, and leaves exactly one
\* event in the outbox when it is settled.  (saleAlreadyProcessed, persistSale,
\* processPaymentTx.)
THEOREM Implements ==
  ASSUME OneWorker
  PROVE  Spec => LifecycleSpec
<1>1. Init => Lifecycle!Init
  BY DEF Init, Lifecycle!Init
<1>2. Spec => []SingleInv
  BY SingleWorkerInv
<1> QED
  BY <1>1, <1>2, NextLifecycle, PTL DEF Spec, LifecycleSpec, Lifecycle!Spec

-----------------------------------------------------------------------------
(* Settlement.                                                              *)

\* The parts of SettlementConsistent that concern one sale, and that no sale is
\* paid before it is reserved.
Settlement(s) ==
  /\ sale[s] = "NONE" <=> payment[s].status = "NONE"
  /\ sale[s] = "PENDING_PAYMENT" <=> payment[s].status = "PENDING"
  /\ sale[s] = "COMPLETED" <=> payment[s].status = "APPROVED"
  /\ sale[s] = "FAILED" <=> payment[s].status = "FAILED"
  /\ intent[s].status = "SUCCEEDED" => sale[s] = "COMPLETED"
  /\ intent[s].status = "FAILED" => sale[s] = "FAILED"
  /\ sale[s] = "NONE" => intent[s].status = "NONE"

SameProvider(s) ==
  \/ intent[s].status \in {"SUCCEEDED", "FAILED"}
  \/ intent[s].status = "PENDING" /\ sale[s] = "PENDING_PAYMENT"
  => payment[s].provider = intent[s].provider

OneEvent(s) ==
  outbox[s] = CASE sale[s] = "COMPLETED" -> <<"SALE_COMPLETED">>
                [] sale[s] = "FAILED"    -> <<"SALE_FAILED">>
                [] OTHER                 -> <<>>

SettlementInv == \A s \in Sale : Settlement(s) /\ SameProvider(s) /\ OneEvent(s)

\* A sale whose rows do not change keeps its part of the invariant.
LEMMA SameRows ==
  ASSUME NEW s \in Sale, Settlement(s), SameProvider(s), OneEvent(s),
         sale'[s] = sale[s], payment'[s] = payment[s], intent'[s] = intent[s],
         outbox'[s] = outbox[s]
  PROVE  Settlement(s)' /\ SameProvider(s)' /\ OneEvent(s)'
<1>1. Settlement(s)'
  BY DEF Settlement
<1>2. SameProvider(s)'
  BY DEF SameProvider
<1>3. OneEvent(s)'
  BY DEF OneEvent
<1> QED
  BY <1>1, <1>2, <1>3

LEMMA PersistSettlement ==
  ASSUME SingleInv, SettlementInv, NEW w \in Worker, PersistSale(w)
  PROVE  SettlementInv'
<1> PICK s \in Sale : s = handling[w]
  BY DEF SingleInv, TypeInv, HandlingOK, PersistSale
<1>1. sale[s] = "NONE" /\ TypeOK
  BY DEF SingleInv, AbsentStillTrue, TypeInv, PersistSale
<1>2. Settlement(s) /\ OneEvent(s)
  BY <1>1 DEF SettlementInv
<1>3. /\ sale'[s] = "PENDING_PAYMENT" /\ intent' = intent /\ outbox' = outbox
      /\ payment'[s].status = "PENDING"
      /\ \A x \in Sale \ {s} : sale'[x] = sale[x] /\ payment'[x] = payment[x]
  <2> DEFINE row == [payment[s] EXCEPT !.status = "PENDING"]
  <2>1. row.status = "PENDING"
    BY <1>1, RowStatus DEF TypeOK, PaymentStatus
  <2>2. payment' = [payment EXCEPT ![s] = row]
    BY DEF PersistSale
  <2> HIDE DEF row
  <2> QED
    BY <1>1, <2>1, <2>2 DEF PersistSale, TypeOK
<1>4. intent[s].status = "NONE" /\ outbox[s] = <<>>
  BY <1>1, <1>2 DEF Settlement, OneEvent
<1>5. Settlement(s)' /\ SameProvider(s)' /\ OneEvent(s)'
  BY <1>3, <1>4 DEF Settlement, SameProvider, OneEvent
<1> QED
  BY <1>1, <1>3, <1>5, SameRows DEF SettlementInv

LEMMA IntentSettlement ==
  ASSUME SingleInv, SettlementInv, NEW s \in Sale, NEW p \in Provider, CreatePaymentIntent(s, p)
  PROVE  SettlementInv'
<1>1. TypeOK /\ Settlement(s) /\ OneEvent(s) /\ sale[s] = "PENDING_PAYMENT"
  BY DEF SingleInv, TypeInv, SettlementInv, CreatePaymentIntent
<1>2. /\ sale' = sale /\ outbox' = outbox
      /\ intent'[s] = [status |-> "PENDING", provider |-> p]
      /\ payment'[s].provider = p /\ payment'[s].status = payment[s].status
      /\ \A x \in Sale \ {s} : intent'[x] = intent[x] /\ payment'[x] = payment[x]
  BY <1>1 DEF CreatePaymentIntent, TypeOK
<1>3. Settlement(s)' /\ SameProvider(s)' /\ OneEvent(s)'
  BY <1>1, <1>2 DEF Settlement, SameProvider, OneEvent
<1> QED
  BY <1>2, <1>3, SameRows DEF SettlementInv

LEMMA PaymentSettlement ==
  ASSUME SingleInv, SettlementInv, NEW s \in Sale, NEW p \in Provider,
         NEW status \in {"APPROVED", "FAILED"},
         ProcessPayment(s, p, status) \/ ProcessPaymentWebhook(s, p, status)
  PROVE  SettlementInv'
<1>1. TypeOK /\ Settlement(s) /\ OneEvent(s) /\ SameProvider(s) /\ sale[s] = "PENDING_PAYMENT"
  BY DEF SingleInv, TypeInv, SettlementInv, ProcessPayment, ProcessPaymentWebhook,
     ProcessPaymentTx
<1>2. outbox[s] = <<>> /\ intent[s].status \in {"NONE", "PENDING"}
  BY <1>1 DEF Settlement, OneEvent, TypeOK, IntentStatus
<1>3. /\ payment'[s] = [status |-> status, provider |-> p]
      /\ sale'[s] = IF status = "FAILED" THEN "FAILED" ELSE "COMPLETED"
      /\ \A x \in Sale \ {s} : sale'[x] = sale[x] /\ payment'[x] = payment[x] /\ outbox'[x] = outbox[x]
  BY DEF SingleInv, TypeInv, TypeOK, ProcessPayment, ProcessPaymentWebhook, ProcessPaymentTx
<1>4. outbox'[s] = IF status = "FAILED" THEN <<"SALE_FAILED">> ELSE <<"SALE_COMPLETED">>
  BY <1>2 DEF SingleInv, TypeInv, TypeOK, ProcessPayment, ProcessPaymentWebhook, ProcessPaymentTx
<1>5. OneEvent(s)'
  BY <1>3, <1>4 DEF OneEvent
<1>6. CASE ProcessPayment(s, p, status)
  <2>1. intent' = intent
    BY <1>6 DEF ProcessPayment
  <2>2. Settlement(s)' /\ SameProvider(s)'
    BY <1>1, <1>2, <1>3, <2>1 DEF Settlement, SameProvider
  <2> QED
    BY <1>3, <1>5, <2>1, <2>2, SameRows DEF SettlementInv
<1>7. CASE ProcessPaymentWebhook(s, p, status)
  <2> DEFINE next == IF status = "APPROVED" THEN "SUCCEEDED" ELSE "FAILED"
             row == [intent[s] EXCEPT !.status = next]
  <2>1. row.status = next /\ row.provider = p
    <3>1. intent[s] \in [status : IntentStatus, provider : Provider \cup {"pending"}]
      BY <1>1 DEF TypeOK
    <3>2. next \in IntentStatus
      BY DEF IntentStatus
    <3> QED
      BY <1>7, <3>1, <3>2, RowStatus DEF ProcessPaymentWebhook
  <2>2. intent' = [intent EXCEPT ![s] = row]
    BY <1>7 DEF ProcessPaymentWebhook
  <2> HIDE DEF row
  <2>3. /\ intent'[s].status = next /\ intent'[s].provider = p
        /\ \A x \in Sale \ {s} : intent'[x] = intent[x]
    BY <1>1, <2>1, <2>2 DEF TypeOK
  <2>4. Settlement(s)' /\ SameProvider(s)'
    BY <1>1, <1>3, <2>3 DEF Settlement, SameProvider
  <2> QED
    BY <1>3, <1>5, <2>3, <2>4, SameRows DEF SettlementInv
<1> QED
  BY <1>6, <1>7

LEMMA NextSettlementInv == SingleInv /\ SettlementInv /\ [Next]_vars => SettlementInv'
<1> SUFFICES ASSUME SingleInv, SettlementInv, [Next]_vars PROVE SettlementInv'
  OBVIOUS
<1>1. CASE UNCHANGED dbVars
  BY <1>1, SameRows DEF SettlementInv, dbVars
<1>2. ASSUME NEW s \in Sale, NEW r \in Requests, CreateSale(s, r) PROVE UNCHANGED dbVars
  BY <1>2 DEF CreateSale
<1>3. ASSUME NEW w \in Worker,
             \/ \E s \in Sale : Deliver(w, s)
             \/ SaleAlreadyProcessed(w) \/ HandlerFails(w) \/ Answer(w) \/ Restart(w) \/ Fault(w)
      PROVE  UNCHANGED dbVars
  BY <1>3 DEF Deliver, SaleAlreadyProcessed, HandlerFails, Answer, Restart, Fault,
     LoseConnection, Crash
<1> QED
  BY <1>1, <1>2, <1>3, PersistSettlement, IntentSettlement, PaymentSettlement
     DEF Next, ApiNext, WorkerStep, vars

\* With one worker, sale, payment, payment intent and outbox agree after every
\* transaction.  (persistSale, processPaymentTx, CreatePaymentIntent.)
THEOREM SettlementAgrees ==
  ASSUME OneWorker
  PROVE  Spec => []SettlementConsistent
<1>1. Init => SettlementInv
  BY DEF Init, SettlementInv, Settlement, SameProvider, OneEvent
<1>2. SettlementInv => SettlementConsistent
  BY DEF SettlementInv, Settlement, SameProvider, OneEvent, SettlementConsistent
<1>3. Spec => []SingleInv
  BY SingleWorkerInv
<1> QED
  BY <1>1, <1>2, <1>3, NextSettlementInv, PTL DEF Spec

-----------------------------------------------------------------------------
(* With one worker and requests of one line a ticket, no unit gets lost.    *)

OneLine == \A r \in Requests, t \in Ticket : r.rest[t] = 0

NothingBeyond == \A s \in Sale, t \in Ticket : request[s].rest[t] = 0

LEMMA NextNothingBeyond ==
  ASSUME OneLine, TypeInv, NothingBeyond, [Next]_vars
  PROVE  NothingBeyond'
<1> USE DEF NothingBeyond
<1>1. ASSUME NEW s \in Sale, NEW r \in Requests, CreateSale(s, r) PROVE NothingBeyond'
  BY <1>1 DEF CreateSale, OneLine, TypeInv, TypeOK
<1>2. CASE request' = request
  BY <1>2
<1>3. ASSUME NEW s \in Sale, NEW p \in Provider,
             \/ CreatePaymentIntent(s, p)
             \/ \E status \in {"APPROVED", "FAILED"} :
                  ProcessPayment(s, p, status) \/ ProcessPaymentWebhook(s, p, status)
      PROVE  request' = request
  BY <1>3 DEF CreatePaymentIntent, ProcessPayment, ProcessPaymentWebhook, brokerVars
<1>4. ASSUME NEW w \in Worker, WorkerStep(w) \/ Fault(w) PROVE request' = request
  BY <1>4 DEF WorkerStep, Deliver, SaleAlreadyProcessed, PersistSale, HandlerFails, Answer,
     Restart, Fault, LoseConnection, Crash, brokerVars
<1> QED
  BY <1>1, <1>2, <1>3, <1>4 DEF Next, ApiNext, vars, brokerVars

LEMMA NextConserved ==
  SingleInv /\ StockInv /\ NothingBeyond /\ StockConserved /\ [Next]_vars => StockConserved'
<1> SUFFICES ASSUME SingleInv, StockInv, NothingBeyond, StockConserved, [Next]_vars,
                    NEW t \in Ticket
             PROVE  available'[t] + Cardinality(HeldUnits(t))' = Stock[t]
  BY DEF StockConserved
<1>1. /\ available[t] + Cardinality(HeldUnits(t)) = Stock[t]
      /\ available[t] \in Nat /\ Stock[t] \in Nat
      /\ TypeInv
  BY DEF StockConserved, SingleInv, TypeInv, TypeOK
<1>2. CASE UNCHANGED <<available, sale, items>>
  BY <1>1, <1>2, HeldUnitsDef
<1>3. ASSUME NEW w \in Worker, PersistSale(w)
      PROVE  available'[t] + Cardinality(HeldUnits(t))' = Stock[t]
  <2> PICK s \in Sale : s = handling[w]
    BY <1>1, <1>3 DEF TypeInv, HandlingOK, PersistSale
  <2> DEFINE n == request[s].kept[t]
  <2>1. /\ sale' = [sale EXCEPT ![s] = "PENDING_PAYMENT"]
        /\ items' = [items EXCEPT ![s] = request[s].kept]
        /\ sale[s] = "NONE"
    BY <1>1, <1>3, PersistSaleItems DEF StockInv, SingleInv, AbsentStillTrue, PersistSale
  <2>2. /\ n \in 0 .. MaxQuantity
        /\ available'[t] = available[t] - n
    BY <1>1, <1>3 DEF TypeInv, TypeOK, PersistSale, Taken, NothingBeyond
  <2>3. /\ \A x \in Sale \ {s} : sale'[x] = sale[x] /\ items'[x] = items[x]
        /\ items'[s][t] = n
        /\ sale[s] \notin Held /\ sale'[s] \in Held
    BY <1>1, <2>1 DEF TypeInv, TypeOK, Held
  <2> HIDE DEF n
  <2>4. Cardinality(Units(sale', items', t)) = Cardinality(Units(sale, items, t)) + n
    BY <2>2, <2>3, ReserveExact
  <2>5. Cardinality(Units(sale', items', t)) \in Nat /\ Cardinality(Units(sale, items, t)) \in Nat
    BY UnitsFinite
  <2>6. /\ Cardinality(HeldUnits(t)) = Cardinality(Units(sale, items, t))
        /\ Cardinality(HeldUnits(t))' = Cardinality(Units(sale', items', t))
    BY HeldUnitsDef
  <2>7. available'[t] + Cardinality(Units(sale', items', t)) = Stock[t]
    BY <1>1, <2>2, <2>4, <2>5, <2>6
  <2> QED
    BY <2>6, <2>7
<1>4. ASSUME NEW s \in Sale, NEW p \in Provider, NEW status \in {"APPROVED", "FAILED"},
             ProcessPayment(s, p, status) \/ ProcessPaymentWebhook(s, p, status)
      PROVE  available'[t] + Cardinality(HeldUnits(t))' = Stock[t]
  BY <1>1, <1>4, PaymentUnits DEF ProcessPayment, ProcessPaymentWebhook
<1>5. ASSUME NEW s \in Sale,
             \/ \E r \in Requests : CreateSale(s, r)
             \/ \E p \in Provider : CreatePaymentIntent(s, p)
      PROVE  UNCHANGED <<available, sale, items>>
  BY <1>5 DEF CreateSale, CreatePaymentIntent, dbVars
<1>6. ASSUME NEW w \in Worker,
             \/ \E s \in Sale : Deliver(w, s)
             \/ SaleAlreadyProcessed(w) \/ HandlerFails(w) \/ Answer(w) \/ Restart(w) \/ Fault(w)
      PROVE  UNCHANGED <<available, sale, items>>
  BY <1>6 DEF Deliver, SaleAlreadyProcessed, HandlerFails, Answer, Restart, Fault,
     LoseConnection, Crash, dbVars
<1> QED
  BY <1>2, <1>3, <1>4, <1>5, <1>6 DEF Next, ApiNext, WorkerStep, vars, dbVars

\* Every unit of the stock is for sale or held by a sale: with one worker, the
\* repeated line of a ticket (OneLine) is all that can lose one.
THEOREM Conservation ==
  ASSUME OneWorker, OneLine
  PROVE  Spec => []StockConserved
<1>1. Init => StockInv /\ NothingBeyond /\ StockConserved
  <2>1. Init => StockInv /\ NothingBeyond
    BY DEF Init, StockInv, PublishedFirst, ItemsFromRequest, NothingBeyond, NoRequest
  <2>2. ASSUME Init, NEW t \in Ticket PROVE available[t] + Cardinality(HeldUnits(t)) = Stock[t]
    <3>1. HeldUnits(t) = {}
      BY <2>2 DEF Init, HeldUnits
    <3> QED
      BY <2>2, <3>1, FS_EmptySet DEF Init
  <2> QED
    BY <2>1, <2>2 DEF StockConserved
<1>2. TypeInv /\ StockInv /\ NothingBeyond /\ [Next]_vars => StockInv' /\ NothingBeyond'
  BY NextPublishedFirst, NextItemsFromRequest, NextNothingBeyond DEF StockInv
<1>3. Spec => []SingleInv
  BY SingleWorkerInv
<1>4. SingleInv => TypeInv
  BY DEF SingleInv
<1> QED
  BY <1>1, <1>2, <1>3, <1>4, NextConserved, PTL DEF Spec

HIDE SalesAssumption DEF Request

-----------------------------------------------------------------------------
(* The inductive invariant of the sales.                                    *)

\* Rows of sale_items appear with the first reservation and stay; an event
\* needs a row of the sale.
FirstReservation ==
  \A s \in Sale :
    /\ sale[s] # "NONE" => items[s] = request[s].kept
    /\ sale[s] = "NONE" => outbox[s] = <<>>

\* The broker leaves a message to one open channel.
OneDelivery ==
  /\ \A w \in Worker :
       connected[w] /\ pc[w] # "idle" => message[handling[w]] = "delivered"
  /\ \A v, w \in Worker :
       /\ connected[v] /\ pc[v] # "idle"
       /\ connected[w] /\ pc[w] # "idle"
       /\ handling[v] = handling[w]
       => v = w

\* Workers that go on with a delivery that the broker took back.
Detached(s) == {w \in Worker : pc[w] # "idle" /\ handling[w] = s /\ ~connected[w]}
\* Workers that have read that s is absent, and may (re)open it.
Reopeners(s) == {w \in Worker : pc[w] = "absent" /\ handling[w] = s}

\* Each of the former cost a fault; each settlement, one of the latter.
SettlementCount ==
  \A s \in Sale :
    /\ IsFiniteSet(Detached(s)) /\ Cardinality(Detached(s)) <= faults
    /\ IsFiniteSet(Reopeners(s))
    /\ Len(outbox[s]) + Cardinality(Reopeners(s))
         + (IF sale[s] = "PENDING_PAYMENT" THEN 1 ELSE 0) <= 1 + faults

Paid(s) == Contains(outbox[s], "SALE_COMPLETED")

\* Sales that were paid and reopened since took their units from the stock
\* twice, and a failure gives them back once.
TakenTwice ==
  [s \in Sale |-> IF Paid(s) /\ sale[s] # "COMPLETED" THEN "COMPLETED" ELSE "NONE"]

Ledger ==
  \A t \in Ticket :
    available[t] + Cardinality(Units(sale, items, t)) + Cardinality(Units(TakenTwice, items, t))
      <= Stock[t]

\* processPaymentTx announces what it completes.
Announced == \A s \in Sale : sale[s] = "COMPLETED" => Paid(s)

CoreInv ==
  /\ TypeInv
  /\ StockInv
  /\ FirstReservation
  /\ Announced
  /\ OneDelivery
  /\ SettlementCount
  /\ Ledger

\* Tickets exist for units of paid sales only, and open doors only when they
\* exist.
DoorInv ==
  /\ \A u \in issued : Paid(u[1]) /\ u \in UnitsOf(u[1])
  /\ \A g \in Gate : gate[g] # NoUnit => gate[g] \in issued
  /\ \A u \in Unit : admitted[u] > 0 => u \in issued

SystemInv ==
  /\ CoreInv
  /\ SystemTypeOK /\ relayed \in [Sale -> SUBSET Nat]
  /\ DoorInv

-----------------------------------------------------------------------------
(* Counting.                                                                *)

LEMMA AtMost ==
  ASSUME NEW A, NEW B, IsFiniteSet(B), A \subseteq B
  PROVE  /\ IsFiniteSet(A) /\ Cardinality(A) \in Nat /\ Cardinality(B) \in Nat
         /\ Cardinality(A) <= Cardinality(B)
BY FS_Subset, FS_CardinalityType, Zenon

LEMMA OneMore ==
  ASSUME NEW A, NEW B, NEW x, IsFiniteSet(B), A \subseteq B \cup {x}
  PROVE  /\ IsFiniteSet(A) /\ Cardinality(A) \in Nat /\ Cardinality(B) \in Nat
         /\ Cardinality(A) <= Cardinality(B) + 1
<1>1. /\ IsFiniteSet(B \cup {x})
      /\ Cardinality(B \cup {x}) = IF x \in B THEN Cardinality(B) ELSE Cardinality(B) + 1
  BY FS_AddElement, Zenon
<1>2. /\ IsFiniteSet(A) /\ Cardinality(A) \in Nat /\ Cardinality(B) \in Nat
      /\ Cardinality(A) <= Cardinality(B \cup {x})
  BY <1>1, AtMost, FS_CardinalityType, Zenon
<1> QED
  BY <1>1, <1>2

LEMMA OneLess ==
  ASSUME NEW A, NEW B, NEW x \in B, IsFiniteSet(B), A \subseteq B \ {x}
  PROVE  /\ IsFiniteSet(A) /\ Cardinality(A) \in Nat /\ Cardinality(B) \in Nat
         /\ Cardinality(A) <= Cardinality(B) - 1
<1>1. /\ IsFiniteSet(B \ {x})
      /\ Cardinality(B \ {x}) = IF x \in B THEN Cardinality(B) - 1 ELSE Cardinality(B)
  BY FS_RemoveElement, Zenon
<1>2. /\ IsFiniteSet(A) /\ Cardinality(A) \in Nat /\ Cardinality(B) \in Nat
      /\ Cardinality(A) <= Cardinality(B \ {x})
  BY <1>1, AtMost, FS_CardinalityType, Zenon
<1> QED
  BY <1>1, <1>2

\* Units of sales that are held no longer, or were held before.
LEMMA FewerUnits ==
  ASSUME NEW st, NEW it, NEW st2, NEW it2, NEW t \in Ticket,
         \A x \in Sale : st2[x] \in Held => st[x] \in Held /\ it2[x] = it[x]
  PROVE  Cardinality(Units(st2, it2, t)) <= Cardinality(Units(st, it, t))
<1>1. Units(st2, it2, t) \subseteq Units(st, it, t)
  BY DEF Units
<1> QED
  BY <1>1, UnitsFinite, AtMost, Zenon

\* A settlement announces a payment or not, and what was announced stays so.
LEMMA PaidAppend ==
  ASSUME NEW box \in Seq(EventType), NEW e \in EventType
  PROVE  Contains(Append(box, e), "SALE_COMPLETED")
           <=> e = "SALE_COMPLETED" \/ Contains(box, "SALE_COMPLETED")
<1>1. /\ Len(Append(box, e)) = Len(box) + 1 /\ Len(box) \in Nat
      /\ Append(box, e)[Len(box) + 1] = e
      /\ \A i \in 1 .. Len(box) : Append(box, e)[i] = box[i]
  OBVIOUS
<1>2. 1 .. Len(box) + 1 = (1 .. Len(box)) \cup {Len(box) + 1}
  BY <1>1
<1> QED
  BY <1>1, <1>2 DEF Contains

-----------------------------------------------------------------------------
(* The first reservation.                                                   *)

LEMMA PaymentRows ==
  ASSUME TypeInv, NEW s \in Sale, NEW p \in Provider, NEW status \in {"APPROVED", "FAILED"},
         ProcessPaymentTx(s, p, status)
  PROVE  /\ sale[s] = "PENDING_PAYMENT" /\ items' = items
         /\ \E e \in EventType :
              /\ sale' = [sale EXCEPT ![s] =
                            IF e = "SALE_COMPLETED" THEN "COMPLETED" ELSE "FAILED"]
              /\ outbox' = [outbox EXCEPT ![s] = Append(@, e)]
<1>1. CASE status = "APPROVED"
  BY <1>1 DEF ProcessPaymentTx, EventType
<1>2. CASE status = "FAILED"
  BY <1>2 DEF ProcessPaymentTx, EventType
<1> QED
  BY <1>1, <1>2

\* The steps of workers and clients that leave the rows of the sales alone.
LEMMA RowsAlone ==
  ASSUME [Next]_vars,
         ~ \E w \in Worker : PersistSale(w),
         ~ \E s \in Sale, p \in Provider, status \in {"APPROVED", "FAILED"} :
             ProcessPayment(s, p, status) \/ ProcessPaymentWebhook(s, p, status)
  PROVE  UNCHANGED <<available, sale, items, outbox>>
<1>1. ASSUME NEW s \in Sale,
             \/ \E r \in Requests : CreateSale(s, r)
             \/ \E p \in Provider : CreatePaymentIntent(s, p)
      PROVE  UNCHANGED <<available, sale, items, outbox>>
  BY <1>1 DEF CreateSale, CreatePaymentIntent, dbVars
<1>2. ASSUME NEW w \in Worker,
             \/ \E s \in Sale : Deliver(w, s)
             \/ SaleAlreadyProcessed(w) \/ HandlerFails(w) \/ Answer(w) \/ Restart(w) \/ Fault(w)
      PROVE  UNCHANGED <<available, sale, items, outbox>>
  BY <1>2 DEF Deliver, SaleAlreadyProcessed, HandlerFails, Answer, Restart, Fault,
     LoseConnection, Crash, dbVars
<1> QED
  BY <1>1, <1>2 DEF Next, ApiNext, WorkerStep, vars, dbVars

\* A request is written once, before its sale has a row.
LEMMA RequestStays ==
  ASSUME TypeInv, PublishedFirst, [Next]_vars, NEW s \in Sale, message[s] # "none"
  PROVE  request'[s] = request[s]
<1>1. ASSUME NEW x \in Sale, NEW r \in Requests, CreateSale(x, r) PROVE request'[s] = request[s]
  BY <1>1 DEF CreateSale, TypeInv, TypeOK
<1>2. ASSUME NEW x \in Sale, NEW p \in Provider,
             \/ CreatePaymentIntent(x, p)
             \/ \E status \in {"APPROVED", "FAILED"} :
                  ProcessPayment(x, p, status) \/ ProcessPaymentWebhook(x, p, status)
      PROVE  request' = request
  BY <1>2 DEF CreatePaymentIntent, ProcessPayment, ProcessPaymentWebhook, brokerVars
<1>3. ASSUME NEW w \in Worker, WorkerStep(w) \/ Fault(w) PROVE request' = request
  BY <1>3 DEF WorkerStep, Deliver, SaleAlreadyProcessed, PersistSale, HandlerFails, Answer,
     Restart, Fault, LoseConnection, Crash, brokerVars
<1> QED
  BY <1>1, <1>2, <1>3 DEF Next, ApiNext, vars, brokerVars

LEMMA NextFirstReservation ==
  ASSUME TypeInv, StockInv, FirstReservation, [Next]_vars
  PROVE  FirstReservation'
<1> USE DEF FirstReservation
<1>1. ASSUME NEW s \in Sale, sale[s] # "NONE" PROVE request'[s] = request[s]
  BY <1>1, RequestStays DEF StockInv, PublishedFirst
<1>2. ASSUME NEW w \in Worker, PersistSale(w) PROVE FirstReservation'
  <2> PICK s \in Sale : s = handling[w]
    BY <1>2 DEF TypeInv, HandlingOK, PersistSale
  <2>1. /\ sale' = [sale EXCEPT ![s] = "PENDING_PAYMENT"]
        /\ items' = [items EXCEPT ![s] = request[s].kept]
        /\ request' = request /\ outbox' = outbox
    BY <1>2, PersistSaleItems DEF StockInv, PersistSale, brokerVars
  <2> QED
    BY <2>1 DEF TypeInv, TypeOK
<1>3. ASSUME NEW s \in Sale, NEW p \in Provider, NEW status \in {"APPROVED", "FAILED"},
             ProcessPayment(s, p, status) \/ ProcessPaymentWebhook(s, p, status)
      PROVE  FirstReservation'
  <2>1. ProcessPaymentTx(s, p, status)
    BY <1>3 DEF ProcessPayment, ProcessPaymentWebhook
  <2>2. /\ sale[s] = "PENDING_PAYMENT" /\ items' = items
        /\ \E e \in EventType :
              /\ sale' = [sale EXCEPT ![s] =
                            IF e = "SALE_COMPLETED" THEN "COMPLETED" ELSE "FAILED"]
              /\ outbox' = [outbox EXCEPT ![s] = Append(@, e)]
    BY <2>1, PaymentRows
  <2> QED
    BY <1>1, <2>2 DEF TypeInv, TypeOK
<1>4. CASE UNCHANGED <<available, sale, items, outbox>>
  BY <1>1, <1>4
<1> QED
  BY <1>2, <1>3, <1>4, RowsAlone

-----------------------------------------------------------------------------
(* Deliveries.                                                              *)

LEMMA NextOneDelivery ==
  ASSUME TypeInv, OneDelivery, [Next]_vars
  PROVE  OneDelivery'
<1> USE DEF OneDelivery
<1>1. TypeOK /\ HandlingOK
  BY DEF TypeInv
<1>2. CASE UNCHANGED <<pc, handling, connected, message>>
  BY <1>2
<1>3. ASSUME NEW s \in Sale, NEW r \in Requests, CreateSale(s, r) PROVE OneDelivery'
  BY <1>1, <1>3 DEF CreateSale, workerVars, TypeOK, HandlingOK
<1>4. ASSUME NEW w \in Worker, NEW s \in Sale, Deliver(w, s) PROVE OneDelivery'
  BY <1>1, <1>4 DEF Deliver, TypeOK, HandlingOK
<1>5. ASSUME NEW w \in Worker, SaleAlreadyProcessed(w) \/ HandlerFails(w) \/ PersistSale(w)
      PROVE  OneDelivery'
  <2>1. /\ pc[w] # "idle" /\ UNCHANGED <<handling, connected, message>>
        /\ \A v \in Worker : v # w => pc'[v] = pc[v]
    BY <1>1, <1>5 DEF SaleAlreadyProcessed, HandlerFails, PersistSale, brokerVars, TypeOK
  <2> QED
    BY <1>1, <2>1 DEF HandlingOK
<1>6. ASSUME NEW w \in Worker, Answer(w) PROVE OneDelivery'
  BY <1>1, <1>6 DEF Answer, TypeOK, HandlingOK
<1>7. ASSUME NEW w \in Worker, Restart(w) PROVE OneDelivery'
  BY <1>1, <1>7 DEF Restart, brokerVars, TypeOK, HandlingOK
<1>8. ASSUME NEW w \in Worker, LoseConnection(w) PROVE OneDelivery'
  BY <1>1, <1>8 DEF LoseConnection, Requeued, TypeOK, HandlingOK
<1>9. ASSUME NEW w \in Worker, Crash(w) PROVE OneDelivery'
  BY <1>1, <1>9 DEF Crash, Requeued, TypeOK, HandlingOK
<1>10. ASSUME NEW s \in Sale, NEW p \in Provider,
             \/ CreatePaymentIntent(s, p)
             \/ \E status \in {"APPROVED", "FAILED"} :
                  ProcessPayment(s, p, status) \/ ProcessPaymentWebhook(s, p, status)
      PROVE  UNCHANGED <<pc, handling, connected, message>>
  BY <1>10 DEF CreatePaymentIntent, ProcessPayment, ProcessPaymentWebhook, brokerVars, workerVars
<1> QED
  BY <1>2, <1>3, <1>4, <1>5, <1>6, <1>7, <1>8, <1>9, <1>10
     DEF Next, ApiNext, WorkerStep, Fault, vars, brokerVars, workerVars

\* All that handle a sale, detached or not, are one more than the faults.
Handlers(s) == {w \in Worker : pc[w] # "idle" /\ handling[w] = s}

LEMMA HandlersBounded ==
  ASSUME OneDelivery, SettlementCount, TypeInv, NEW s \in Sale
  PROVE  IsFiniteSet(Handlers(s)) /\ Cardinality(Handlers(s)) <= 1 + faults
<1>1. PICK x : Handlers(s) \subseteq Detached(s) \cup {x}
  <2>1. CASE \E w \in Worker : connected[w] /\ pc[w] # "idle" /\ handling[w] = s
    <3>1. PICK w \in Worker : connected[w] /\ pc[w] # "idle" /\ handling[w] = s
      BY <2>1
    <3>2. Handlers(s) \subseteq Detached(s) \cup {w}
      BY <3>1 DEF Handlers, Detached, OneDelivery
    <3> QED
      BY <3>2
  <2>2. CASE ~ \E w \in Worker : connected[w] /\ pc[w] # "idle" /\ handling[w] = s
    BY <2>2 DEF Handlers, Detached
  <2> QED
    BY <2>1, <2>2
<1>2. IsFiniteSet(Detached(s)) /\ Cardinality(Detached(s)) <= faults /\ faults \in Nat
  BY DEF SettlementCount, TypeInv, TypeOK
<1>3. /\ IsFiniteSet(Handlers(s)) /\ Cardinality(Handlers(s)) \in Nat
      /\ Cardinality(Detached(s)) \in Nat
      /\ Cardinality(Handlers(s)) <= Cardinality(Detached(s)) + 1
  BY <1>1, <1>2, OneMore, Zenon
<1> QED
  BY <1>2, <1>3

-----------------------------------------------------------------------------
(* Settlements.                                                             *)

Pending(s) == IF sale[s] = "PENDING_PAYMENT" THEN 1 ELSE 0

\* The part of SettlementCount that concerns one sale.
CountOf(s) ==
  /\ IsFiniteSet(Detached(s)) /\ Cardinality(Detached(s)) <= faults
  /\ IsFiniteSet(Reopeners(s))
  /\ Len(outbox[s]) + Cardinality(Reopeners(s)) + Pending(s) <= 1 + faults

LEMMA CountOfAll == (SettlementCount <=> \A s \in Sale : CountOf(s))
                    /\ (SettlementCount' <=> \A s \in Sale : CountOf(s)')
BY DEF SettlementCount, CountOf, Pending

\* Steps after which no more workers than before handle the sale.
LEMMA CountKept ==
  ASSUME TypeOK, NEW s \in Sale, CountOf(s), faults' \in Nat, faults' >= faults,
         outbox'[s] = outbox[s], sale'[s] = sale[s],
         Detached(s)' \subseteq Detached(s), Reopeners(s)' \subseteq Reopeners(s)
  PROVE  CountOf(s)'
<1>1. /\ IsFiniteSet(Detached(s)') /\ Cardinality(Detached(s)') \in Nat
      /\ Cardinality(Detached(s)) \in Nat
      /\ Cardinality(Detached(s)') <= Cardinality(Detached(s))
  BY AtMost DEF CountOf
<1>2. /\ IsFiniteSet(Reopeners(s)') /\ Cardinality(Reopeners(s)') \in Nat
      /\ Cardinality(Reopeners(s)) \in Nat
      /\ Cardinality(Reopeners(s)') <= Cardinality(Reopeners(s))
  BY AtMost DEF CountOf
<1>3. /\ IsFiniteSet(Detached(s)) /\ Cardinality(Detached(s)) <= faults
      /\ Len(outbox[s]) + Cardinality(Reopeners(s)) + Pending(s) <= 1 + faults
  BY DEF CountOf
<1>4. faults \in Nat /\ Len(outbox[s]) \in Nat /\ Pending(s) \in {0, 1} /\ Pending(s)' = Pending(s)
  BY LenProperties DEF TypeOK, Pending
<1>5. Cardinality(Detached(s)') <= faults'
  BY <1>1, <1>3, <1>4
<1>6. Len(outbox'[s]) + Cardinality(Reopeners(s)') + Pending(s)' <= 1 + faults'
  BY <1>2, <1>3, <1>4
<1> QED
  BY <1>1, <1>2, <1>5, <1>6 DEF CountOf

\* A reservation uses its worker's reading up.
LEMMA PersistCount ==
  ASSUME TypeInv, SettlementCount, NEW w \in Worker, PersistSale(w), NEW s \in Sale
  PROVE  CountOf(s)'
<1>1. TypeOK /\ CountOf(s) /\ faults \in Nat
  BY CountOfAll DEF TypeInv, TypeOK
<1>2. /\ pc[w] = "absent" /\ faults' = faults /\ outbox' = outbox
      /\ UNCHANGED <<handling, connected>>
      /\ sale' = [sale EXCEPT ![handling[w]] = "PENDING_PAYMENT"]
      /\ \A v \in Worker : v # w => pc'[v] = pc[v]
      /\ pc'[w] \in {"ack", "nack"}
  BY <1>1 DEF PersistSale, TypeOK
<1>3. Detached(s)' \subseteq Detached(s)
  BY <1>2 DEF Detached
<1>4. CASE handling[w] # s
  <2>1. Reopeners(s)' \subseteq Reopeners(s)
    BY <1>2 DEF Reopeners
  <2>2. sale'[s] = sale[s]
    BY <1>1, <1>2, <1>4 DEF TypeOK
  <2> QED
    BY <1>1, <1>2, <1>3, <2>1, <2>2, CountKept
<1>5. CASE handling[w] = s
  <2>1. w \in Reopeners(s) /\ Reopeners(s)' \subseteq Reopeners(s) \ {w}
    BY <1>2, <1>5 DEF Reopeners
  <2>2. /\ IsFiniteSet(Reopeners(s)') /\ Cardinality(Reopeners(s)') \in Nat
        /\ Cardinality(Reopeners(s)) \in Nat
        /\ Cardinality(Reopeners(s)') <= Cardinality(Reopeners(s)) - 1
    BY <1>1, <2>1, OneLess DEF CountOf
  <2>3. /\ IsFiniteSet(Detached(s)') /\ Cardinality(Detached(s)') \in Nat
        /\ Cardinality(Detached(s)) \in Nat
        /\ Cardinality(Detached(s)') <= Cardinality(Detached(s))
    BY <1>1, <1>3, AtMost DEF CountOf
  <2>4. Len(outbox[s]) \in Nat /\ Pending(s) \in {0, 1} /\ Pending(s)' \in {0, 1}
    BY <1>1, LenProperties DEF TypeOK, Pending
  <2>5. /\ Cardinality(Detached(s)) <= faults
        /\ Len(outbox[s]) + Cardinality(Reopeners(s)) + Pending(s) <= 1 + faults
    BY <1>1 DEF CountOf
  <2>6. Cardinality(Detached(s)') <= faults'
    BY <1>1, <1>2, <2>3, <2>5
  <2>7. Len(outbox'[s]) + Cardinality(Reopeners(s)') + Pending(s)' <= 1 + faults'
    BY <1>1, <1>2, <2>2, <2>4, <2>5
  <2> QED
    BY <2>2, <2>3, <2>6, <2>7 DEF CountOf
<1> QED
  BY <1>4, <1>5

\* A settlement closes the sale.
LEMMA PaymentCount ==
  ASSUME TypeInv, SettlementCount, NEW x \in Sale, NEW p \in Provider,
         NEW status \in {"APPROVED", "FAILED"},
         ProcessPayment(x, p, status) \/ ProcessPaymentWebhook(x, p, status),
         NEW s \in Sale
  PROVE  CountOf(s)'
<1>1. TypeOK /\ CountOf(s) /\ faults \in Nat
  BY CountOfAll DEF TypeInv, TypeOK
<1>2. UNCHANGED <<pc, handling, connected, faults>>
  BY DEF ProcessPayment, ProcessPaymentWebhook, workerVars
<1>3. Detached(s)' = Detached(s) /\ Reopeners(s)' = Reopeners(s)
  BY <1>2 DEF Detached, Reopeners
<1>4. ProcessPaymentTx(x, p, status)
  BY DEF ProcessPayment, ProcessPaymentWebhook
<1>5. PICK e \in EventType :
        /\ sale[x] = "PENDING_PAYMENT"
        /\ sale' = [sale EXCEPT ![x] = IF e = "SALE_COMPLETED" THEN "COMPLETED" ELSE "FAILED"]
        /\ outbox' = [outbox EXCEPT ![x] = Append(@, e)]
  BY <1>4, PaymentRows
<1>6. CASE x # s
  <2>1. sale'[s] = sale[s] /\ outbox'[s] = outbox[s]
    BY <1>1, <1>5, <1>6 DEF TypeOK
  <2> QED
    BY <1>1, <1>2, <1>3, <2>1, CountKept
<1>7. CASE x = s
  <2>1. Len(outbox[s]) \in Nat /\ Len(outbox'[s]) = Len(outbox[s]) + 1
    BY <1>1, <1>5, <1>7, LenProperties, AppendProperties DEF TypeOK
  <2>2. Pending(s) = 1 /\ Pending(s)' = 0
    BY <1>1, <1>5, <1>7 DEF Pending, TypeOK
  <2>3. Cardinality(Reopeners(s)) \in Nat
    BY <1>1, FS_CardinalityType DEF CountOf
  <2>4. Len(outbox[s]) + Cardinality(Reopeners(s)) + Pending(s) <= 1 + faults
    BY <1>1 DEF CountOf
  <2>5. Len(outbox'[s]) + Cardinality(Reopeners(s)) + Pending(s)' <= 1 + faults'
    BY <1>1, <1>2, <2>1, <2>2, <2>3, <2>4
  <2> QED
    BY <1>1, <1>2, <1>3, <2>5 DEF CountOf
<1> QED
  BY <1>6, <1>7

\* saleAlreadyProcessed finds no row: nothing was settled, and those who may
\* reserve now are among the handlers of the message.
LEMMA ReadCount ==
  ASSUME TypeInv, FirstReservation, OneDelivery, SettlementCount,
         NEW w \in Worker, SaleAlreadyProcessed(w), NEW s \in Sale
  PROVE  CountOf(s)'
<1>1. TypeOK /\ CountOf(s) /\ faults \in Nat
  BY CountOfAll DEF TypeInv, TypeOK
<1>2. /\ UNCHANGED <<handling, connected, faults, sale, outbox>>
      /\ pc[w] = "received"
      /\ \A v \in Worker : v # w => pc'[v] = pc[v]
      /\ pc'[w] = IF sale[handling[w]] = "NONE" THEN "absent" ELSE "ack"
  BY <1>1 DEF SaleAlreadyProcessed, dbVars, TypeOK
<1>3. Detached(s)' \subseteq Detached(s)
  BY <1>2 DEF Detached
<1>4. CASE handling[w] # s \/ sale[s] # "NONE"
  <2>1. Reopeners(s)' \subseteq Reopeners(s)
    BY <1>2, <1>4 DEF Reopeners
  <2> QED
    BY <1>1, <1>2, <1>3, <2>1, CountKept
<1>5. CASE sale[s] = "NONE"
  <2>1. Reopeners(s)' \subseteq Handlers(s)
    BY <1>2 DEF Reopeners, Handlers
  <2>2. IsFiniteSet(Handlers(s)) /\ Cardinality(Handlers(s)) <= 1 + faults
    BY HandlersBounded
  <2>3. /\ IsFiniteSet(Reopeners(s)') /\ Cardinality(Reopeners(s)') \in Nat
        /\ Cardinality(Handlers(s)) \in Nat
        /\ Cardinality(Reopeners(s)') <= Cardinality(Handlers(s))
    BY <2>1, <2>2, AtMost
  <2>4. /\ IsFiniteSet(Detached(s)') /\ Cardinality(Detached(s)') \in Nat
        /\ Cardinality(Detached(s)) \in Nat
        /\ Cardinality(Detached(s)') <= Cardinality(Detached(s))
    BY <1>1, <1>3, AtMost DEF CountOf
  <2>5. Len(outbox'[s]) = 0 /\ Pending(s)' = 0
    BY <1>2, <1>5 DEF FirstReservation, Pending
  <2>6. Cardinality(Detached(s)') <= faults'
    BY <1>1, <1>2, <2>4 DEF CountOf
  <2>7. Len(outbox'[s]) + Cardinality(Reopeners(s)') + Pending(s)' <= 1 + faults'
    BY <1>1, <1>2, <2>2, <2>3, <2>5
  <2> QED
    BY <2>3, <2>4, <2>6, <2>7 DEF CountOf
<1> QED
  BY <1>4, <1>5

\* A worker that loses its connection is detached, at the price of a fault.
LEMMA DetachCount ==
  ASSUME TypeInv, SettlementCount, NEW w \in Worker, LoseConnection(w), NEW s \in Sale
  PROVE  CountOf(s)'
<1>1. TypeOK /\ CountOf(s) /\ faults \in Nat
  BY CountOfAll DEF TypeInv, TypeOK
<1>2. /\ UNCHANGED <<pc, handling, sale, outbox>> /\ faults' = faults + 1
      /\ \A v \in Worker : v # w => connected'[v] = connected[v]
  BY <1>1 DEF LoseConnection, dbVars, TypeOK
<1>3. Reopeners(s)' = Reopeners(s) /\ Pending(s)' = Pending(s)
  BY <1>2 DEF Reopeners, Pending
<1>4. Detached(s)' \subseteq Detached(s) \cup {w}
  BY <1>2 DEF Detached
<1>5. /\ IsFiniteSet(Detached(s)') /\ Cardinality(Detached(s)') \in Nat
      /\ Cardinality(Detached(s)) \in Nat
      /\ Cardinality(Detached(s)') <= Cardinality(Detached(s)) + 1
  BY <1>1, <1>4, OneMore DEF CountOf
<1>6. /\ Cardinality(Detached(s)) <= faults
      /\ Len(outbox[s]) + Cardinality(Reopeners(s)) + Pending(s) <= 1 + faults
  BY <1>1 DEF CountOf
<1>7. Len(outbox[s]) \in Nat /\ Pending(s) \in {0, 1} /\ Cardinality(Reopeners(s)) \in Nat
  BY <1>1, LenProperties, FS_CardinalityType DEF TypeOK, Pending, CountOf
<1>8. Cardinality(Detached(s)') <= faults'
  BY <1>1, <1>2, <1>5, <1>6
<1>9. Len(outbox'[s]) + Cardinality(Reopeners(s)') + Pending(s)' <= 1 + faults'
  BY <1>1, <1>2, <1>3, <1>6, <1>7
<1> QED
  BY <1>1, <1>3, <1>5, <1>8, <1>9 DEF CountOf

LEMMA NextSettlementCount ==
  ASSUME TypeInv, FirstReservation, OneDelivery, SettlementCount, [Next]_vars
  PROVE  SettlementCount'
<1> SUFFICES ASSUME NEW s \in Sale PROVE CountOf(s)'
  BY CountOfAll
<1>1. TypeOK /\ CountOf(s) /\ faults \in Nat
  BY CountOfAll DEF TypeInv, TypeOK
<1>2. CASE UNCHANGED <<workerVars, sale, outbox>>
  <2>1. /\ faults' = faults /\ sale'[s] = sale[s] /\ outbox'[s] = outbox[s]
        /\ Detached(s)' = Detached(s) /\ Reopeners(s)' = Reopeners(s)
    BY <1>2 DEF workerVars, Detached, Reopeners
  <2> QED
    BY <1>1, <2>1, CountKept
<1>3. ASSUME NEW w \in Worker, NEW x \in Sale, Deliver(w, x) PROVE CountOf(s)'
  <2>1. /\ UNCHANGED <<connected, faults, sale, outbox>> /\ connected[w]
        /\ \A v \in Worker : v # w => pc'[v] = pc[v] /\ handling'[v] = handling[v]
        /\ pc'[w] = "received"
    BY <1>1, <1>3 DEF Deliver, dbVars, TypeOK
  <2>2. Detached(s)' \subseteq Detached(s) /\ Reopeners(s)' \subseteq Reopeners(s)
    BY <2>1 DEF Detached, Reopeners
  <2> QED
    BY <1>1, <2>1, <2>2, CountKept
<1>4. ASSUME NEW w \in Worker, HandlerFails(w) PROVE CountOf(s)'
  <2>1. /\ UNCHANGED <<handling, connected, faults, sale, outbox>>
        /\ \A v \in Worker : v # w => pc'[v] = pc[v]
        /\ pc[w] # "idle" /\ pc'[w] = "nack"
    BY <1>1, <1>4 DEF HandlerFails, dbVars, TypeOK
  <2>2. Detached(s)' \subseteq Detached(s) /\ Reopeners(s)' \subseteq Reopeners(s)
    BY <2>1 DEF Detached, Reopeners
  <2> QED
    BY <1>1, <2>1, <2>2, CountKept
<1>5. ASSUME NEW w \in Worker, Answer(w) PROVE CountOf(s)'
  <2>1. /\ UNCHANGED <<connected, faults, sale, outbox>>
        /\ \A v \in Worker : v # w => pc'[v] = pc[v] /\ handling'[v] = handling[v]
        /\ pc'[w] = "idle"
    BY <1>1, <1>5 DEF Answer, dbVars, TypeOK
  <2>2. Detached(s)' \subseteq Detached(s) /\ Reopeners(s)' \subseteq Reopeners(s)
    BY <2>1 DEF Detached, Reopeners
  <2> QED
    BY <1>1, <2>1, <2>2, CountKept
<1>6. ASSUME NEW w \in Worker, Restart(w) PROVE CountOf(s)'
  <2>1. /\ UNCHANGED <<pc, handling, faults, sale, outbox>>
        /\ \A v \in Worker : v # w => connected'[v] = connected[v]
        /\ connected'[w]
    BY <1>1, <1>6 DEF Restart, dbVars, TypeOK
  <2>2. Detached(s)' \subseteq Detached(s) /\ Reopeners(s)' \subseteq Reopeners(s)
    BY <2>1 DEF Detached, Reopeners
  <2> QED
    BY <1>1, <2>1, <2>2, CountKept
<1>7. ASSUME NEW w \in Worker, Crash(w) PROVE CountOf(s)'
  <2>1. /\ UNCHANGED <<sale, outbox>> /\ faults' = faults + 1
        /\ \A v \in Worker : v # w =>
             pc'[v] = pc[v] /\ handling'[v] = handling[v] /\ connected'[v] = connected[v]
        /\ pc'[w] = "idle"
    BY <1>1, <1>7 DEF Crash, dbVars, TypeOK
  <2>2. Detached(s)' \subseteq Detached(s) /\ Reopeners(s)' \subseteq Reopeners(s)
    BY <2>1 DEF Detached, Reopeners
  <2>3. faults' \in Nat /\ faults' >= faults
    BY <1>1, <2>1
  <2> QED
    BY <1>1, <2>1, <2>2, <2>3, CountKept
<1>8. ASSUME NEW x \in Sale,
             \/ \E r \in Requests : CreateSale(x, r)
             \/ \E p \in Provider : CreatePaymentIntent(x, p)
      PROVE  UNCHANGED <<workerVars, sale, outbox>>
  BY <1>8 DEF CreateSale, CreatePaymentIntent, dbVars
<1> QED
  BY <1>2, <1>3, <1>4, <1>5, <1>6, <1>7, <1>8, ReadCount, DetachCount, PersistCount, PaymentCount
     DEF Next, ApiNext, WorkerStep, Fault, vars, dbVars

-----------------------------------------------------------------------------
(* The ledger of a ticket type.                                             *)

LEMMA PersistLedger ==
  ASSUME TypeInv, StockInv, FirstReservation, Ledger, NEW w \in Worker, PersistSale(w),
         NEW t \in Ticket
  PROVE  available'[t] + Cardinality(Units(sale', items', t))
           + Cardinality(Units(TakenTwice', items', t)) <= Stock[t]
<1> PICK s \in Sale : s = handling[w]
  BY DEF TypeInv, HandlingOK, PersistSale
<1> DEFINE n == request[s].kept[t]
<1>1. /\ sale' = [sale EXCEPT ![s] = "PENDING_PAYMENT"]
      /\ items' = [items EXCEPT ![s] = request[s].kept]
      /\ available'[t] <= available[t] - n
      /\ outbox' = outbox
  BY PersistSaleItems DEF StockInv, PersistSale
<1>2. /\ n \in Nat /\ available[t] \in Nat /\ Stock[t] \in Nat /\ available'[t] \in Int
  <2>1. TypeOK /\ TypeOK' /\ request[s] \in Request
    BY PersistSaleType DEF TypeInv, TypeOK
  <2> QED
    BY <2>1, SalesAssumption DEF TypeOK, Request
<1>3. /\ \A x \in Sale \ {s} : sale'[x] = sale[x] /\ items'[x] = items[x]
      /\ items'[s][t] \in 0 .. n /\ sale'[s] = "PENDING_PAYMENT"
  BY <1>1, <1>2 DEF TypeInv, TypeOK
<1>4. \A x \in Sale \ {s} : TakenTwice'[x] = TakenTwice[x]
  BY <1>1, <1>3 DEF TakenTwice, Paid
<1>5. /\ Cardinality(Units(sale, items, t)) \in Nat
      /\ Cardinality(Units(TakenTwice, items, t)) \in Nat
      /\ Cardinality(Units(sale', items', t)) \in Nat
      /\ Cardinality(Units(TakenTwice', items', t)) \in Nat
  BY UnitsFinite
<1>6. available[t] + Cardinality(Units(sale, items, t))
        + Cardinality(Units(TakenTwice, items, t)) <= Stock[t]
  BY DEF Ledger
<1> HIDE DEF n
<1>7. CASE sale[s] \in {"NONE", "FAILED"}
  <2>1. Cardinality(Units(sale', items', t)) <= Cardinality(Units(sale, items, t)) + n
    BY <1>2, <1>3, ReserveBound, Zenon
  <2>2. \A x \in Sale : TakenTwice'[x] \in Held => TakenTwice[x] \in Held /\ items'[x] = items[x]
    <3>1. CASE sale[s] = "NONE"
      <4>1. ~Paid(s)'
        BY <1>1, <3>1 DEF FirstReservation, Paid, Contains
      <4>2. TakenTwice'[s] \notin Held
        BY <4>1 DEF TakenTwice, Held
      <4> QED
        BY <1>3, <1>4, <4>2
    <3>2. CASE sale[s] = "FAILED"
      <4>1. items' = items
        BY <1>1, <3>2 DEF FirstReservation, TypeInv, TypeOK
      <4>2. TakenTwice'[s] = TakenTwice[s]
        BY <1>1, <1>3, <3>2 DEF TakenTwice, Paid
      <4> QED
        BY <1>4, <4>1, <4>2
    <3> QED
      BY <1>7, <3>1, <3>2
  <2>3. Cardinality(Units(TakenTwice', items', t)) <= Cardinality(Units(TakenTwice, items, t))
    BY <2>2, FewerUnits
  <2> QED
    BY <1>1, <1>2, <1>5, <1>6, <2>1, <2>3
<1>8. CASE sale[s] \notin {"NONE", "FAILED"}
  <2>1. \A x \in Sale : sale'[x] \in Held => sale[x] \in Held /\ items'[x] = items[x]
    <3>1. items' = items
      BY <1>1, <1>8 DEF FirstReservation, TypeInv, TypeOK
    <3>2. sale[s] \in Held
      BY <1>8 DEF TypeInv, TypeOK, SaleStatus, Held
    <3> QED
      BY <1>3, <3>1, <3>2
  <2>2. Cardinality(Units(sale', items', t)) <= Cardinality(Units(sale, items, t))
    BY <2>1, FewerUnits
  <2>3. \A x \in Sale \ {s} : TakenTwice'[x] = TakenTwice[x] /\ items'[x] = items[x]
    BY <1>3, <1>4
  <2>4. Cardinality(Units(TakenTwice', items', t)) <= Cardinality(Units(TakenTwice, items, t)) + n
    BY <1>2, <1>3, <2>3, ReserveBound, Zenon
  <2> QED
    BY <1>1, <1>2, <1>5, <1>6, <2>2, <2>4
<1> QED
  BY <1>7, <1>8

LEMMA PaymentLedger ==
  ASSUME TypeInv, Ledger, NEW s \in Sale, NEW p \in Provider, NEW status \in {"APPROVED", "FAILED"},
         ProcessPaymentTx(s, p, status), NEW t \in Ticket
  PROVE  available'[t] + Cardinality(Units(sale', items', t))
           + Cardinality(Units(TakenTwice', items', t)) <= Stock[t]
<1>1. PICK e \in EventType :
        /\ sale[s] = "PENDING_PAYMENT" /\ items' = items
        /\ sale' = [sale EXCEPT ![s] = IF e = "SALE_COMPLETED" THEN "COMPLETED" ELSE "FAILED"]
        /\ outbox' = [outbox EXCEPT ![s] = Append(@, e)]
  BY PaymentRows
<1>2. \A x \in Sale : TakenTwice'[x] \in Held => TakenTwice[x] \in Held /\ items'[x] = items[x]
  <2>1. ASSUME NEW x \in Sale, x # s PROVE TakenTwice'[x] = TakenTwice[x]
    BY <1>1, <2>1 DEF TakenTwice, Paid, TypeInv, TypeOK
  <2>2. CASE e = "SALE_COMPLETED"
    <3>1. TakenTwice'[s] \notin Held
      BY <1>1, <2>2 DEF TakenTwice, Held, TypeInv, TypeOK
    <3> QED
      BY <1>1, <2>1, <3>1
  <2>3. CASE e # "SALE_COMPLETED"
    <3>1. Paid(s)' <=> Paid(s)
      BY <1>1, <2>3, PaidAppend DEF Paid, TypeInv, TypeOK
    <3>2. TakenTwice'[s] = TakenTwice[s]
      BY <1>1, <2>3, <3>1 DEF TakenTwice, TypeInv, TypeOK
    <3> QED
      BY <1>1, <2>1, <3>2
  <2> QED
    BY <2>2, <2>3
<1>3. Cardinality(Units(TakenTwice', items', t)) <= Cardinality(Units(TakenTwice, items, t))
  BY <1>2, FewerUnits
<1>4. available'[t] + Cardinality(Units(sale', items', t))
        = available[t] + Cardinality(Units(sale, items, t))
  BY PaymentUnits, HeldUnitsDef
<1>5. /\ Cardinality(Units(sale, items, t)) \in Nat
      /\ Cardinality(Units(TakenTwice, items, t)) \in Nat
      /\ Cardinality(Units(sale', items', t)) \in Nat
      /\ Cardinality(Units(TakenTwice', items', t)) \in Nat
      /\ available[t] \in Nat /\ available'[t] \in Nat /\ Stock[t] \in Nat
  <2>1. TypeOK /\ available' \in [Ticket -> Nat]
    BY ProcessPaymentTxType DEF TypeInv
  <2> QED
    BY <2>1, UnitsFinite, SalesAssumption DEF TypeOK
<1>6. available[t] + Cardinality(Units(sale, items, t))
        + Cardinality(Units(TakenTwice, items, t)) <= Stock[t]
  BY DEF Ledger
<1> QED
  BY <1>3, <1>4, <1>5, <1>6

LEMMA NextLedger ==
  ASSUME TypeInv, StockInv, FirstReservation, Ledger, [Next]_vars
  PROVE  Ledger'
<1> SUFFICES ASSUME NEW t \in Ticket
             PROVE  available'[t] + Cardinality(Units(sale', items', t))
                      + Cardinality(Units(TakenTwice', items', t)) <= Stock[t]
  BY DEF Ledger, Units
<1>1. CASE UNCHANGED <<available, sale, items, outbox>>
  <2>1. TakenTwice' = TakenTwice
    BY <1>1 DEF TakenTwice, Paid
  <2> QED
    BY <1>1, <2>1 DEF Ledger
<1> QED
  BY <1>1, RowsAlone, PersistLedger, PaymentLedger DEF ProcessPayment, ProcessPaymentWebhook

-----------------------------------------------------------------------------
(* The core invariant.                                                      *)

LEMMA NextAnnounced ==
  ASSUME TypeInv, Announced, [Next]_vars
  PROVE  Announced'
<1> USE DEF Announced
<1>1. CASE UNCHANGED <<available, sale, items, outbox>>
  BY <1>1 DEF Paid
<1>2. ASSUME NEW w \in Worker, PersistSale(w) PROVE Announced'
  BY <1>2 DEF PersistSale, Paid, TypeInv, TypeOK
<1>3. ASSUME NEW s \in Sale, NEW p \in Provider, NEW status \in {"APPROVED", "FAILED"},
             ProcessPaymentTx(s, p, status)
      PROVE  Announced'
  <2>1. PICK e \in EventType :
          /\ sale[s] = "PENDING_PAYMENT" /\ items' = items
          /\ sale' = [sale EXCEPT ![s] = IF e = "SALE_COMPLETED" THEN "COMPLETED" ELSE "FAILED"]
          /\ outbox' = [outbox EXCEPT ![s] = Append(@, e)]
    BY <1>3, PaymentRows
  <2>2. sale'[s] = "COMPLETED" => Paid(s)'
    BY <2>1, PaidAppend DEF Paid, TypeInv, TypeOK
  <2>3. ASSUME NEW x \in Sale, x # s PROVE sale'[x] = sale[x] /\ (Paid(x)' <=> Paid(x))
    BY <2>1, <2>3 DEF Paid, TypeInv, TypeOK
  <2> QED
    BY <2>2, <2>3
<1> QED
  BY <1>1, <1>2, <1>3, RowsAlone DEF ProcessPayment, ProcessPaymentWebhook

LEMMA InitCoreInv == Init => CoreInv
<1> SUFFICES ASSUME Init PROVE CoreInv
  OBVIOUS
<1>1. TypeInv
  BY InitTypeOK DEF Init, TypeInv, HandlingOK
<1>2. StockInv
  BY DEF Init, StockInv, PublishedFirst, ItemsFromRequest
<1>3. FirstReservation /\ Announced /\ OneDelivery
  BY DEF Init, FirstReservation, Announced, OneDelivery
<1>4. SettlementCount
  <2> SUFFICES ASSUME NEW s \in Sale PROVE CountOf(s)
    BY CountOfAll
  <2>1. Detached(s) = {} /\ Reopeners(s) = {}
    BY DEF Init, Detached, Reopeners
  <2>2. Len(outbox[s]) = 0 /\ Pending(s) = 0 /\ faults = 0
    BY DEF Init, Pending
  <2> QED
    BY <2>1, <2>2, FS_EmptySet DEF CountOf
<1>5. ASSUME NEW t \in Ticket
      PROVE  available[t] + Cardinality(Units(sale, items, t))
               + Cardinality(Units(TakenTwice, items, t)) <= Stock[t]
  <2>1. Units(sale, items, t) = {}
    BY DEF Init, Units, Held
  <2>2. \A s \in Sale : ~Paid(s)
    BY DEF Init, Paid, Contains
  <2>3. Units(TakenTwice, items, t) = {}
    BY <2>2 DEF Units, Held, TakenTwice
  <2>4. available[t] = Stock[t] /\ Stock[t] \in Nat
    BY SalesAssumption DEF Init
  <2> QED
    BY <2>1, <2>3, <2>4, FS_EmptySet
<1> QED
  BY <1>1, <1>2, <1>3, <1>4, <1>5 DEF CoreInv, Ledger

LEMMA NextCoreInv == CoreInv /\ [Next]_vars => CoreInv'
BY NextTypeOK, NextHandlingOK, NextPublishedFirst, NextItemsFromRequest, NextFirstReservation,
   NextAnnounced, NextOneDelivery, NextSettlementCount, NextLedger
   DEF CoreInv, TypeInv, StockInv

\* What an undone batch of the relay costs.
OnlyFault ==
  /\ faults < MaxFaults /\ faults' = faults + 1
  /\ UNCHANGED <<brokerVars, pc, handling, connected, dbVars>>

LEMMA FaultCoreInv == CoreInv /\ OnlyFault => CoreInv'
<1> SUFFICES ASSUME CoreInv, OnlyFault PROVE CoreInv'
  OBVIOUS
<1>1. /\ UNCHANGED <<request, message, pc, handling, connected>>
      /\ UNCHANGED <<available, sale, items, payment, intent, outbox>>
      /\ faults' = faults + 1 /\ faults < MaxFaults /\ faults \in Nat
      /\ TypeOK
  BY DEF OnlyFault, brokerVars, dbVars, CoreInv, TypeInv, TypeOK
<1>2. faults' \in 0 .. MaxFaults
  BY <1>1, SalesAssumption
<1>3. TypeInv'
  BY <1>1, <1>2 DEF CoreInv, TypeInv, TypeOK, HandlingOK
<1>4. StockInv' /\ FirstReservation' /\ OneDelivery'
  BY <1>1 DEF CoreInv, StockInv, PublishedFirst, ItemsFromRequest, FirstReservation, OneDelivery
<1>5. Announced'
  BY <1>1 DEF CoreInv, Announced, Paid
<1>6. SettlementCount'
  <2> SUFFICES ASSUME NEW s \in Sale PROVE CountOf(s)'
    BY CountOfAll
  <2>1. Detached(s)' = Detached(s) /\ Reopeners(s)' = Reopeners(s)
    BY <1>1 DEF Detached, Reopeners
  <2>2. CountOf(s)
    BY CountOfAll DEF CoreInv
  <2> QED
    BY <1>1, <2>1, <2>2, CountKept
<1>7. Ledger'
  <2>1. TakenTwice' = TakenTwice
    BY <1>1 DEF TakenTwice, Paid
  <2>2. \A t \in Ticket : Units(sale, items, t)' = Units(sale, items, t)
                          /\ Units(TakenTwice, items, t)' = Units(TakenTwice, items, t)
    BY <1>1, <2>1
  <2> QED
    BY <1>1, <2>2 DEF CoreInv, Ledger
<1> QED
  BY <1>3, <1>4, <1>5, <1>6, <1>7 DEF CoreInv

-----------------------------------------------------------------------------
(* What a step of the system is to the sales.                               *)

LEMMA StepOfSales == [SystemNext]_systemVars => [Next]_vars \/ OnlyFault
<1> SUFFICES ASSUME [SystemNext]_systemVars PROVE [Next]_vars \/ OnlyFault
  OBVIOUS
<1>1. CASE ApiNext
  BY <1>1 DEF Next
<1>2. ASSUME NEW w \in Worker, WorkerSystemStep(w) PROVE [Next]_vars
  <2>1. CASE \/ \E s \in Sale : DeliverCompleted(w, s)
             \/ IssueTickets(w) \/ DeliveryFails(w) \/ AnswerCompleted(w)
    BY <2>1 DEF DeliverCompleted, IssueTickets, DeliveryFails, AnswerCompleted
  <2>2. CASE \/ \E s \in Sale : Deliver(w, s)
             \/ Restart(w)
             \/ SaleAlreadyProcessed(w) \/ PersistSale(w) \/ HandlerFails(w) \/ Answer(w)
    BY <2>2 DEF Next, WorkerStep
  <2> QED
    BY <1>2, <2>1, <2>2 DEF WorkerSystemStep
<1>3. ASSUME NEW w \in Worker, LoseConnectionToo(w) \/ CrashToo(w) PROVE Next
  BY <1>3 DEF LoseConnectionToo, CrashToo, Next, Fault
<1>4. ASSUME NEW s \in Sale, NEW i \in DOMAIN outbox[s], Relay(s, i)
      PROVE  [Next]_vars \/ OnlyFault
  BY <1>4 DEF Relay, OnlyFault, vars, workerVars
<1>5. ASSUME NEW g \in Gate, GateStep(g) PROVE UNCHANGED vars
  BY <1>5 DEF GateStep, CheckInTicket, ReadTicket
<1>6. CASE UNCHANGED systemVars
  BY <1>6 DEF systemVars
<1> QED
  BY <1>1, <1>2, <1>3, <1>4, <1>5, <1>6 DEF SystemNext, RelayStep

LEMMA SystemCoreInv == CoreInv /\ [SystemNext]_systemVars => CoreInv'
BY StepOfSales, NextCoreInv, FaultCoreInv

\* The rows of a sale that has any.
LEMMA RowsStay ==
  ASSUME CoreInv, [SystemNext]_systemVars, NEW s \in Sale
  PROVE  /\ DOMAIN outbox[s] \subseteq DOMAIN outbox'[s]
         /\ Paid(s) => Paid(s)' /\ sale[s] # "NONE" /\ items'[s] = items[s]
         /\ sale[s] # "NONE" => sale'[s] # "NONE" /\ items'[s] = items[s]
<1>1. TypeInv /\ TypeOK /\ StockInv /\ FirstReservation
  BY DEF CoreInv, TypeInv
<1>2. Paid(s) => sale[s] # "NONE"
  BY <1>1 DEF FirstReservation, Paid, Contains
<1>3. CASE OnlyFault
  BY <1>2, <1>3 DEF OnlyFault, dbVars, Paid
<1>4. CASE [Next]_vars
  <2>1. ASSUME sale[s] # "NONE" PROVE sale'[s] # "NONE" /\ items'[s] = items[s]
    <3>1. sale'[s] # "NONE"
      BY <1>1, <1>4, <2>1, SaleStays
    <3>2. request'[s] = request[s]
      BY <1>1, <1>4, <2>1, RequestStays DEF StockInv, PublishedFirst
    <3>3. FirstReservation'
      BY <1>1, <1>4, NextFirstReservation
    <3> QED
      BY <1>1, <2>1, <3>1, <3>2, <3>3 DEF FirstReservation
  <2>2. CASE outbox'[s] = outbox[s]
    BY <1>2, <2>1, <2>2 DEF Paid
  <2>3. ASSUME NEW x \in Sale, NEW p \in Provider, NEW status \in {"APPROVED", "FAILED"},
               ProcessPaymentTx(x, p, status)
        PROVE  DOMAIN outbox[s] \subseteq DOMAIN outbox'[s] /\ (Paid(s) => Paid(s)')
    <3>1. PICK e \in EventType : outbox' = [outbox EXCEPT ![x] = Append(@, e)]
      BY <1>1, <2>3, PaymentRows
    <3>2. CASE x # s
      BY <1>1, <3>1, <3>2 DEF TypeOK, Paid
    <3>3. CASE x = s
      <4>1. outbox'[s] = Append(outbox[s], e) /\ outbox[s] \in Seq(EventType)
        BY <1>1, <3>1, <3>3 DEF TypeOK
      <4>2. Paid(s) => Paid(s)'
        BY <4>1, PaidAppend DEF Paid
      <4>3. DOMAIN outbox[s] \subseteq DOMAIN outbox'[s]
        BY <4>1, LenProperties, AppendProperties
      <4> QED
        BY <4>2, <4>3
    <3> QED
      BY <3>2, <3>3
  <2>4. ASSUME NEW w \in Worker, PersistSale(w) PROVE outbox'[s] = outbox[s]
    BY <2>4 DEF PersistSale
  <2> QED
    BY <1>2, <1>4, <2>1, <2>2, <2>3, <2>4, RowsAlone DEF ProcessPayment, ProcessPaymentWebhook
<1> QED
  BY <1>3, <1>4, StepOfSales

-----------------------------------------------------------------------------
(* Tickets and doors.                                                       *)

LEMMA InitSystemInv == SystemInit => SystemInv
<1> SUFFICES ASSUME SystemInit PROVE SystemInv
  OBVIOUS
<1>1. CoreInv
  BY InitCoreInv DEF SystemInit
<1>2. SystemTypeOK /\ relayed \in [Sale -> SUBSET Nat]
  BY <1>1 DEF SystemInit, SystemTypeOK, CoreInv, TypeInv, Init
<1>3. DoorInv
  BY DEF SystemInit, DoorInv
<1> QED
  BY <1>1, <1>2, <1>3 DEF SystemInv

\* Which worker a step of Sales moves: one that handles no SALE_COMPLETED, or
\* one that stops.
LEMMA WorkersMove ==
  ASSUME SystemInv, [SystemNext]_systemVars, NEW w \in Worker, delivering'[w] # NoSale
  PROVE  pc'[w] = "idle"
<1>1. /\ TypeOK /\ HandlingOK
      /\ delivering \in [Worker -> Sale \cup {NoSale}]
      /\ \A v \in Worker : delivering[v] # NoSale => pc[v] = "idle"
  BY DEF SystemInv, SystemTypeOK, CoreInv, TypeInv
<1>2. CASE UNCHANGED <<pc, delivering>>
  BY <1>1, <1>2
<1>3. ASSUME NEW v \in Worker, UNCHANGED afterVars,
             \/ Free(v) /\ ((\E s \in Sale : Deliver(v, s)) \/ Restart(v))
             \/ SaleAlreadyProcessed(v) \/ PersistSale(v) \/ HandlerFails(v) \/ Answer(v)
      PROVE  pc'[w] = "idle"
  <2>1. delivering' = delivering
    BY <1>3 DEF afterVars, deliveryVars
  <2>2. CASE Free(v) /\ ((\E s \in Sale : Deliver(v, s)) \/ Restart(v))
    BY <1>1, <2>1, <2>2 DEF Free, Deliver, Restart, TypeOK
  <2>3. CASE SaleAlreadyProcessed(v) \/ PersistSale(v) \/ HandlerFails(v) \/ Answer(v)
    <3>1. pc[v] # "idle" /\ \A u \in Worker : u # v => pc'[u] = pc[u]
      BY <1>1, <2>3 DEF SaleAlreadyProcessed, PersistSale, HandlerFails, Answer, TypeOK
    <3> QED
      BY <1>1, <2>1, <3>1
  <2> QED
    BY <1>3, <2>2, <2>3
<1>4. ASSUME NEW v \in Worker, NEW s \in Sale, DeliverCompleted(v, s) PROVE pc'[w] = "idle"
  BY <1>1, <1>4 DEF DeliverCompleted, Free, vars, workerVars
<1>5. ASSUME NEW v \in Worker, IssueTickets(v) \/ DeliveryFails(v)
      PROVE  UNCHANGED <<pc, delivering>>
  BY <1>5 DEF IssueTickets, DeliveryFails, vars, workerVars
<1>6. ASSUME NEW v \in Worker, AnswerCompleted(v) PROVE pc'[w] = "idle"
  BY <1>1, <1>6 DEF AnswerCompleted, vars, workerVars
<1>7. ASSUME NEW v \in Worker, LoseConnectionToo(v) PROVE UNCHANGED <<pc, delivering>>
  BY <1>7 DEF LoseConnectionToo, LoseConnection, deliveryVars
<1>8. ASSUME NEW v \in Worker, CrashToo(v) PROVE pc'[w] = "idle"
  BY <1>1, <1>8 DEF CrashToo, Crash, TypeOK
<1>9. CASE ApiNext /\ UNCHANGED afterVars
  BY <1>2, <1>9 DEF ApiNext, CreateSale, CreatePaymentIntent, ProcessPayment,
     ProcessPaymentWebhook, workerVars, afterVars, deliveryVars
<1>10. ASSUME NEW s \in Sale, RelayStep(s) PROVE UNCHANGED <<pc, delivering>>
  BY <1>10 DEF RelayStep, Relay
<1>11. ASSUME NEW g \in Gate, GateStep(g) PROVE UNCHANGED <<pc, delivering>>
  BY <1>11 DEF GateStep, CheckInTicket, ReadTicket, vars, workerVars, deliveryVars
<1>12. CASE UNCHANGED systemVars
  BY <1>2, <1>12 DEF systemVars, vars, workerVars, afterVars, deliveryVars
<1> QED
  BY <1>2, <1>3, <1>4, <1>5, <1>6, <1>7, <1>8, <1>9, <1>10, <1>11, <1>12
     DEF SystemNext, WorkerSystemStep

\* The types of what follows a payment.
AfterTypeOK ==
  /\ relayed    \in [Sale -> SUBSET Nat]
  /\ completed  \in [Sale -> Nat]
  /\ delivering \in [Worker -> Sale \cup {NoSale}]
  /\ verdict    \in [Worker -> {"none", "ack", "nack"}]
  /\ \A w \in Worker : verdict[w] # "none" => delivering[w] # NoSale
  /\ lost       \subseteq Sale
  /\ issued     \subseteq Unit
  /\ gate       \in [Gate -> Unit \cup {NoUnit}]
  /\ admitted   \in [Unit -> Nat]

LEMMA NextAfterTypeOK ==
  ASSUME SystemInv, [SystemNext]_systemVars
  PROVE  AfterTypeOK'
<1>1. AfterTypeOK /\ NoSale \notin Sale
  BY SalesAssumption DEF SystemInv, SystemTypeOK, AfterTypeOK
<1>2. CASE UNCHANGED afterVars
  BY <1>1, <1>2 DEF AfterTypeOK, afterVars, relayVars, deliveryVars, doorVars
<1>3. ASSUME NEW w \in Worker, NEW s \in Sale, DeliverCompleted(w, s) PROVE AfterTypeOK'
  <2>1. completed' \in [Sale -> Nat]
    BY <1>1, <1>3 DEF DeliverCompleted, AfterTypeOK
  <2>2. /\ delivering' \in [Worker -> Sale \cup {NoSale}]
        /\ \A v \in Worker : verdict'[v] # "none" => delivering'[v] # NoSale
    BY <1>1, <1>3 DEF DeliverCompleted, AfterTypeOK
  <2> QED
    BY <1>1, <1>3, <2>1, <2>2 DEF DeliverCompleted, AfterTypeOK, doorVars
<1>4. ASSUME NEW w \in Worker, IssueTickets(w) PROVE AfterTypeOK'
  <2>1. issued' \subseteq Unit
    BY <1>1, <1>4 DEF IssueTickets, AfterTypeOK, UnitsOf
  <2>2. /\ verdict' \in [Worker -> {"none", "ack", "nack"}]
        /\ \A v \in Worker : verdict'[v] # "none" => delivering'[v] # NoSale
    BY <1>1, <1>4 DEF IssueTickets, AfterTypeOK
  <2> QED
    BY <1>1, <1>4, <2>1, <2>2 DEF IssueTickets, AfterTypeOK, relayVars, doorVars
<1>5. ASSUME NEW w \in Worker, DeliveryFails(w) PROVE AfterTypeOK'
  BY <1>1, <1>5 DEF DeliveryFails, AfterTypeOK, relayVars, doorVars
<1>6. ASSUME NEW w \in Worker, AnswerCompleted(w) PROVE AfterTypeOK'
  <2>1. lost' \subseteq Sale
    BY <1>1, <1>6 DEF AnswerCompleted, AfterTypeOK
  <2>2. /\ delivering' \in [Worker -> Sale \cup {NoSale}]
        /\ verdict' \in [Worker -> {"none", "ack", "nack"}]
        /\ \A v \in Worker : verdict'[v] # "none" => delivering'[v] # NoSale
    BY <1>1, <1>6 DEF AnswerCompleted, AfterTypeOK
  <2> QED
    BY <1>1, <1>6, <2>1, <2>2 DEF AnswerCompleted, AfterTypeOK, relayVars, doorVars
<1>7. ASSUME NEW w \in Worker, RequeuedCompleted(w) PROVE completed' \in [Sale -> Nat]
  BY <1>1, <1>7 DEF RequeuedCompleted, AfterTypeOK
<1>8. ASSUME NEW w \in Worker, LoseConnectionToo(w) PROVE AfterTypeOK'
  BY <1>1, <1>7, <1>8 DEF LoseConnectionToo, AfterTypeOK, deliveryVars, doorVars
<1>9. ASSUME NEW w \in Worker, CrashToo(w) PROVE AfterTypeOK'
  <2>1. /\ delivering' \in [Worker -> Sale \cup {NoSale}]
        /\ verdict' \in [Worker -> {"none", "ack", "nack"}]
        /\ \A v \in Worker : verdict'[v] # "none" => delivering'[v] # NoSale
    BY <1>1, <1>9 DEF CrashToo, AfterTypeOK
  <2> QED
    BY <1>1, <1>7, <1>9, <2>1 DEF CrashToo, AfterTypeOK, doorVars
<1>10. ASSUME NEW s \in Sale, NEW i \in DOMAIN outbox[s], Relay(s, i) PROVE AfterTypeOK'
  <2>1. outbox[s] \in Seq(EventType)
    BY DEF SystemInv, SystemTypeOK, TypeOK
  <2>2. i \in Nat
    BY <2>1, LenProperties
  <2>3. relayed' \in [Sale -> SUBSET Nat]
    BY <1>1, <1>10, <2>2 DEF Relay, Publish, AfterTypeOK
  <2>4. completed' \in [Sale -> Nat]
    BY <1>1, <1>10 DEF Relay, Publish, AfterTypeOK
  <2>5. lost' \subseteq Sale
    BY <1>1, <1>10 DEF Relay, AfterTypeOK
  <2> QED
    BY <1>1, <1>10, <2>3, <2>4, <2>5 DEF Relay, AfterTypeOK, doorVars
<1>11. ASSUME NEW g \in Gate, NEW u \in Unit, ReadTicket(g, u) PROVE AfterTypeOK'
  BY <1>1, <1>11 DEF ReadTicket, AfterTypeOK, relayVars, deliveryVars
<1>12. ASSUME NEW g \in Gate, CheckInTicket(g) PROVE AfterTypeOK'
  <2>1. admitted' \in [Unit -> Nat]
    BY <1>1, <1>12 DEF CheckInTicket, CheckedIn, AfterTypeOK
  <2> QED
    BY <1>1, <1>12, <2>1 DEF CheckInTicket, AfterTypeOK, relayVars, deliveryVars
<1> QED
  BY <1>2, <1>3, <1>4, <1>5, <1>6, <1>8, <1>9, <1>10, <1>11, <1>12
     DEF SystemNext, WorkerSystemStep, RelayStep, GateStep, systemVars

\* The relay is done only with events that there are.
LEMMA NextRelayed ==
  ASSUME SystemInv, [SystemNext]_systemVars, NEW s \in Sale
  PROVE  relayed'[s] \subseteq DOMAIN outbox'[s]
<1>1. /\ relayed[s] \subseteq DOMAIN outbox[s]
      /\ relayed \in [Sale -> SUBSET Nat]
      /\ DOMAIN outbox[s] \subseteq DOMAIN outbox'[s]
  BY RowsStay DEF SystemInv, SystemTypeOK
<1>2. CASE relayed' = relayed
  BY <1>1, <1>2
<1>3. ASSUME NEW x \in Sale, NEW i \in DOMAIN outbox[x], Relay(x, i)
      PROVE  relayed'[s] \subseteq DOMAIN outbox'[s]
  <2>1. relayed'[s] = relayed[s] \/ (x = s /\ relayed'[s] = relayed[s] \cup {i})
    BY <1>1, <1>3 DEF Relay, Publish
  <2> QED
    BY <1>1, <2>1
<1> QED
  BY <1>2, <1>3
     DEF SystemNext, WorkerSystemStep, RelayStep, GateStep, systemVars, afterVars, relayVars,
         DeliverCompleted, IssueTickets, DeliveryFails, AnswerCompleted, LoseConnectionToo,
         CrashToo, ReadTicket, CheckInTicket

LEMMA NextDoorInv ==
  ASSUME SystemInv, [SystemNext]_systemVars
  PROVE  DoorInv'
<1>1. /\ DoorInv /\ Announced
      /\ delivering \in [Worker -> Sale \cup {NoSale}]
      /\ gate \in [Gate -> Unit \cup {NoUnit}]
      /\ admitted \in [Unit -> Nat]
      /\ issued \subseteq Unit
  BY DEF SystemInv, SystemTypeOK, CoreInv
\* What is issued stays paid.
<1>2. ASSUME NEW u \in Unit, Paid(u[1]), u \in UnitsOf(u[1])
      PROVE  Paid(u[1])' /\ u \in UnitsOf(u[1])'
  <2>1. u[1] \in Sale
    BY DEF Unit
  <2>2. Paid(u[1])' /\ items'[u[1]] = items[u[1]]
    BY <1>2, <2>1, RowsStay DEF SystemInv
  <2> QED
    BY <1>2, <2>2 DEF UnitsOf
<1>3. CASE UNCHANGED <<issued, gate, admitted>>
  BY <1>1, <1>2, <1>3 DEF DoorInv
<1>4. ASSUME NEW w \in Worker, IssueTickets(w) PROVE DoorInv'
  <2> PICK s \in Sale : s = delivering[w]
    BY <1>1, <1>4 DEF IssueTickets
  <2>1. \/ UNCHANGED issued
        \/ issued' = issued \cup UnitsOf(s) /\ Paid(s)
    BY <1>1, <1>4 DEF IssueTickets, Announced
  <2>2. \A u \in UnitsOf(s) : u \in Unit /\ u[1] = s
    BY DEF UnitsOf
  <2>3. \A u \in issued' : Paid(u[1])' /\ u \in UnitsOf(u[1])'
    BY <1>1, <1>2, <2>1, <2>2 DEF DoorInv
  <2> QED
    BY <1>1, <1>4, <2>1, <2>3 DEF DoorInv, IssueTickets, doorVars
<1>5. ASSUME NEW g \in Gate, NEW u \in Unit, ReadTicket(g, u) PROVE DoorInv'
  BY <1>1, <1>2, <1>5 DEF DoorInv, ReadTicket
<1>6. ASSUME NEW g \in Gate, CheckInTicket(g) PROVE DoorInv'
  <2>1. gate[g] \in issued /\ gate[g] \in Unit /\ issued' = issued
    BY <1>1, <1>6 DEF CheckInTicket, DoorInv
  <2>2. \A u \in Unit : admitted'[u] > 0 => u \in issued
    BY <1>1, <1>6, <2>1 DEF CheckInTicket, CheckedIn, DoorInv
  <2>3. \A h \in Gate : gate'[h] # NoUnit => gate'[h] \in issued
    BY <1>1, <1>6 DEF CheckInTicket, DoorInv
  <2> QED
    BY <1>1, <1>2, <2>1, <2>2, <2>3 DEF DoorInv
<1> QED
  BY <1>3, <1>4, <1>5, <1>6
     DEF SystemNext, WorkerSystemStep, RelayStep, GateStep, systemVars, afterVars, doorVars,
         DeliverCompleted, DeliveryFails, AnswerCompleted, LoseConnectionToo, CrashToo, Relay

LEMMA NextSystemInv == SystemInv /\ [SystemNext]_systemVars => SystemInv'
<1> SUFFICES ASSUME SystemInv, [SystemNext]_systemVars PROVE SystemInv'
  OBVIOUS
<1>1. CoreInv' /\ TypeOK'
  BY SystemCoreInv DEF SystemInv, CoreInv, TypeInv
<1>2. AfterTypeOK' /\ DoorInv'
  BY NextAfterTypeOK, NextDoorInv
<1>3. \A w \in Worker : delivering'[w] # NoSale => pc'[w] = "idle"
  BY WorkersMove
<1>4. \A s \in Sale : relayed'[s] \subseteq DOMAIN outbox'[s]
  BY NextRelayed
<1>5. SystemTypeOK'
  BY <1>1, <1>2, <1>3, <1>4 DEF SystemTypeOK, AfterTypeOK
<1> QED
  BY <1>1, <1>2, <1>5 DEF SystemInv, AfterTypeOK

\* Sales, payments, deliveries, announcements and gates agree, with any number
\* of workers: a sale is settled again only after the broker took one of its
\* messages back, and units are inside only if they were held or taken twice.
THEOREM SystemInvariant == SystemSpec => []SystemInv
BY InitSystemInv, NextSystemInv, PTL DEF SystemSpec

-----------------------------------------------------------------------------
(* What follows from it.                                                    *)

\* A worker handles a SALE_COMPLETED only while it handles no sale.created, the
\* relay is done only with events that exist, and every variable has its type.
THEOREM SystemTypeCorrect == SystemSpec => []SystemTypeOK
<1>1. SystemInv => SystemTypeOK
  BY DEF SystemInv
<1> QED
  BY <1>1, SystemInvariant, PTL

\* However many workers race on messages that the broker took back: a sale is
\* settled at most once for each of them, each of which cost a lost connection.
THEOREM Settlements == SystemSpec => []SettlementsBounded
<1>1. ASSUME SystemInv, NEW s \in Sale PROVE Len(outbox[s]) <= 1 + faults
  <2>1. CountOf(s) /\ TypeOK
    BY <1>1, CountOfAll DEF SystemInv, CoreInv, TypeInv
  <2>2. Len(outbox[s]) \in Nat /\ Pending(s) \in {0, 1} /\ Cardinality(Reopeners(s)) \in Nat
        /\ faults \in Nat
    BY <2>1, LenProperties, FS_CardinalityType DEF TypeOK, Pending, CountOf
  <2>3. Len(outbox[s]) + Cardinality(Reopeners(s)) + Pending(s) <= 1 + faults
    BY <2>1 DEF CountOf
  <2> QED
    BY <2>2, <2>3
<1>2. SystemInv => SettlementsBounded
  BY <1>1 DEF SettlementsBounded
<1> QED
  BY <1>2, SystemInvariant, PTL

\* Whoever is inside was paid for: by a sale that still holds the unit, or by
\* one that took it from the stock a second time when it was reopened.
LEMMA InsideIsPaid ==
  ASSUME SystemInv, NEW t \in Ticket
  PROVE  HeldUnits(t) \cup AdmittedUnits(t) \subseteq Units(sale, items, t) \cup Units(TakenTwice, items, t)
<1>1. HeldUnits(t) = Units(sale, items, t)
  BY DEF HeldUnits, Units, Held
<1>2. ASSUME NEW u \in Unit, u[2] = t, admitted[u] > 0
      PROVE  <<u[1], u[3]>> \in Units(sale, items, t) \cup Units(TakenTwice, items, t)
  <2>1. Paid(u[1]) /\ u \in UnitsOf(u[1])
    BY <1>2 DEF SystemInv, DoorInv
  <2>2. u[1] \in Sale /\ u[3] \in 1 .. MaxQuantity /\ u[3] <= items[u[1]][t]
    BY <1>2, <2>1 DEF Unit, UnitsOf
  <2>3. sale[u[1]] \in Held \/ TakenTwice[u[1]] \in Held
    BY <2>1, <2>2 DEF Held, TakenTwice
  <2> QED
    BY <2>2, <2>3 DEF Units
<1> QED
  BY <1>1, <1>2 DEF AdmittedUnits

\* For sale, held or inside, there are never more units than the stock had, even
\* when a second worker reopens a sale whose tickets were used and it then fails.
THEOREM Admission == SystemSpec => []AdmittedWithinStock
<1>1. ASSUME SystemInv, NEW t \in Ticket
      PROVE  available[t] + Cardinality(HeldUnits(t) \cup AdmittedUnits(t)) <= Stock[t]
  <2> DEFINE A == Units(sale, items, t)
             B == Units(TakenTwice, items, t)
             C == HeldUnits(t) \cup AdmittedUnits(t)
  <2>1. /\ IsFiniteSet(A) /\ IsFiniteSet(B)
        /\ Cardinality(A) \in Nat /\ Cardinality(B) \in Nat
    BY UnitsFinite
  <2>2. available[t] + Cardinality(A) + Cardinality(B) <= Stock[t]
    BY <1>1 DEF SystemInv, CoreInv, Ledger
  <2>3. available[t] \in Nat /\ Stock[t] \in Nat
    BY <1>1, SalesAssumption DEF SystemInv, CoreInv, TypeInv, TypeOK
  <2>4. C \subseteq A \cup B
    BY <1>1, InsideIsPaid
  <2> HIDE DEF A, B, C
  <2>5. /\ IsFiniteSet(A \cup B) /\ IsFiniteSet(A \cap B)
        /\ Cardinality(A \cup B) = Cardinality(A) + Cardinality(B) - Cardinality(A \cap B)
    BY <2>1, FS_Union, FS_Intersection, Zenon
  <2>6. Cardinality(A \cap B) \in Nat
    BY <2>5, FS_CardinalityType, Zenon
  <2>7. Cardinality(C) \in Nat /\ Cardinality(C) <= Cardinality(A \cup B)
    BY <2>4, <2>5, AtMost, Zenon
  <2>8. available[t] + Cardinality(C) <= Stock[t]
    BY <2>1, <2>2, <2>3, <2>5, <2>6, <2>7
  <2> QED
    BY <2>8 DEF C
<1>2. SystemInv => AdmittedWithinStock
  BY <1>1 DEF AdmittedWithinStock
<1> QED
  BY <1>2, SystemInvariant, PTL

-----------------------------------------------------------------------------
(* The refinement of TicketPromise.                                         *)

PaidUnits == [s \in Sale |-> IF Paid(s) THEN UnitsOf(s) ELSE {}]

LEMMA PromiseVars ==
  /\ (UNCHANGED <<PaidUnits, issued, admitted>>) => UNCHANGED Promise!vars
  /\ \A s \in Sale : \A units \in SUBSET {u \in Unit : u[1] = s} :
       /\ PaidUnits[s] = {}
       /\ PaidUnits' = [PaidUnits EXCEPT ![s] = units]
       /\ UNCHANGED <<issued, admitted>>
       => Promise!Next
  /\ \A s \in Sale :
       /\ PaidUnits[s] # {}
       /\ issued' = issued \cup PaidUnits[s]
       /\ UNCHANGED <<PaidUnits, admitted>>
       => Promise!Next
  /\ \A u \in Unit :
       /\ u \in issued /\ admitted[u] = 0
       /\ admitted' = [admitted EXCEPT ![u] = 1]
       /\ UNCHANGED <<PaidUnits, issued>>
       => Promise!Next
<1>1. (UNCHANGED <<PaidUnits, issued, admitted>>) => UNCHANGED Promise!vars
  BY DEF Promise!vars, PaidUnits, Paid
<1>2. ASSUME NEW s \in Sale, NEW units \in SUBSET {u \in Unit : u[1] = s},
             PaidUnits[s] = {},
             PaidUnits' = [PaidUnits EXCEPT ![s] = units],
             UNCHANGED <<issued, admitted>>
      PROVE  Promise!Next
  <2>1. Promise!Pay(s, units)
    BY <1>2 DEF Promise!Pay, PaidUnits, Paid
  <2> QED
    BY <2>1 DEF Promise!Next
<1>3. ASSUME NEW s \in Sale,
             PaidUnits[s] # {},
             issued' = issued \cup PaidUnits[s],
             UNCHANGED <<PaidUnits, admitted>>
      PROVE  Promise!Next
  <2>1. Promise!Issue(s)
    BY <1>3 DEF Promise!Issue, PaidUnits, Paid
  <2> QED
    BY <2>1 DEF Promise!Next
<1>4. ASSUME NEW u \in Unit,
             u \in issued, admitted[u] = 0,
             admitted' = [admitted EXCEPT ![u] = 1],
             UNCHANGED <<PaidUnits, issued>>
      PROVE  Promise!Next
  <2>1. Promise!Admit(u)
    BY <1>4 DEF Promise!Admit, PaidUnits, Paid
  <2> QED
    BY <2>1 DEF Promise!Next
<1> QED
  BY <1>1, <1>2, <1>3, <1>4

\* Only the first completion of a sale changes what was paid.
LEMMA SalesPay ==
  ASSUME CoreInv, [Next]_vars \/ OnlyFault, [SystemNext]_systemVars
  PROVE  \/ PaidUnits' = PaidUnits
         \/ \E s \in Sale : \E units \in SUBSET {u \in Unit : u[1] = s} :
              PaidUnits[s] = {} /\ PaidUnits' = [PaidUnits EXCEPT ![s] = units]
<1>1. TypeInv /\ TypeOK
  BY DEF CoreInv, TypeInv
<1>2. CASE UNCHANGED <<items, outbox>>
  BY <1>2 DEF PaidUnits, Paid, UnitsOf
<1>3. ASSUME NEW w \in Worker, PersistSale(w) PROVE PaidUnits' = PaidUnits
  <2>1. outbox' = outbox
    BY <1>3 DEF PersistSale
  <2>2. ASSUME NEW s \in Sale, Paid(s) PROVE UnitsOf(s)' = UnitsOf(s)
    <3>1. items'[s] = items[s]
      BY <2>2, RowsStay
    <3> QED
      BY <3>1 DEF UnitsOf
  <2> QED
    BY <2>1, <2>2 DEF PaidUnits, Paid
<1>4. ASSUME NEW s \in Sale, NEW p \in Provider, NEW status \in {"APPROVED", "FAILED"},
             ProcessPaymentTx(s, p, status)
      PROVE  \/ PaidUnits' = PaidUnits
             \/ \E units \in SUBSET {u \in Unit : u[1] = s} :
                  PaidUnits[s] = {} /\ PaidUnits' = [PaidUnits EXCEPT ![s] = units]
  <2>1. items' = items /\ \E e \in EventType : outbox' = [outbox EXCEPT ![s] = Append(@, e)]
    BY <1>1, <1>4, PaymentRows
  <2>2. \A x \in Sale : UnitsOf(x)' = UnitsOf(x)
    BY <2>1 DEF UnitsOf
  <2>3. \A x \in Sale \ {s} : Paid(x)' <=> Paid(x)
    BY <1>1, <2>1 DEF Paid, TypeOK
  <2>4. CASE Paid(s)' <=> Paid(s)
    BY <2>2, <2>3, <2>4 DEF PaidUnits
  <2>5. CASE ~Paid(s) /\ Paid(s)'
    <3>1. PaidUnits[s] = {} /\ UnitsOf(s) \in SUBSET {u \in Unit : u[1] = s}
      BY <2>5 DEF PaidUnits, UnitsOf
    <3>2. PaidUnits' = [PaidUnits EXCEPT ![s] = UnitsOf(s)]
      BY <2>2, <2>3, <2>5 DEF PaidUnits
    <3> QED
      BY <3>1, <3>2
  <2>6. Paid(s) => Paid(s)'
    BY RowsStay
  <2> QED
    BY <2>4, <2>5, <2>6
<1>5. CASE OnlyFault
  BY <1>2, <1>5 DEF OnlyFault, dbVars
<1>6. CASE [Next]_vars
  BY <1>2, <1>3, <1>4, <1>6, RowsAlone DEF ProcessPayment, ProcessPaymentWebhook
<1> QED
  BY <1>5, <1>6

LEMMA NextPromise ==
  SystemInv /\ [SystemNext]_systemVars => [Promise!Next]_(Promise!vars)
<1> SUFFICES ASSUME SystemInv, [SystemNext]_systemVars
             PROVE  [Promise!Next]_(Promise!vars)
  OBVIOUS
<1>1. /\ CoreInv /\ Announced /\ DoorInv
      /\ delivering \in [Worker -> Sale \cup {NoSale}]
  BY DEF SystemInv, SystemTypeOK, CoreInv
<1>2. CASE UNCHANGED <<issued, admitted>>
  <2>1. \/ PaidUnits' = PaidUnits
        \/ \E s \in Sale : \E units \in SUBSET {u \in Unit : u[1] = s} :
             PaidUnits[s] = {} /\ PaidUnits' = [PaidUnits EXCEPT ![s] = units]
    BY <1>1, SalesPay, StepOfSales
  <2> QED
    BY <1>2, <2>1, PromiseVars
<1>3. ASSUME NEW w \in Worker, IssueTickets(w), issued' # issued
      PROVE  Promise!Next
  <2> PICK s \in Sale : s = delivering[w]
    BY <1>1, <1>3 DEF IssueTickets
  <2>1. /\ sale[s] = "COMPLETED"
        /\ issued' = issued \cup UnitsOf(s)
        /\ UNCHANGED <<items, outbox, admitted>>
    BY <1>3 DEF IssueTickets, vars, dbVars, doorVars
  <2>2. PaidUnits[s] = UnitsOf(s) /\ PaidUnits' = PaidUnits
    BY <1>1, <2>1 DEF PaidUnits, Announced, Paid, UnitsOf
  <2>3. PaidUnits[s] # {}
    BY <1>3, <2>1, <2>2
  <2> QED
    BY <2>1, <2>2, <2>3, PromiseVars
<1>4. ASSUME NEW g \in Gate, CheckInTicket(g), admitted' # admitted
      PROVE  Promise!Next
  <2> DEFINE u == gate[g]
  <2>1. u \in issued /\ u \in Unit
    BY <1>1, <1>4 DEF CheckInTicket, DoorInv, SystemInv, SystemTypeOK
  <2>2. /\ admitted[u] = 0 /\ admitted' = [admitted EXCEPT ![u] = 1]
        /\ UNCHANGED <<items, outbox, issued>>
    BY <1>4 DEF CheckInTicket, CheckedIn, vars, dbVars
  <2>3. PaidUnits' = PaidUnits
    BY <2>2 DEF PaidUnits, Paid, UnitsOf
  <2> QED
    BY <2>1, <2>2, <2>3, PromiseVars
<1>5. ASSUME NEW w \in Worker, IssueTickets(w) PROVE admitted' = admitted
  BY <1>5 DEF IssueTickets, doorVars
<1>6. ASSUME NEW g \in Gate, CheckInTicket(g) PROVE issued' = issued
  BY <1>6 DEF CheckInTicket
<1>7. CASE ~ \/ \E w \in Worker : IssueTickets(w)
             \/ \E g \in Gate : CheckInTicket(g)
  BY <1>2, <1>7
     DEF SystemNext, WorkerSystemStep, RelayStep, GateStep, systemVars, afterVars, doorVars,
         DeliverCompleted, DeliveryFails, AnswerCompleted, LoseConnectionToo, CrashToo, Relay,
         ReadTicket
<1> QED
  BY <1>2, <1>3, <1>4, <1>5, <1>6, <1>7

\* However payments, redeliveries, reopened sales, announcements and gates
\* interleave: a payment settles for good which tickets a sale is worth, only
\* these are issued, and each of them admits once.
THEOREM Promised == SystemSpec => PromiseSpec
<1>1. SystemInit => Promise!Init
  BY DEF SystemInit, Promise!Init, Init, Contains
<1> QED
  BY <1>1, NextPromise, SystemInvariant, PTL DEF SystemSpec, PromiseSpec, Promise!Spec
=============================================================================
