--------------------------- MODULE DatabaseProofs ---------------------------
(***************************************************************************)
(* Two models of what the programs ask of PostgreSQL, first their row locks *)
(* (RowLocks), then the migration runner (Migrate).                         *)
(***************************************************************************)
EXTENDS RowLocks, Migrate, FiniteSetTheorems, FunctionTheorems, SequenceTheorems, TLAPS

(***************************************************************************)
(* RowLocks for any number of transactions, sales, customers, events and    *)
(* ticket types.  Every request of a transaction is judged by what the same  *)
(* transaction has locked before it:                                        *)
(*                                                                          *)
(*   LocksInvariant  LocksInv: requests come in the order that Fits allows,  *)
(*                   and locks that are held do not conflict                *)
(*   ReleaseGoesOn   ReleaseNeverWaits                                      *)
(*   SixDeadlocks    KnownDeadlocks: along what transactions wait for, a    *)
(*                   rank rises, unless they meet in one of the six ways     *)
(***************************************************************************)
Table ==
  {"customers", "sales", "sales_events", "tickets", "payments", "payment_intents",
   "email_notifications", "issued_tickets"}
Mode == {"update", "change", "key"}
Id ==
  Sale \cup {Event[s] : s \in Sale} \cup {Customer[s] : s \in Sale}
    \cup (UNION {ToSet(Lines[s]) : s \in Sale}) \cup (UNION {IssuedTickets(s) : s \in Sale})
LockType == [row : Table \X Id, mode : Mode]

Op == {"none", "Reserve", "Retry", "CheckIn", "Mark", "Clean"} \cup ForUpdate

LocksType == tx \in [Session -> [op : Op, todo : Seq(LockType), held : SUBSET LockType]]

\* The lock on the event of s that a transaction takes before it updates
\* ticket types.
EventLock(op, s) ==
  Lock("sales_events", Event[s], IF op = "Reserve" THEN "key" ELSE "update")

\* Nobody takes the strongest lock on a ticket type, and an UPDATE comes
\* after the lock of the event.
Covered(op, lock, before) ==
  lock.row[1] = "tickets" =>
    /\ lock.mode # "update"
    /\ lock.mode = "change" =>
         \E s \in Sale : lock.row[2] \in ToSet(Lines[s]) /\ EventLock(op, s) \in before

\* Which operations lock a row of a table, how, and after which row that they
\* keep others away by.
Backed(op, lock, before) ==
  /\ Covered(op, lock, before)
  /\ lock.row[1] = "customers" => op \in ForUpdate \cup {"Reserve"}
  /\ lock.row[1] = "sales_events" =>
       op \in ForUpdate \/ (op \in {"Reserve", "CheckIn"} /\ lock.mode = "key")
  /\ lock.row[1] = "payment_intents" =>
       op = "Webhook" \/ (op = "Intent" /\ Lock("sales", lock.row[2], "update") \in before)
  /\ lock.row[1] = "email_notifications" =>
       \/ op \in {"Mark", "Retry", "Clean"}
       \/ op = "Prepare" /\ Lock("sales", lock.row[2], "update") \in before
  /\ lock.row[1] = "issued_tickets" =>
       \/ op \in {"Mark", "CheckIn"}
       \/ /\ op = "Retry"
          /\ Lock("email_notifications", lock.row[2][1], "update") \in before

\* The order in which most transactions lock.
Position(table) ==
  CASE table = "payment_intents" -> 1
    [] table = "sales" -> 2
    [] table = "sales_events" -> 3
    [] table = "customers" -> 4
    [] table = "tickets" -> 5
    [] table = "payments" -> 6
    [] OTHER -> 7
Below(table, other) == Position(table) < Position(other)

On(tables, locks) == \A lock \in locks : lock.row[1] \in tables

Again(lock, before) == \E h \in before : h.row = lock.row /\ h.mode = "update"

\* A request for a row that is locked already, or in the order of the tables,
\* or by one of the operations that have an order of their own.
Climbs(op, lock, before) ==
  \/ before = {} \/ Again(lock, before)
  \/ /\ op \in ForUpdate
     /\ \A h \in before : \/ Below(h.row[1], lock.row[1])
                          \/ h.row[1] = "tickets" /\ lock.row[1] = "tickets"
  \/ op = "Intent" /\ lock.row[1] = "payment_intents"
  \/ /\ op = "Reserve" /\ lock.row[1] # "customers"
     /\ \A h \in before : \/ Below(h.row[1], lock.row[1])
                          \/ h.row[1] = "tickets" /\ lock.row[1] = "tickets"
                          \/ h.row[1] = "customers"
  \/ op = "CheckIn" /\ lock.row[1] = "sales_events" /\ On({"issued_tickets"}, before)
  \/ op = "Mark" /\ lock.row[1] = "issued_tickets" /\ On({"issued_tickets"}, before)
  \/ op = "Clean" /\ lock.row[1] = "email_notifications" /\ On({"email_notifications"}, before)
  \/ /\ op = "Retry" /\ lock.row[1] = "issued_tickets"
     /\ On({"email_notifications", "issued_tickets"}, before)

Fits(op, lock, before) == Backed(op, lock, before) /\ Climbs(op, lock, before)

Rows(table, ids, mode) == {Lock(table, id, mode) : id \in ids}

Earlier(todo, i) == {todo[j] : j \in 1 .. i - 1}
All(todo) == {todo[i] : i \in 1 .. Len(todo)}

\* A program each request of which fits, after the locks in before.
Planned(op, todo, before) ==
  \A i \in 1 .. Len(todo) : Fits(op, todo[i], before \cup Earlier(todo, i))

Orderly ==
  \A n \in Session :
    /\ \A lock \in tx[n].held : Backed(tx[n].op, lock, tx[n].held)
    /\ Planned(tx[n].op, tx[n].todo, tx[n].held)

\* PostgreSQL grants no two locks that conflict.
NoConflict ==
  \A n, m \in Session : \A lock \in tx[n].held, other \in tx[m].held :
    n # m /\ lock.row = other.row => ~Conflicting(lock.mode, other.mode)

LocksInv == LocksType /\ Orderly /\ NoConflict

-----------------------------------------------------------------------------
(* Programs.                                                                *)

LEMMA LockIs ==
  ASSUME NEW table \in Table, NEW id \in Id, NEW mode \in Mode
  PROVE  /\ Lock(table, id, mode) \in LockType
         /\ Lock(table, id, mode).row[1] = table
         /\ Lock(table, id, mode).row[2] = id
         /\ Lock(table, id, mode).mode = mode
BY DEF Lock, LockType

LEMMA Positions ==
  /\ Position("payment_intents") = 1 /\ Position("sales") = 2
  /\ Position("sales_events") = 3 /\ Position("customers") = 4
  /\ Position("tickets") = 5 /\ Position("payments") = 6
  /\ Position("email_notifications") = 7 /\ Position("issued_tickets") = 7
BY DEF Position

LEMMA SaleIds ==
  ASSUME NEW s \in Sale
  PROVE  /\ s \in Id /\ Event[s] \in Id /\ Customer[s] \in Id
         /\ ToSet(Lines[s]) \subseteq Id /\ IssuedTickets(s) \subseteq Id
BY DEF Id

\* What has been locked before stays so.
LEMMA MoreBacks ==
  ASSUME NEW op, NEW lock, NEW A, NEW B, A \subseteq B, Backed(op, lock, A)
  PROVE  Backed(op, lock, B)
BY DEF Backed, Covered

\* One program behind another.
LEMMA JoinAll ==
  ASSUME NEW p \in Seq(LockType), NEW q \in Seq(LockType)
  PROVE  All(p \o q) = All(p) \cup All(q)
<1>1. /\ p \o q \in Seq(LockType)
      /\ Len(p \o q) = Len(p) + Len(q) /\ Len(p) \in Nat /\ Len(q) \in Nat
      /\ \A i \in 1 .. Len(p) : (p \o q)[i] = p[i]
      /\ \A i \in 1 .. Len(q) : (p \o q)[Len(p) + i] = q[i]
  OBVIOUS
<1>2. ASSUME NEW i \in 1 .. Len(p \o q), i \notin 1 .. Len(p)
      PROVE  \E k \in 1 .. Len(q) : i = Len(p) + k /\ (p \o q)[i] = q[k]
  <2>1. i - Len(p) \in 1 .. Len(q) /\ i = Len(p) + (i - Len(p))
    BY <1>1, <1>2
  <2> QED
    BY <1>1, <2>1
<1>3. ASSUME NEW i \in 1 .. Len(p \o q) PROVE (p \o q)[i] \in All(p) \cup All(q)
  BY <1>1, <1>2 DEF All
<1>4. ASSUME NEW i \in 1 .. Len(p) PROVE p[i] \in All(p \o q)
  <2>1. i \in 1 .. Len(p \o q) /\ (p \o q)[i] = p[i]
    BY <1>1
  <2> QED
    BY <2>1 DEF All
<1>5. ASSUME NEW i \in 1 .. Len(q) PROVE q[i] \in All(p \o q)
  <2>1. Len(p) + i \in 1 .. Len(p \o q) /\ (p \o q)[Len(p) + i] = q[i]
    BY <1>1
  <2> QED
    BY <2>1 DEF All
<1> QED
  BY <1>3, <1>4, <1>5 DEF All

LEMMA Join ==
  ASSUME NEW op, NEW A, NEW p \in Seq(LockType), NEW q \in Seq(LockType),
         Planned(op, p, A), Planned(op, q, A \cup All(p))
  PROVE  p \o q \in Seq(LockType) /\ Planned(op, p \o q, A)
<1>1. /\ p \o q \in Seq(LockType)
      /\ Len(p \o q) = Len(p) + Len(q) /\ Len(p) \in Nat /\ Len(q) \in Nat
      /\ \A i \in 1 .. Len(p) : (p \o q)[i] = p[i]
      /\ \A i \in 1 .. Len(q) : (p \o q)[Len(p) + i] = q[i]
  OBVIOUS
<1>2. ASSUME NEW i \in 1 .. Len(p \o q), i \notin 1 .. Len(p)
      PROVE  \E k \in 1 .. Len(q) : i = Len(p) + k /\ (p \o q)[i] = q[k]
  <2>1. i - Len(p) \in 1 .. Len(q) /\ i = Len(p) + (i - Len(p))
    BY <1>1, <1>2
  <2> QED
    BY <1>1, <2>1
<1>3. ASSUME NEW i \in 1 .. Len(p \o q)
      PROVE  Fits(op, (p \o q)[i], A \cup Earlier(p \o q, i))
  <2>1. CASE i \in 1 .. Len(p)
    <3>1. Earlier(p \o q, i) = Earlier(p, i)
      BY <1>1, <2>1 DEF Earlier
    <3> QED
      BY <1>1, <2>1, <3>1 DEF Planned
  <2>2. CASE i \notin 1 .. Len(p)
    <3>1. PICK k \in 1 .. Len(q) : i = Len(p) + k /\ (p \o q)[i] = q[k]
      BY <1>2, <2>2
    <3>2. Earlier(p \o q, i) = All(p) \cup Earlier(q, k)
      <4>1. ASSUME NEW j \in 1 .. i - 1 PROVE (p \o q)[j] \in All(p) \cup Earlier(q, k)
        <5>1. CASE j \in 1 .. Len(p)
          BY <1>1, <5>1 DEF All
        <5>2. CASE j \notin 1 .. Len(p)
          <6>1. j \in 1 .. Len(p \o q)
            BY <1>1, <3>1
          <6>2. PICK l \in 1 .. Len(q) : j = Len(p) + l /\ (p \o q)[j] = q[l]
            BY <1>2, <5>2, <6>1
          <6>3. l \in 1 .. k - 1
            BY <1>1, <3>1, <6>2
          <6> QED
            BY <6>2, <6>3 DEF Earlier
        <5> QED
          BY <5>1, <5>2
      <4>2. ASSUME NEW j \in 1 .. Len(p) PROVE p[j] \in Earlier(p \o q, i)
        <5>1. j \in 1 .. i - 1 /\ (p \o q)[j] = p[j]
          BY <1>1, <3>1
        <5> QED
          BY <5>1 DEF Earlier
      <4>3. ASSUME NEW j \in 1 .. k - 1 PROVE q[j] \in Earlier(p \o q, i)
        <5>1. Len(p) + j \in 1 .. i - 1 /\ (p \o q)[Len(p) + j] = q[j]
          BY <1>1, <3>1
        <5> QED
          BY <5>1 DEF Earlier
      <4> QED
        BY <4>1, <4>2, <4>3 DEF Earlier, All
    <3>3. Fits(op, q[k], (A \cup All(p)) \cup Earlier(q, k))
      BY DEF Planned
    <3>4. (A \cup All(p)) \cup Earlier(q, k) = A \cup Earlier(p \o q, i)
      BY <3>2
    <3> QED
      BY <3>1, <3>3, <3>4
  <2> QED
    BY <2>1, <2>2
<1> QED
  BY <1>1, <1>3 DEF Planned

LEMMA Empty ==
  ASSUME NEW op, NEW A
  PROVE  << >> \in Seq(LockType) /\ Planned(op, << >>, A) /\ All(<< >>) = {}
BY DEF Planned, All

LEMMA One ==
  ASSUME NEW op, NEW A, NEW a \in LockType, Fits(op, a, A)
  PROVE  <<a>> \in Seq(LockType) /\ Planned(op, <<a>>, A) /\ All(<<a>>) = {a}
<1>1. <<a>> \in Seq(LockType) /\ Len(<<a>>) = 1 /\ <<a>>[1] = a
  OBVIOUS
<1>2. Earlier(<<a>>, 1) = {}
  BY DEF Earlier
<1>3. Fits(op, <<a>>[1], A \cup Earlier(<<a>>, 1))
  BY <1>1, <1>2
<1>4. \A i \in 1 .. Len(<<a>>) : i = 1
  BY <1>1
<1> QED
  BY <1>1, <1>3, <1>4 DEF Planned, All

LEMMA Two ==
  ASSUME NEW op, NEW A, NEW a \in LockType, NEW b \in LockType,
         Fits(op, a, A), Fits(op, b, A \cup {a})
  PROVE  <<a, b>> \in Seq(LockType) /\ Planned(op, <<a, b>>, A) /\ All(<<a, b>>) = {a, b}
<1>1. /\ <<a, b>> \in Seq(LockType) /\ Len(<<a, b>>) = 2
      /\ <<a, b>>[1] = a /\ <<a, b>>[2] = b
  OBVIOUS
<1> DEFINE p == <<a, b>>
<1>2. p[1] = a /\ p[2] = b /\ 1 .. Len(p) = {1, 2}
  BY <1>1
<1> HIDE DEF p
<1>3. Earlier(p, 1) = {} /\ Earlier(p, 2) = {a}
  <2>1. 1 .. 1 - 1 = {} /\ 1 .. 2 - 1 = {1}
    OBVIOUS
  <2> QED
    BY <1>2, <2>1 DEF Earlier
<1>4. Fits(op, p[1], A \cup Earlier(p, 1)) /\ Fits(op, p[2], A \cup Earlier(p, 2))
  <2>1. A \cup Earlier(p, 1) = A
    BY <1>3
  <2> QED
    BY <1>2, <1>3, <2>1
<1>5. Planned(op, p, A) /\ All(p) = {a, b}
  BY <1>2, <1>4 DEF Planned, All
<1> QED
  BY <1>1, <1>5 DEF p

LEMMA Three ==
  ASSUME NEW op, NEW A, NEW a \in LockType, NEW b \in LockType, NEW c \in LockType,
         Fits(op, a, A), Fits(op, b, A \cup {a}), Fits(op, c, A \cup {a, b})
  PROVE  /\ <<a, b, c>> \in Seq(LockType) /\ Planned(op, <<a, b, c>>, A)
         /\ All(<<a, b, c>>) = {a, b, c}
<1>1. /\ <<a, b, c>> \in Seq(LockType) /\ Len(<<a, b, c>>) = 3
      /\ <<a, b, c>>[1] = a /\ <<a, b, c>>[2] = b /\ <<a, b, c>>[3] = c
  OBVIOUS
<1> DEFINE p == <<a, b, c>>
<1>2. p[1] = a /\ p[2] = b /\ p[3] = c /\ 1 .. Len(p) = {1, 2, 3}
  BY <1>1
<1> HIDE DEF p
<1>3. Earlier(p, 1) = {} /\ Earlier(p, 2) = {a} /\ Earlier(p, 3) = {a, b}
  <2>1. 1 .. 1 - 1 = {} /\ 1 .. 2 - 1 = {1} /\ 1 .. 3 - 1 = {1, 2}
    OBVIOUS
  <2> QED
    BY <1>2, <2>1 DEF Earlier
<1>4. /\ Fits(op, p[1], A \cup Earlier(p, 1)) /\ Fits(op, p[2], A \cup Earlier(p, 2))
      /\ Fits(op, p[3], A \cup Earlier(p, 3))
  <2>1. A \cup Earlier(p, 1) = A
    BY <1>3
  <2> QED
    BY <1>2, <1>3, <2>1
<1>5. Planned(op, p, A) /\ All(p) = {a, b, c}
  BY <1>2, <1>4 DEF Planned, All
<1> QED
  BY <1>1, <1>5 DEF p

\* One or two requests behind a program.
LEMMA JoinOne ==
  ASSUME NEW op, NEW A, NEW p \in Seq(LockType), NEW a \in LockType,
         Planned(op, p, A), Fits(op, a, A \cup All(p))
  PROVE  p \o <<a>> \in Seq(LockType) /\ Planned(op, p \o <<a>>, A)
<1> DEFINE q == <<a>>
<1>1. q \in Seq(LockType) /\ Planned(op, q, A \cup All(p))
  BY One
<1> HIDE DEF q
<1>2. p \o q \in Seq(LockType) /\ Planned(op, p \o q, A)
  BY <1>1, Join
<1> QED
  BY <1>2 DEF q

LEMMA JoinTwo ==
  ASSUME NEW op, NEW A, NEW p \in Seq(LockType), NEW a \in LockType, NEW b \in LockType,
         Planned(op, p, A), Fits(op, a, A \cup All(p)), Fits(op, b, (A \cup All(p)) \cup {a})
  PROVE  p \o <<a, b>> \in Seq(LockType) /\ Planned(op, p \o <<a, b>>, A)
<1> DEFINE q == <<a, b>>
<1>1. q \in Seq(LockType) /\ Planned(op, q, A \cup All(p))
  BY Two
<1> HIDE DEF q
<1>2. p \o q \in Seq(LockType) /\ Planned(op, p \o q, A)
  BY <1>1, Join
<1> QED
  BY <1>2 DEF q

\* The rows of one table, in any order.
LEMMA LockSeq ==
  ASSUME NEW table \in Table, NEW ids \in SUBSET Id, NEW mode \in Mode,
         NEW order \in Seq(ids)
  PROVE  /\ [i \in DOMAIN order |-> Lock(table, order[i], mode)] \in Seq(LockType)
         /\ All([i \in DOMAIN order |-> Lock(table, order[i], mode)])
              \subseteq Rows(table, ids, mode)
<1> DEFINE seq == [i \in DOMAIN order |-> Lock(table, order[i], mode)]
<1>1. DOMAIN order = 1 .. Len(order) /\ Len(order) \in Nat
  OBVIOUS
<1>2. ASSUME NEW i \in 1 .. Len(order)
      PROVE  seq[i] \in LockType /\ seq[i] \in Rows(table, ids, mode)
  <2>1. order[i] \in ids /\ order[i] \in Id
    BY <1>2
  <2>2. seq[i] = Lock(table, order[i], mode)
    BY <1>1, <1>2
  <2> QED
    BY <2>1, <2>2, LockIs DEF Rows
<1>3. DOMAIN seq = 1 .. Len(order) /\ seq = [i \in 1 .. Len(order) |-> seq[i]]
  BY <1>1
<1> HIDE DEF seq
<1>4. seq \in Seq(LockType) /\ Len(seq) = Len(order)
  BY <1>1, <1>2, <1>3
<1>5. All(seq) \subseteq Rows(table, ids, mode)
  BY <1>2, <1>4 DEF All
<1> QED
  BY <1>4, <1>5 DEF seq

LEMMA Scan ==
  ASSUME NEW table \in Table, NEW ids \in SUBSET Id, NEW mode \in Mode,
         IsFiniteSet(ids), NEW p \in Scans(table, ids, mode)
  PROVE  p \in Seq(LockType) /\ All(p) \subseteq Rows(table, ids, mode)
<1>1. PICK order \in SetToSeqs(ids) :
        p = [i \in DOMAIN order |-> Lock(table, order[i], mode)]
  BY DEF Scans
<1>2. Cardinality(ids) \in Nat
  BY FS_CardinalityType, Zenon
<1>3. order \in Seq(ids)
  BY <1>2 DEF SetToSeqs
<1> QED
  BY <1>1, <1>3, LockSeq

LEMMA RowsAre ==
  ASSUME NEW table \in Table, NEW ids \in SUBSET Id, NEW mode \in Mode,
         NEW lock \in Rows(table, ids, mode)
  PROVE  /\ lock \in LockType /\ lock.row[1] = table /\ lock.row[2] \in ids
         /\ lock.mode = mode
BY LockIs DEF Rows

LEMMA LinesOfSale ==
  ASSUME NEW s \in Sale
  PROVE  /\ Lines[s] \in Seq(ToSet(Lines[s])) /\ IsFiniteSet(ToSet(Lines[s]))
         /\ IsFiniteSet(IssuedTickets(s))
<1>1. Lines[s] \in Seq(ToSet(Lines[s]))
  BY LocksAssumption
<1>2. /\ Lines[s] \in [1 .. Len(Lines[s]) -> ToSet(Lines[s])] /\ Len(Lines[s]) \in Nat
      /\ DOMAIN Lines[s] = 1 .. Len(Lines[s])
  BY <1>1
<1>3. IsFiniteSet(1 .. Len(Lines[s]))
  BY <1>2, FS_Interval
<1>4. Lines[s] \in Surjection(1 .. Len(Lines[s]), ToSet(Lines[s]))
  BY <1>2 DEF Surjection, ToSet
<1>5. IsFiniteSet(ToSet(Lines[s]))
  BY <1>3, <1>4, FS_Surjection, Zenon
<1> DEFINE ticket == [i \in 1 .. Len(Lines[s]) |-> <<s, i>>]
<1>6. ticket \in Surjection(1 .. Len(Lines[s]), IssuedTickets(s))
  BY <1>2 DEF Surjection, IssuedTickets
<1>7. IsFiniteSet(IssuedTickets(s))
  BY <1>3, <1>6, FS_Surjection, Zenon
<1> QED
  BY <1>1, <1>5, <1>7

LEMMA TicketsOfSales ==
  ASSUME NEW sent \in SUBSET Sale
  PROVE  /\ UNION {IssuedTickets(s) : s \in sent} \in SUBSET Id
         /\ IsFiniteSet(UNION {IssuedTickets(s) : s \in sent})
<1> DEFINE sets == {IssuedTickets(s) : s \in sent}
           tickets == [s \in sent |-> IssuedTickets(s)]
<1>1. IsFiniteSet(sent)
  BY LocksAssumption, FS_Subset
<1>2. tickets \in Surjection(sent, sets)
  BY DEF Surjection
<1>3. IsFiniteSet(sets)
  BY <1>1, <1>2, FS_Surjection, Zenon
<1>4. \A T \in sets : IsFiniteSet(T)
  BY LinesOfSale
<1> HIDE DEF sets
<1>5. IsFiniteSet(UNION sets)
  BY <1>3, <1>4, FS_UNION
<1>6. UNION {IssuedTickets(s) : s \in sent} \in SUBSET Id
  BY SaleIds
<1> QED
  BY <1>5, <1>6 DEF sets

\* Requests each of which fits after any of the others.
LEMMA Scanned ==
  ASSUME NEW op, NEW A, NEW S, NEW q \in Seq(LockType), All(q) \subseteq S,
         \A lock \in S : \A B \in SUBSET S : Fits(op, lock, A \cup B)
  PROVE  Planned(op, q, A)
<1>1. ASSUME NEW i \in 1 .. Len(q)
      PROVE  q[i] \in S /\ Earlier(q, i) \in SUBSET S
  <2>1. Len(q) \in Nat /\ \A j \in 1 .. i - 1 : j \in 1 .. Len(q)
    OBVIOUS
  <2> QED
    BY <2>1 DEF All, Earlier
<1> QED
  BY <1>1 DEF Planned

\* FOR UPDATE of the join.
LEMMA SaleForPaymentPlanned ==
  ASSUME NEW s \in Sale, NEW op \in ForUpdate, NEW A, On({"payment_intents"}, A)
  PROVE  /\ SaleForPayment(s) \in Seq(LockType) /\ Planned(op, SaleForPayment(s), A)
         /\ Lock("sales", s, "update") \in All(SaleForPayment(s))
         /\ EventLock(op, s) \in All(SaleForPayment(s))
         /\ On({"sales", "sales_events", "customers"}, All(SaleForPayment(s)))
<1> DEFINE a == Lock("sales", s, "update")
           b == Lock("sales_events", Event[s], "update")
           c == Lock("customers", Customer[s], "update")
<1>1. /\ a \in LockType /\ a.row[1] = "sales"
      /\ b \in LockType /\ b.row[1] = "sales_events"
      /\ c \in LockType /\ c.row[1] = "customers"
  BY LockIs, SaleIds DEF Table, Mode
<1>2. b = EventLock(op, s)
  BY DEF EventLock, ForUpdate
<1>3. SaleForPayment(s) = <<a, b, c>>
  BY DEF SaleForPayment
<1>4. a = Lock("sales", s, "update")
  OBVIOUS
<1> HIDE DEF a, b, c
<1>5. Fits(op, a, A)
  BY <1>1, Positions DEF Fits, Backed, Covered, Climbs, Below, On
<1>6. Fits(op, b, A \cup {a})
  BY <1>1, Positions DEF Fits, Backed, Covered, Climbs, Below, On
<1>7. Fits(op, c, A \cup {a, b})
  BY <1>1, Positions DEF Fits, Backed, Covered, Climbs, Below, On
<1>8. /\ <<a, b, c>> \in Seq(LockType) /\ Planned(op, <<a, b, c>>, A)
      /\ All(<<a, b, c>>) = {a, b, c}
  BY <1>1, <1>5, <1>6, <1>7, Three
<1>9. On({"sales", "sales_events", "customers"}, {a, b, c})
  BY <1>1 DEF On
<1> QED
  BY <1>2, <1>3, <1>4, <1>8, <1>9

\* Ticket types of a sale whose event has been locked.
LEMMA TicketsPlanned ==
  ASSUME NEW s \in Sale, NEW op \in ForUpdate \cup {"Reserve"}, NEW A,
         NEW mode \in {"change", "key"}, NEW q \in Seq(LockType),
         All(q) \subseteq Rows("tickets", ToSet(Lines[s]), mode),
         EventLock(op, s) \in A,
         On({"sales", "sales_events", "customers"}
              \cup (IF op = "Reserve" THEN {} ELSE {"payment_intents"}), A)
  PROVE  Planned(op, q, A)
<1> DEFINE S == Rows("tickets", ToSet(Lines[s]), mode)
<1>1. \A lock \in S :
        /\ lock.row[1] = "tickets" /\ lock.row[2] \in ToSet(Lines[s])
        /\ lock.mode \in {"change", "key"}
  BY RowsAre, SaleIds DEF Table, Mode
<1> HIDE DEF S
<1>2. ASSUME NEW lock \in S, NEW B \in SUBSET S PROVE Fits(op, lock, A \cup B)
  <2>1. Backed(op, lock, A \cup B)
    BY <1>1, <1>2 DEF Backed, Covered
  <2>2. ASSUME NEW h \in A \cup B
        PROVE  \/ Below(h.row[1], lock.row[1])
               \/ h.row[1] = "tickets" /\ lock.row[1] = "tickets"
    BY <1>1, <1>2, <2>2, Positions DEF On, Below
  <2>3. Climbs(op, lock, A \cup B)
    BY <1>1, <1>2, <2>2 DEF Climbs
  <2> QED
    BY <2>1, <2>3 DEF Fits
<1>3. All(q) \subseteq S
  BY DEF S
<1> QED
  BY <1>2, <1>3, Scanned

LEMMA ReservePlanned ==
  ASSUME NEW s \in Sale
  PROVE  Reserve(s) \in Seq(LockType) /\ Planned("Reserve", Reserve(s), {})
<1> DEFINE a == Lock("customers", Customer[s], "update")
           b == Lock("sales", s, "change")
           c == Lock("sales_events", Event[s], "key")
           d == Lock("payments", s, "change")
           first == <<a, b, c>>
           lines == [i \in DOMAIN Lines[s] |-> Lock("tickets", Lines[s][i], "change")]
           rest == <<d>>
<1>1. /\ a \in LockType /\ a.row[1] = "customers"
      /\ b \in LockType /\ b.row[1] = "sales"
      /\ c \in LockType /\ c.row[1] = "sales_events" /\ c.mode = "key"
      /\ c = EventLock("Reserve", s)
      /\ d \in LockType /\ d.row[1] = "payments"
  BY LockIs, SaleIds DEF Table, Mode, EventLock
<1>2. Reserve(s) = (first \o lines) \o rest
  BY DEF Reserve
<1>3. lines \in Seq(LockType) /\ All(lines) \subseteq Rows("tickets", ToSet(Lines[s]), "change")
  BY LockSeq, LinesOfSale, SaleIds DEF Table, Mode
<1>4. \A h \in Rows("tickets", ToSet(Lines[s]), "change") : h.row[1] = "tickets"
  BY RowsAre, SaleIds DEF Table, Mode
<1> HIDE DEF a, b, c, d, lines, rest
<1>5. Fits("Reserve", a, {})
  BY <1>1 DEF Fits, Backed, Covered, Climbs
<1>6. Fits("Reserve", b, {} \cup {a})
  BY <1>1 DEF Fits, Backed, Covered, Climbs
<1>7. Fits("Reserve", c, {} \cup {a, b})
  BY <1>1, Positions DEF Fits, Backed, Covered, Climbs, Below
<1>8. first \in Seq(LockType) /\ Planned("Reserve", first, {}) /\ All(first) = {a, b, c}
  BY <1>1, <1>5, <1>6, <1>7, Three
<1> HIDE DEF first
<1>9. Planned("Reserve", lines, {} \cup All(first))
  <2>1. On({"sales", "sales_events", "customers"} \cup {}, {} \cup All(first))
    BY <1>1, <1>8 DEF On
  <2>2. EventLock("Reserve", s) \in {} \cup All(first)
    BY <1>1, <1>8
  <2> QED
    BY <1>3, <2>1, <2>2, TicketsPlanned
<1>10. /\ first \o lines \in Seq(LockType) /\ Planned("Reserve", first \o lines, {})
       /\ All(first \o lines) = All(first) \cup All(lines)
  <2>1. /\ first \in Seq(LockType) /\ lines \in Seq(LockType)
        /\ Planned("Reserve", first, {}) /\ Planned("Reserve", lines, {} \cup All(first))
    BY <1>3, <1>8, <1>9
  <2>2. first \o lines \in Seq(LockType) /\ Planned("Reserve", first \o lines, {})
    BY <2>1, Join
  <2>3. All(first \o lines) = All(first) \cup All(lines)
    BY <2>1, JoinAll
  <2> QED
    BY <2>2, <2>3, Zenon
<1> DEFINE most == first \o lines
<1> HIDE DEF most
<1>11. Fits("Reserve", d, {} \cup All(most))
  <2>1. \A h \in All(most) : h.row[1] \in {"customers", "sales", "sales_events", "tickets"}
    BY <1>1, <1>3, <1>4, <1>8, <1>10 DEF most
  <2> QED
    BY <1>1, <2>1, Positions DEF Fits, Backed, Covered, Climbs, Below
<1>12. rest \in Seq(LockType) /\ Planned("Reserve", rest, {} \cup All(most))
  BY <1>1, <1>11, One DEF rest
<1>13. most \o rest \in Seq(LockType) /\ Planned("Reserve", most \o rest, {})
  <2>1. most \in Seq(LockType) /\ Planned("Reserve", most, {})
    BY <1>10 DEF most
  <2> QED
    BY <1>12, <2>1, Join
<1> QED
  BY <1>2, <1>13 DEF most

\* The join, and then ticket types of the sale.
LEMMA SaleAndTickets ==
  ASSUME NEW s \in Sale, NEW op \in ForUpdate, NEW A, On({"payment_intents"}, A),
         NEW mode \in {"change", "key"}, NEW q \in Seq(LockType),
         All(q) \subseteq Rows("tickets", ToSet(Lines[s]), mode)
  PROVE  /\ SaleForPayment(s) \o q \in Seq(LockType)
         /\ Planned(op, SaleForPayment(s) \o q, A)
         /\ Lock("sales", s, "update") \in All(SaleForPayment(s) \o q)
         /\ On({"sales", "sales_events", "customers", "tickets"}, All(SaleForPayment(s) \o q))
<1> DEFINE p == SaleForPayment(s)
<1>1. /\ p \in Seq(LockType) /\ Planned(op, p, A)
      /\ Lock("sales", s, "update") \in All(p) /\ EventLock(op, s) \in All(p)
      /\ On({"sales", "sales_events", "customers"}, All(p))
  BY SaleForPaymentPlanned
<1> HIDE DEF p
<1>2. Planned(op, q, A \cup All(p))
  <2>1. op # "Reserve"
    BY DEF ForUpdate
  <2>2. On({"sales", "sales_events", "customers"} \cup {"payment_intents"}, A \cup All(p))
    BY <1>1 DEF On
  <2>3. EventLock(op, s) \in A \cup All(p)
    BY <1>1
  <2> QED
    BY <2>1, <2>2, <2>3, TicketsPlanned
<1>3. p \o q \in Seq(LockType) /\ Planned(op, p \o q, A)
  BY <1>1, <1>2, Join
<1>4. All(p \o q) = All(p) \cup All(q)
  BY <1>1, JoinAll
<1>5. \A h \in Rows("tickets", ToSet(Lines[s]), mode) : h.row[1] = "tickets"
  BY RowsAre, SaleIds DEF Table, Mode
<1>6. /\ Lock("sales", s, "update") \in All(p \o q)
      /\ On({"sales", "sales_events", "customers", "tickets"}, All(p \o q))
  BY <1>1, <1>4, <1>5 DEF On
<1> QED
  BY <1>3, <1>6 DEF p

LEMMA PreparePlanned ==
  ASSUME NEW s \in Sale
  PROVE  Prepare(s) \in Seq(LockType) /\ Planned("Prepare", Prepare(s), {})
<1> DEFINE lines == [i \in DOMAIN Lines[s] |-> Lock("tickets", Lines[s][i], "key")]
           p == SaleForPayment(s) \o lines
           d == Lock("email_notifications", s, "change")
<1>1. d \in LockType /\ d.row[1] = "email_notifications" /\ d.row[2] = s
  BY LockIs, SaleIds DEF Table, Mode
<1>2. lines \in Seq(LockType) /\ All(lines) \subseteq Rows("tickets", ToSet(Lines[s]), "key")
  BY LockSeq, LinesOfSale, SaleIds DEF Table, Mode
<1>3. Prepare(s) = p \o <<d>>
  BY DEF Prepare, CompletedSale
<1> HIDE DEF lines, d
<1>4. /\ p \in Seq(LockType) /\ Planned("Prepare", p, {})
      /\ Lock("sales", s, "update") \in All(p)
      /\ On({"sales", "sales_events", "customers", "tickets"}, All(p))
  <2>1. On({"payment_intents"}, {}) /\ "Prepare" \in ForUpdate
    BY DEF On, ForUpdate
  <2> QED
    BY <1>2, <2>1, SaleAndTickets
<1> HIDE DEF p
<1>5. Fits("Prepare", d, {} \cup All(p))
  BY <1>1, <1>4, Positions DEF Fits, Backed, Covered, Climbs, Below, On, ForUpdate
<1>6. p \o <<d>> \in Seq(LockType) /\ Planned("Prepare", p \o <<d>>, {})
  BY <1>1, <1>4, <1>5, JoinOne
<1> QED
  BY <1>3, <1>6

LEMMA PaymentPlanned ==
  ASSUME NEW s \in Sale, NEW op \in {"Payment", "Webhook"}, NEW pay \in PaymentTx(s),
         NEW A, On({"payment_intents"}, A)
  PROVE  pay \in Seq(LockType) /\ Planned(op, pay, A)
<1> DEFINE a == Lock("payments", s, "change")
           b == Lock("sales", s, "change")
<1>1. PICK release \in {<<>>} \cup Scans("tickets", ToSet(Lines[s]), "change") :
        pay = (SaleForPayment(s) \o release) \o <<a, b>>
  BY DEF PaymentTx
<1>2. /\ a \in LockType /\ a.row[1] = "payments"
      /\ b \in LockType /\ b.row[1] = "sales" /\ b.row = Lock("sales", s, "update").row
      /\ Lock("sales", s, "update").mode = "update"
  BY LockIs, SaleIds DEF Table, Mode, Lock
<1>3. /\ release \in Seq(LockType)
      /\ All(release) \subseteq Rows("tickets", ToSet(Lines[s]), "change")
  <2>1. CASE release = <<>>
    BY <2>1, Empty
  <2>2. CASE release \in Scans("tickets", ToSet(Lines[s]), "change")
    BY <2>2, Scan, LinesOfSale, SaleIds DEF Table, Mode
  <2> QED
    BY <1>1, <2>1, <2>2
<1> DEFINE p == SaleForPayment(s) \o release
<1> HIDE DEF a, b
<1>4. /\ p \in Seq(LockType) /\ Planned(op, p, A)
      /\ Lock("sales", s, "update") \in All(p)
      /\ On({"sales", "sales_events", "customers", "tickets"}, All(p))
  BY <1>3, SaleAndTickets DEF ForUpdate
<1> HIDE DEF p
<1>5. Fits(op, a, A \cup All(p))
  BY <1>2, <1>4, Positions DEF Fits, Backed, Covered, Climbs, Below, On, ForUpdate
<1>6. Fits(op, b, (A \cup All(p)) \cup {a})
  <2>1. Again(b, (A \cup All(p)) \cup {a})
    BY <1>2, <1>4 DEF Again
  <2> QED
    BY <1>2, <2>1 DEF Fits, Backed, Covered, Climbs
<1>7. p \o <<a, b>> \in Seq(LockType) /\ Planned(op, p \o <<a, b>>, A)
  BY <1>2, <1>4, <1>5, <1>6, JoinTwo
<1> QED
  BY <1>1, <1>7 DEF p

LEMMA WebhookPlanned ==
  ASSUME NEW s \in Sale, NEW p \in Webhook(s)
  PROVE  p \in Seq(LockType) /\ Planned("Webhook", p, {})
<1> DEFINE a == Lock("payment_intents", s, "update")
           b == Lock("payment_intents", s, "change")
<1>1. PICK pay \in PaymentTx(s) : p = (<<a>> \o pay) \o <<b>>
  BY DEF Webhook
<1>2. /\ a \in LockType /\ a.row[1] = "payment_intents" /\ a.mode = "update"
      /\ b \in LockType /\ b.row[1] = "payment_intents" /\ b.row = a.row
  BY LockIs, SaleIds DEF Table, Mode, Lock
<1> HIDE DEF a, b
<1>3. Fits("Webhook", a, {})
  BY <1>2 DEF Fits, Backed, Covered, Climbs
<1> DEFINE first == <<a>>
<1>4. first \in Seq(LockType) /\ Planned("Webhook", first, {}) /\ All(first) = {a}
  BY <1>2, <1>3, One
<1> HIDE DEF first
<1>5. On({"payment_intents"}, {} \cup All(first))
  BY <1>2, <1>4 DEF On
<1>6. pay \in Seq(LockType) /\ Planned("Webhook", pay, {} \cup All(first))
  BY <1>5, PaymentPlanned
<1> DEFINE most == first \o pay
<1>7. most \in Seq(LockType) /\ Planned("Webhook", most, {}) /\ a \in All(most)
  <2>1. first \o pay \in Seq(LockType) /\ Planned("Webhook", first \o pay, {})
    BY <1>4, <1>6, Join
  <2>2. All(first \o pay) = All(first) \cup All(pay)
    BY <1>4, <1>6, JoinAll
  <2> QED
    BY <1>4, <2>1, <2>2
<1> HIDE DEF most
<1>8. Fits("Webhook", b, {} \cup All(most))
  <2>1. Again(b, {} \cup All(most))
    BY <1>2, <1>7 DEF Again
  <2> QED
    BY <1>2, <2>1 DEF Fits, Backed, Covered, Climbs
<1>9. most \o <<b>> \in Seq(LockType) /\ Planned("Webhook", most \o <<b>>, {})
  BY <1>2, <1>7, <1>8, JoinOne
<1> QED
  BY <1>1, <1>9 DEF most, first

LEMMA IntentPlanned ==
  ASSUME NEW s \in Sale
  PROVE  Intent(s) \in Seq(LockType) /\ Planned("Intent", Intent(s), {})
<1> DEFINE a == Lock("payment_intents", s, "change")
           b == Lock("payments", s, "change")
           p == SaleForPayment(s)
<1>1. /\ a \in LockType /\ a.row[1] = "payment_intents" /\ a.row[2] = s
      /\ b \in LockType /\ b.row[1] = "payments"
  BY LockIs, SaleIds DEF Table, Mode
<1>2. Intent(s) = p \o <<a, b>>
  BY DEF Intent
<1>3. /\ p \in Seq(LockType) /\ Planned("Intent", p, {})
      /\ Lock("sales", s, "update") \in All(p)
      /\ On({"sales", "sales_events", "customers"}, All(p))
  <2>1. On({"payment_intents"}, {}) /\ "Intent" \in ForUpdate
    BY DEF On, ForUpdate
  <2> QED
    BY <2>1, SaleForPaymentPlanned
<1> HIDE DEF a, b, p
<1>4. Fits("Intent", a, {} \cup All(p))
  BY <1>1, <1>3 DEF Fits, Backed, Covered, Climbs
<1>5. Fits("Intent", b, ({} \cup All(p)) \cup {a})
  BY <1>1, <1>3, Positions DEF Fits, Backed, Covered, Climbs, Below, On, ForUpdate
<1>6. p \o <<a, b>> \in Seq(LockType) /\ Planned("Intent", p \o <<a, b>>, {})
  BY <1>1, <1>3, <1>4, <1>5, JoinTwo
<1> QED
  BY <1>2, <1>6

LEMMA CheckInPlanned ==
  ASSUME NEW s \in Sale, NEW ticket \in IssuedTickets(s)
  PROVE  CheckIn(ticket) \in Seq(LockType) /\ Planned("CheckIn", CheckIn(ticket), {})
<1> DEFINE a == Lock("issued_tickets", ticket, "update")
           b == Lock("sales_events", Event[ticket[1]], "key")
<1>1. ticket \in Id /\ ticket[1] = s
  BY SaleIds DEF IssuedTickets
<1>2. /\ a \in LockType /\ a.row[1] = "issued_tickets"
      /\ b \in LockType /\ b.row[1] = "sales_events" /\ b.mode = "key"
  BY <1>1, LockIs, SaleIds DEF Table, Mode
<1>3. CheckIn(ticket) = <<a, b>>
  BY DEF CheckIn
<1> HIDE DEF a, b
<1>4. Fits("CheckIn", a, {})
  BY <1>2 DEF Fits, Backed, Covered, Climbs
<1>5. Fits("CheckIn", b, {} \cup {a})
  BY <1>2 DEF Fits, Backed, Covered, Climbs, On
<1>6. <<a, b>> \in Seq(LockType) /\ Planned("CheckIn", <<a, b>>, {})
  BY <1>2, <1>4, <1>5, Two
<1> QED
  BY <1>3, <1>6

\* Rows of one table only, by the operations that take them so.
LEMMA ScanPlanned ==
  ASSUME NEW op, NEW table, NEW ids \in SUBSET Id, NEW mode \in Mode, IsFiniteSet(ids),
         NEW p \in Scans(table, ids, mode),
         \/ op = "Mark" /\ table = "issued_tickets"
         \/ op = "Clean" /\ table = "email_notifications"
  PROVE  p \in Seq(LockType) /\ Planned(op, p, {})
<1> DEFINE S == Rows(table, ids, mode)
<1>1. p \in Seq(LockType) /\ All(p) \subseteq S
  BY Scan DEF Table
<1>2. \A lock \in S : lock.row[1] = table
  BY RowsAre DEF Table
<1> HIDE DEF S
<1>3. ASSUME NEW lock \in S, NEW B \in SUBSET S PROVE Fits(op, lock, {} \cup B)
  BY <1>2, <1>3 DEF Fits, Backed, Covered, Climbs, On
<1> QED
  BY <1>1, <1>3, Scanned

LEMMA MarkPlanned ==
  ASSUME NEW s \in Sale, NEW p \in Mark(s)
  PROVE  p \in Seq(LockType) /\ Planned("Mark", p, {})
<1>1. CASE p \in Scans("issued_tickets", IssuedTickets(s), "change")
  <2>1. IssuedTickets(s) \in SUBSET Id /\ IsFiniteSet(IssuedTickets(s)) /\ "change" \in Mode
    BY SaleIds, LinesOfSale DEF Mode
  <2> QED
    BY <1>1, <2>1, ScanPlanned
<1>2. CASE p = << Lock("email_notifications", s, "change") >>
  <2> DEFINE a == Lock("email_notifications", s, "change")
  <2>1. a \in LockType /\ a.row[1] = "email_notifications"
    BY LockIs, SaleIds DEF Table, Mode
  <2> HIDE DEF a
  <2>2. Fits("Mark", a, {})
    BY <2>1 DEF Fits, Backed, Covered, Climbs
  <2>3. <<a>> \in Seq(LockType) /\ Planned("Mark", <<a>>, {})
    BY <2>1, <2>2, One
  <2> QED
    BY <1>2, <2>3 DEF a
<1> QED
  BY <1>1, <1>2 DEF Mark

LEMMA CleanPlanned ==
  ASSUME NEW p \in Clean
  PROVE  p \in Seq(LockType) /\ Planned("Clean", p, {})
<1>1. PICK old \in SUBSET Sale : p \in Scans("email_notifications", old, "update")
  BY DEF Clean
<1>2. old \in SUBSET Id /\ IsFiniteSet(old) /\ "update" \in Mode
  BY SaleIds, LocksAssumption, FS_Subset DEF Mode
<1> QED
  BY <1>1, <1>2, ScanPlanned

\* The emails that a retrier has locked before it begins to send.
Batch(sales) == {Lock("email_notifications", s, "update") : s \in sales}

LEMMA RetryPlanned ==
  ASSUME NEW batch \in SUBSET Sale, NEW sent \in SUBSET batch, NEW p \in RetryMarks(sent)
  PROVE  p \in Seq(LockType) /\ Planned("Retry", p, Batch(batch))
<1> DEFINE ids == UNION {IssuedTickets(s) : s \in sent}
           S == Rows("issued_tickets", ids, "change")
<1>1. ids \in SUBSET Id /\ IsFiniteSet(ids)
  <2>1. sent \in SUBSET Sale
    OBVIOUS
  <2> QED
    BY <2>1, TicketsOfSales
<1>2. p \in Scans("issued_tickets", ids, "change")
  BY DEF RetryMarks
<1>3. \A id \in ids : id[1] \in batch
  BY DEF IssuedTickets
<1> HIDE DEF ids
<1>4. p \in Seq(LockType) /\ All(p) \subseteq S
  BY <1>1, <1>2, Scan DEF Table, Mode
<1>5. \A lock \in S : lock.row[1] = "issued_tickets" /\ lock.row[2] \in ids
  BY <1>1, RowsAre DEF Table, Mode
<1>6. \A lock \in Batch(batch) : lock.row[1] = "email_notifications"
  BY LockIs, SaleIds DEF Table, Mode, Batch
<1> HIDE DEF S
<1>7. ASSUME NEW lock \in S, NEW B \in SUBSET S PROVE Fits("Retry", lock, Batch(batch) \cup B)
  <2>1. Lock("email_notifications", lock.row[2][1], "update") \in Batch(batch) \cup B
    BY <1>3, <1>5, <1>7 DEF Batch
  <2>2. Backed("Retry", lock, Batch(batch) \cup B)
    BY <1>5, <1>7, <2>1 DEF Backed, Covered
  <2>3. Climbs("Retry", lock, Batch(batch) \cup B)
    BY <1>5, <1>6, <1>7 DEF Climbs, On
  <2> QED
    BY <2>2, <2>3 DEF Fits
<1>8. Planned("Retry", p, Batch(batch))
  BY <1>4, <1>7, Scanned
<1> QED
  BY <1>4, <1>8

LEMMA ProgramsPlanned ==
  ASSUME NEW prog \in Programs
  PROVE  /\ prog.op \in Op /\ prog.todo \in Seq(LockType)
         /\ Planned(prog.op, prog.todo, {})
<1> DEFINE alone(s) == {[op |-> "Reserve", todo |-> Reserve(s)],
                        [op |-> "Intent", todo |-> Intent(s)],
                        [op |-> "Prepare", todo |-> Prepare(s)]}
           payments(s) == {[op |-> "Payment", todo |-> p] : p \in PaymentTx(s)}
           webhooks(s) == {[op |-> "Webhook", todo |-> p] : p \in Webhook(s)}
           checkIns(s) == {[op |-> "CheckIn", todo |-> CheckIn(t)] : t \in IssuedTickets(s)}
           marks(s) == {[op |-> "Mark", todo |-> p] : p \in Mark(s)}
           cleans == {[op |-> "Clean", todo |-> p] : p \in Clean}
           Good(q) == /\ q.op \in Op /\ q.todo \in Seq(LockType)
                      /\ Planned(q.op, q.todo, {})
<1>1. ASSUME NEW s \in Sale, NEW q \in alone(s) PROVE Good(q)
  <2>1. "Reserve" \in Op /\ "Intent" \in Op /\ "Prepare" \in Op
    BY DEF Op, ForUpdate
  <2>2. CASE q = [op |-> "Reserve", todo |-> Reserve(s)]
    BY <2>1, <2>2, ReservePlanned
  <2>3. CASE q = [op |-> "Intent", todo |-> Intent(s)]
    BY <2>1, <2>3, IntentPlanned
  <2>4. CASE q = [op |-> "Prepare", todo |-> Prepare(s)]
    BY <2>1, <2>4, PreparePlanned
  <2> QED
    BY <1>1, <2>2, <2>3, <2>4
<1>2. ASSUME NEW s \in Sale, NEW q \in payments(s) PROVE Good(q)
  <2>1. PICK p \in PaymentTx(s) : q = [op |-> "Payment", todo |-> p]
    BY <1>2
  <2>2. On({"payment_intents"}, {}) /\ "Payment" \in Op
    BY DEF On, Op, ForUpdate
  <2>3. p \in Seq(LockType) /\ Planned("Payment", p, {})
    BY <2>2, PaymentPlanned
  <2> QED
    BY <2>1, <2>2, <2>3
<1>3. ASSUME NEW s \in Sale, NEW q \in webhooks(s) PROVE Good(q)
  <2>1. "Webhook" \in Op
    BY DEF Op, ForUpdate
  <2> QED
    BY <1>3, <2>1, WebhookPlanned
<1>4. ASSUME NEW s \in Sale, NEW q \in checkIns(s) PROVE Good(q)
  <2>1. "CheckIn" \in Op
    BY DEF Op
  <2> QED
    BY <1>4, <2>1, CheckInPlanned
<1>5. ASSUME NEW s \in Sale, NEW q \in marks(s) PROVE Good(q)
  <2>1. "Mark" \in Op
    BY DEF Op
  <2> QED
    BY <1>5, <2>1, MarkPlanned
<1>6. ASSUME NEW q \in cleans PROVE Good(q)
  <2>1. "Clean" \in Op
    BY DEF Op
  <2> QED
    BY <1>6, <2>1, CleanPlanned
<1>7. \/ prog \in cleans
      \/ \E s \in Sale : \/ prog \in alone(s) \/ prog \in payments(s) \/ prog \in webhooks(s)
                         \/ prog \in checkIns(s) \/ prog \in marks(s)
  BY Zenon DEF Programs
<1> HIDE DEF alone, payments, webhooks, checkIns, marks, cleans, Good
<1>8. Good(prog)
  BY <1>1, <1>2, <1>3, <1>4, <1>5, <1>6, <1>7, Zenon
<1> QED
  BY <1>8 DEF Good

-----------------------------------------------------------------------------
(* Steps.                                                                   *)

\* The request at the head of a program is granted.
LEMMA TakePlanned ==
  ASSUME NEW op, NEW todo \in Seq(LockType), todo # <<>>, NEW held \in SUBSET LockType,
         \A lock \in held : Backed(op, lock, held),
         Planned(op, todo, held)
  PROVE  /\ Head(todo) \in LockType /\ Tail(todo) \in Seq(LockType)
         /\ Fits(op, Head(todo), held)
         /\ \A lock \in held \cup {Head(todo)} : Backed(op, lock, held \cup {Head(todo)})
         /\ Planned(op, Tail(todo), held \cup {Head(todo)})
<1>1. /\ Head(todo) \in LockType /\ Tail(todo) \in Seq(LockType)
      /\ Len(todo) \in Nat /\ Len(todo) >= 1 /\ Len(Tail(todo)) = Len(todo) - 1
      /\ Head(todo) = todo[1]
      /\ \A i \in 1 .. Len(todo) - 1 : Tail(todo)[i] = todo[i + 1]
  OBVIOUS
<1>2. Fits(op, Head(todo), held)
  <2>1. held \cup Earlier(todo, 1) = held
    BY DEF Earlier
  <2>2. Fits(op, todo[1], held \cup Earlier(todo, 1))
    BY <1>1 DEF Planned
  <2> QED
    BY <1>1, <2>1, <2>2
<1>3. \A lock \in held \cup {Head(todo)} : Backed(op, lock, held \cup {Head(todo)})
  <2>1. held \subseteq held \cup {Head(todo)} /\ Backed(op, Head(todo), held)
    BY <1>2 DEF Fits
  <2> QED
    BY <2>1, MoreBacks
<1>4. ASSUME NEW i \in 1 .. Len(Tail(todo))
      PROVE  Fits(op, Tail(todo)[i], (held \cup {Head(todo)}) \cup Earlier(Tail(todo), i))
  <2>1. i + 1 \in 1 .. Len(todo) /\ Tail(todo)[i] = todo[i + 1]
    BY <1>1
  <2>2. Fits(op, todo[i + 1], held \cup Earlier(todo, i + 1))
    BY <2>1 DEF Planned
  <2>3. ASSUME NEW j \in 1 .. (i + 1) - 1
        PROVE  todo[j] \in {Head(todo)} \cup Earlier(Tail(todo), i)
    <3>1. CASE j = 1
      BY <1>1, <3>1
    <3>2. CASE j # 1
      <4>1. j - 1 \in 1 .. i - 1 /\ j - 1 \in 1 .. Len(todo) - 1 /\ (j - 1) + 1 = j
        BY <1>1, <3>2
      <4>2. Tail(todo)[j - 1] = todo[j]
        BY <1>1, <4>1
      <4> QED
        BY <4>1, <4>2 DEF Earlier
    <3> QED
      BY <3>1, <3>2
  <2>4. Head(todo) \in Earlier(todo, i + 1)
    <3>1. 1 \in 1 .. (i + 1) - 1
      BY <1>1
    <3> QED
      BY <1>1, <3>1 DEF Earlier
  <2>5. ASSUME NEW j \in 1 .. i - 1 PROVE Tail(todo)[j] \in Earlier(todo, i + 1)
    <3>1. j + 1 \in 1 .. (i + 1) - 1 /\ Tail(todo)[j] = todo[j + 1]
      BY <1>1
    <3> QED
      BY <3>1 DEF Earlier
  <2>6. Earlier(todo, i + 1) = {Head(todo)} \cup Earlier(Tail(todo), i)
    BY <2>3, <2>4, <2>5 DEF Earlier
  <2>7. held \cup Earlier(todo, i + 1) = (held \cup {Head(todo)}) \cup Earlier(Tail(todo), i)
    BY <2>6
  <2> QED
    BY <2>1, <2>2, <2>7
<1>5. Planned(op, Tail(todo), held \cup {Head(todo)})
  BY <1>4 DEF Planned
<1> QED
  BY <1>1, <1>2, <1>3, <1>5

SessionInv(op, todo, held) ==
  /\ op \in Op /\ todo \in Seq(LockType) /\ held \in SUBSET LockType
  /\ \A lock \in held : Backed(op, lock, held)
  /\ Planned(op, todo, held)

\* A step of one session, which keeps its order and conflicts with nobody.
LEMMA SessionStep ==
  ASSUME LocksInv, LocksType', NEW n \in Session,
         \A m \in Session : m # n => tx'[m] = tx[m],
         SessionInv(tx'[n].op, tx'[n].todo, tx'[n].held),
         \A m \in Session \ {n} : \A lock \in tx'[n].held, other \in tx[m].held :
           lock.row = other.row => ~Conflicting(other.mode, lock.mode)
  PROVE  LocksInv'
<1>1. Orderly'
  <2> SUFFICES ASSUME NEW m \in Session
               PROVE  /\ \A lock \in tx'[m].held : Backed(tx'[m].op, lock, tx'[m].held)
                      /\ Planned(tx'[m].op, tx'[m].todo, tx'[m].held)
    BY DEF Orderly
  <2>1. CASE m = n
    BY <2>1 DEF SessionInv
  <2>2. CASE m # n
    BY <2>2 DEF LocksInv, Orderly
  <2> QED
    BY <2>1, <2>2
<1>2. NoConflict'
  <2> SUFFICES ASSUME NEW m \in Session, NEW k \in Session, m # k,
                      NEW lock \in tx'[m].held, NEW other \in tx'[k].held,
                      lock.row = other.row
               PROVE  ~Conflicting(lock.mode, other.mode)
    BY DEF NoConflict
  <2>1. CASE m = n
    BY <2>1 DEF Conflicting
  <2>2. CASE k = n
    BY <2>2
  <2>3. CASE m # n /\ k # n
    BY <2>3 DEF LocksInv, NoConflict
  <2> QED
    BY <2>1, <2>2, <2>3
<1> QED
  BY <1>1, <1>2 DEF LocksInv

\* The same, for a step that writes the whole record.
LEMMA SessionSet ==
  ASSUME LocksInv, NEW n \in Session, NEW op, NEW todo, NEW held,
         tx' = [tx EXCEPT ![n] = [op |-> op, todo |-> todo, held |-> held]],
         SessionInv(op, todo, held),
         \A m \in Session \ {n} : \A lock \in held, other \in tx[m].held :
           lock.row = other.row => ~Conflicting(other.mode, lock.mode)
  PROVE  LocksInv'
<1>1. /\ tx'[n].op = op /\ tx'[n].todo = todo /\ tx'[n].held = held
      /\ \A m \in Session : m # n => tx'[m] = tx[m]
  BY DEF LocksInv, LocksType
<1>2. LocksType'
  BY DEF LocksInv, LocksType, SessionInv
<1> QED
  BY <1>1, <1>2, SessionStep

LEMMA BeginInv ==
  ASSUME LocksInv, NEW n \in Session, Begin(n)
  PROVE  LocksInv'
<1>1. PICK p \in Programs : tx' = [tx EXCEPT ![n] = [op |-> p.op, todo |-> p.todo, held |-> {}]]
  BY DEF Begin
<1>2. SessionInv(p.op, p.todo, {})
  BY ProgramsPlanned DEF SessionInv
<1> DEFINE op == p.op
           todo == p.todo
           held == {}
<1>3. \A m \in Session \ {n} : \A lock \in held, other \in tx[m].held :
        lock.row = other.row => ~Conflicting(other.mode, lock.mode)
  OBVIOUS
<1>4. tx' = [tx EXCEPT ![n] = [op |-> op, todo |-> todo, held |-> held]]
  BY <1>1
<1>5. SessionInv(op, todo, held)
  BY <1>2
<1> HIDE DEF op, todo, held
<1> QED
  BY <1>3, <1>4, <1>5, SessionSet

LEMMA BeginRetryInv ==
  ASSUME LocksInv, NEW n \in Session, BeginRetry(n)
  PROVE  LocksInv'
<1>1. PICK batch \in SUBSET {s \in Sale : Free(n, Lock("email_notifications", s, "update"))} :
        \E todo \in UNION {RetryMarks(sent) : sent \in SUBSET batch} :
          tx' = [tx EXCEPT ![n] = [op |-> "Retry", todo |-> todo, held |-> Batch(batch)]]
  BY DEF BeginRetry, Batch
<1>2. PICK sent \in SUBSET batch :
        \E todo \in RetryMarks(sent) :
          tx' = [tx EXCEPT ![n] = [op |-> "Retry", todo |-> todo, held |-> Batch(batch)]]
  BY <1>1
<1>3. PICK todo \in RetryMarks(sent) :
        tx' = [tx EXCEPT ![n] = [op |-> "Retry", todo |-> todo, held |-> Batch(batch)]]
  BY <1>2
<1>4. todo \in Seq(LockType) /\ Planned("Retry", todo, Batch(batch))
  BY RetryPlanned
<1>5. \A lock \in Batch(batch) : lock \in LockType /\ Backed("Retry", lock, Batch(batch))
  <2> SUFFICES ASSUME NEW s \in batch
               PROVE  /\ Lock("email_notifications", s, "update") \in LockType
                      /\ Backed("Retry", Lock("email_notifications", s, "update"), Batch(batch))
    BY DEF Batch
  <2> DEFINE lock == Lock("email_notifications", s, "update")
  <2>1. lock \in LockType /\ lock.row[1] = "email_notifications"
    BY LockIs, SaleIds DEF Table, Mode
  <2> HIDE DEF lock
  <2>2. Backed("Retry", lock, Batch(batch))
    BY <2>1 DEF Backed, Covered
  <2> QED
    BY <2>1, <2>2 DEF lock
<1>6. \A m \in Session \ {n} : \A lock \in Batch(batch), other \in tx[m].held :
        lock.row = other.row => ~Conflicting(other.mode, lock.mode)
  BY DEF Free, Batch
<1>7. SessionInv("Retry", todo, Batch(batch))
  BY <1>4, <1>5 DEF SessionInv, Op
<1> QED
  BY <1>3, <1>6, <1>7, SessionSet

LEMMA TakeInv ==
  ASSUME LocksInv, NEW n \in Session, Take(n)
  PROVE  LocksInv'
<1>1. PICK op \in Op, todo \in Seq(LockType), held \in SUBSET LockType :
        tx[n] = [op |-> op, todo |-> todo, held |-> held]
  BY DEF LocksInv, LocksType
<1>2. tx[n].op = op /\ tx[n].todo = todo /\ tx[n].held = held
  BY <1>1
<1>3. /\ \A lock \in held : Backed(op, lock, held)
      /\ Planned(op, todo, held)
  BY <1>2 DEF LocksInv, Orderly
<1>4. todo # <<>> /\ Free(n, Head(todo))
  BY <1>2 DEF Take
<1>5. /\ LocksType'
      /\ tx'[n].op = op /\ tx'[n].todo = Tail(todo) /\ tx'[n].held = held \cup {Head(todo)}
      /\ \A m \in Session : m # n => tx'[m] = tx[m]
  <2>1. Head(todo) \in LockType /\ Tail(todo) \in Seq(LockType)
    BY <1>4
  <2>2. tx' = [tx EXCEPT ![n].todo = Tail(todo), ![n].held = held \cup {Head(todo)}]
    BY <1>2 DEF Take
  <2> QED
    BY <1>2, <2>1, <2>2 DEF LocksInv, LocksType
<1>6. SessionInv(op, Tail(todo), held \cup {Head(todo)})
  <2>1. Head(todo) \in LockType /\ Tail(todo) \in Seq(LockType)
    BY <1>4
  <2> QED
    BY <1>3, <1>4, <2>1, TakePlanned DEF SessionInv
<1>7. \A m \in Session \ {n} : \A lock \in held \cup {Head(todo)}, other \in tx[m].held :
        lock.row = other.row => ~Conflicting(other.mode, lock.mode)
  <2> SUFFICES ASSUME NEW m \in Session \ {n}, NEW lock \in held \cup {Head(todo)},
                      NEW other \in tx[m].held, lock.row = other.row
               PROVE  ~Conflicting(other.mode, lock.mode)
    OBVIOUS
  <2>1. CASE lock \in held
    BY <1>2, <2>1 DEF LocksInv, NoConflict
  <2>2. CASE lock = Head(todo)
    BY <1>4, <2>2 DEF Free
  <2> QED
    BY <2>1, <2>2
<1> QED
  BY <1>5, <1>6, <1>7, SessionStep

LEMMA EndInv ==
  ASSUME LocksInv, NEW n \in Session, End(n)
  PROVE  LocksInv'
<1>1. SessionInv("none", <<>>, {})
  BY Empty DEF SessionInv, Op
<1> QED
  BY <1>1, SessionSet DEF End, Idle

\* No two transactions hold locks that conflict, and each has asked, and will
\* ask, for every lock after those that LocksInv says it needs before it: an
\* UPDATE of ticket types after the lock of their event, the intent or the email
\* of a sale after the sale, issued tickets after the email of their sale when
\* many are marked.  (Every transaction of the service.)
THEOREM LocksInvariant == LocksSpec => []LocksInv
<1>1. LocksInit => LocksInv
  <2> SUFFICES ASSUME LocksInit PROVE LocksInv
    OBVIOUS
  <2>1. \A n \in Session : tx[n].op = "none" /\ tx[n].todo = <<>> /\ tx[n].held = {}
    BY DEF LocksInit, Idle
  <2>2. LocksType
    BY DEF LocksInit, LocksType, Idle, Op
  <2> QED
    BY <2>1, <2>2, Empty DEF LocksInv, Orderly, NoConflict
<1>2. LocksInv /\ [LocksNext]_tx => LocksInv'
  <2> SUFFICES ASSUME LocksInv, [LocksNext]_tx PROVE LocksInv'
    OBVIOUS
  <2>1. CASE UNCHANGED tx
    BY <2>1 DEF LocksInv, LocksType, Orderly, NoConflict
  <2> QED
    BY <2>1, BeginInv, BeginRetryInv, TakeInv, EndInv DEF LocksNext
<1> QED
  BY <1>1, <1>2, PTL DEF LocksSpec

-----------------------------------------------------------------------------
(* Waiting.                                                                 *)

Wanted(n) == Head(tx[n].todo)

LEMMA WantedFits ==
  ASSUME LocksInv, NEW n \in Session, tx[n].todo # <<>>
  PROVE  /\ tx[n].op \in Op /\ Wanted(n) \in LockType
         /\ Backed(tx[n].op, Wanted(n), tx[n].held)
         /\ Climbs(tx[n].op, Wanted(n), tx[n].held)
<1>1. PICK op \in Op, todo \in Seq(LockType), held \in SUBSET LockType :
        tx[n] = [op |-> op, todo |-> todo, held |-> held]
  BY DEF LocksInv, LocksType
<1>2. tx[n].op = op /\ tx[n].todo = todo /\ tx[n].held = held
  BY <1>1
<1>3. (\A lock \in held : Backed(op, lock, held)) /\ Planned(op, todo, held)
  BY <1>2 DEF LocksInv, Orderly
<1>4. todo # <<>>
  BY <1>2
<1>5. Head(todo) \in LockType /\ Fits(op, Head(todo), held)
  BY <1>3, <1>4, TakePlanned
<1> QED
  BY <1>2, <1>5 DEF Wanted, Fits

LEMMA HeldBacked ==
  ASSUME LocksInv, NEW n \in Session, NEW h \in tx[n].held
  PROVE  h \in LockType /\ Backed(tx[n].op, h, tx[n].held)
BY DEF LocksInv, LocksType, Orderly

\* No row is updated by two.
LEMMA OneUpdates ==
  ASSUME LocksInv, NEW n \in Session, NEW m \in Session, n # m,
         NEW h \in tx[n].held, NEW g \in tx[m].held, h.row = g.row, h.mode = "update"
  PROVE  FALSE
BY DEF LocksInv, NoConflict, Conflicting

\* What there is to say of a transaction that waits for another one.
LEMMA Waiting ==
  ASSUME LocksInv, NEW n \in Session, NEW m \in Session, WaitsFor(n, m)
  PROVE  /\ n # m /\ tx[n].op \in Op /\ Wanted(n) \in LockType
         /\ Backed(tx[n].op, Wanted(n), tx[n].held)
         /\ Climbs(tx[n].op, Wanted(n), tx[n].held)
         /\ ~Again(Wanted(n), tx[n].held)
         /\ \E h \in tx[m].held :
              /\ h \in LockType /\ Backed(tx[m].op, h, tx[m].held)
              /\ h.row = Wanted(n).row /\ Conflicting(h.mode, Wanted(n).mode)
<1>1. n # m /\ tx[n].todo # <<>>
  BY DEF WaitsFor
<1>2. PICK h \in tx[m].held : h.row = Wanted(n).row /\ Conflicting(h.mode, Wanted(n).mode)
  BY DEF WaitsFor, Wanted
<1>3. ~Again(Wanted(n), tx[n].held)
  <2> SUFFICES ASSUME NEW g \in tx[n].held, g.row = Wanted(n).row, g.mode = "update"
               PROVE  FALSE
    BY DEF Again
  <2> QED
    BY <1>1, <1>2, OneUpdates
<1> QED
  BY <1>1, <1>2, <1>3, WantedFits, HeldBacked

\* Only reservations wait for each other at a ticket type.
LEMMA TicketsConflict ==
  ASSUME LocksInv, NEW n \in Session, NEW m \in Session, n # m, tx[n].todo # <<>>,
         NEW h \in tx[m].held, h.row = Wanted(n).row, Conflicting(h.mode, Wanted(n).mode),
         h.row[1] = "tickets"
  PROVE  tx[n].op = "Reserve" /\ tx[m].op = "Reserve"
<1> DEFINE lock == Wanted(n)
<1>1. lock \in LockType /\ Covered(tx[n].op, lock, tx[n].held)
  BY WantedFits DEF Backed
<1>2. h \in LockType /\ Covered(tx[m].op, h, tx[m].held)
  BY HeldBacked DEF Backed
<1>3. h.row = lock.row /\ Conflicting(h.mode, lock.mode)
  OBVIOUS
<1> HIDE DEF lock
<1>4. h.mode = "change" /\ lock.mode = "change"
  BY <1>1, <1>2, <1>3 DEF Covered, Conflicting
<1>5. PICK s \in Sale : lock.row[2] \in ToSet(Lines[s]) /\ EventLock(tx[n].op, s) \in tx[n].held
  BY <1>1, <1>3, <1>4 DEF Covered
<1>6. PICK r \in Sale : h.row[2] \in ToSet(Lines[r]) /\ EventLock(tx[m].op, r) \in tx[m].held
  BY <1>2, <1>4 DEF Covered
<1>7. Event[s] = Event[r]
  BY <1>3, <1>5, <1>6, LocksAssumption
<1>8. EventLock(tx[n].op, s).row = EventLock(tx[m].op, r).row
  BY <1>7 DEF EventLock, Lock
<1>9. EventLock(tx[n].op, s).mode # "update" /\ EventLock(tx[m].op, r).mode # "update"
  BY <1>5, <1>6, <1>8, OneUpdates
<1> QED
  BY <1>9 DEF EventLock, Lock

\* Tickets are given back in no particular order, by any number of transactions
\* at a time, and the one that gives them back never waits for a ticket type:
\* those who could hold it need the event as well, which its FOR UPDATE keeps.
\* (releaseReservedTickets, after getSaleForPayment.)
THEOREM ReleaseGoesOn == LocksSpec => []ReleaseNeverWaits
<1>1. ASSUME LocksInv PROVE ReleaseNeverWaits
  <2> SUFFICES ASSUME NEW n \in Session,
                      tx[n].op \in {"Payment", "Webhook"}, tx[n].todo # <<>>,
                      Head(tx[n].todo).row[1] = "tickets",
                      NEW m \in Session \ {n}, NEW h \in tx[m].held,
                      h.row = Head(tx[n].todo).row,
                      Conflicting(h.mode, Head(tx[n].todo).mode)
               PROVE  FALSE
    BY DEF ReleaseNeverWaits, Free
  <2>1. tx[n].op = "Reserve"
    BY <1>1, TicketsConflict DEF Wanted
  <2> QED
    BY <2>1
<1> QED
  BY <1>1, LocksInvariant, PTL

-----------------------------------------------------------------------------
(* Deadlocks.                                                               *)

\* The ways in which two transactions deadlock.
Pairwise(D) ==
  \/ Meets(D, ForUpdate, "customers", {"Reserve"})
  \/ Meets(D, {"Reserve"}, "tickets", {"Reserve"})
  \/ Meets(D, {"Intent"}, "payment_intents", {"Webhook"})
  \/ Meets(D, {"Mark"}, "issued_tickets", {"Mark", "Retry"})
  \/ Meets(D, {"Clean"}, "email_notifications", {"Clean"})

\* The three that it takes to close a circle by way of the emails.
WantsEmail(D) == Meets(D, {"Prepare"}, "email_notifications", {"Retry", "Clean"})
WantsTicket(D) == Meets(D, {"Retry", "Mark"}, "issued_tickets", {"CheckIn"})
WantsEvent(D) == Meets(D, {"CheckIn"}, "sales_events", ForUpdate)

\* Where in the order a transaction waits.  Emails and issued tickets come at
\* the places given: where the circle is known to be open.
Place(op, table, email, ticket) ==
  CASE table = "email_notifications" -> IF op = "Prepare" THEN email ELSE email + 1
    [] table = "issued_tickets" -> IF op = "Retry" THEN ticket ELSE ticket + 1
    [] OTHER -> Position(table) + 4

\* Who holds nothing keeps nobody waiting.
Rank(n, email, ticket) ==
  IF tx[n].held = {} THEN 0 ELSE Place(tx[n].op, Wanted(n).row[1], email, ticket)

LEMMA Places ==
  ASSUME NEW op, NEW email \in Nat, NEW ticket \in Nat
  PROVE  /\ Place("Prepare", "email_notifications", email, ticket) = email
         /\ op # "Prepare" => Place(op, "email_notifications", email, ticket) = email + 1
         /\ Place("Retry", "issued_tickets", email, ticket) = ticket
         /\ op # "Retry" => Place(op, "issued_tickets", email, ticket) = ticket + 1
         /\ Place(op, "payment_intents", email, ticket) = 5
         /\ Place(op, "sales", email, ticket) = 6
         /\ Place(op, "sales_events", email, ticket) = 7
         /\ Place(op, "customers", email, ticket) = 8
         /\ Place(op, "tickets", email, ticket) = 9
         /\ Place(op, "payments", email, ticket) = 10
BY Positions DEF Place

LEMMA Unmet ==
  ASSUME NEW D, NEW ops, NEW table, NEW holders, ~Meets(D, ops, table, holders),
         NEW n \in D, NEW m \in D, WaitsFor(n, m), tx[n].op \in ops,
         Wanted(n).row[1] = table
  PROVE  tx[m].op \notin holders
BY DEF Meets, Wanted

\* Who waits for an issued ticket, or for an email, while it holds something.
LEMMA AtTickets ==
  ASSUME LocksInv, NEW n \in Session, NEW m \in Session, WaitsFor(n, m),
         tx[n].held # {}, Wanted(n).row[1] = "issued_tickets"
  PROVE  tx[n].op \in {"Mark", "Retry"}
BY Waiting, Positions DEF Backed, Climbs, Below, ForUpdate

LEMMA AtEmails ==
  ASSUME LocksInv, NEW n \in Session, NEW m \in Session, WaitsFor(n, m),
         tx[n].held # {}, Wanted(n).row[1] = "email_notifications"
  PROVE  /\ tx[n].op \in {"Prepare", "Clean"}
         /\ tx[n].op = "Prepare" => Lock("sales", Wanted(n).row[2], "update") \in tx[n].held
BY Waiting, Positions DEF Backed, Climbs, Below, ForUpdate

LEMMA AtCustomers ==
  ASSUME LocksInv, NEW n \in Session, NEW m \in Session, WaitsFor(n, m),
         tx[n].held # {}, Wanted(n).row[1] = "customers"
  PROVE  tx[n].op \in ForUpdate
BY Waiting DEF Backed, Climbs, ForUpdate

\* Whom a delivery meets at the email of its sale: another delivery of the sale
\* would hold the sale, and who marks the email waits for nothing more.
LEMMA EmailHolder ==
  ASSUME LocksInv, NEW n \in Session, NEW m \in Session, NEW k \in Session,
         WaitsFor(n, m), WaitsFor(m, k), tx[n].op = "Prepare",
         Wanted(n).row[1] = "email_notifications"
  PROVE  tx[m].op \in {"Retry", "Clean"}
<1>1. PICK h \in tx[m].held :
        h \in LockType /\ Backed(tx[m].op, h, tx[m].held) /\ h.row = Wanted(n).row
  BY Waiting
<1>2. \/ tx[m].op \in {"Mark", "Retry", "Clean"}
      \/ tx[m].op = "Prepare" /\ Lock("sales", h.row[2], "update") \in tx[m].held
  BY <1>1 DEF Backed
<1>3. tx[m].op # "Mark"
  BY <1>1, Waiting DEF Climbs, On, ForUpdate
<1>4. ASSUME Lock("sales", h.row[2], "update") \in tx[m].held PROVE FALSE
  <2>1. Lock("sales", h.row[2], "update") \in tx[n].held
    BY <1>1, Waiting DEF Backed
  <2>2. n # m /\ Lock("sales", h.row[2], "update").mode = "update"
    BY Waiting DEF Lock
  <2> QED
    BY <1>4, <2>1, <2>2, OneUpdates
<1> QED
  BY <1>2, <1>3, <1>4

\* What a transaction waits for, and the rank that it has.
LEMMA TableOf ==
  ASSUME NEW lock \in LockType
  PROVE  lock.row[1] \in Table
BY DEF LockType

\* Where a rank may fail to rise: only by way of a pair that deadlocks, or
\* through each of three.
LEMMA Rises ==
  ASSUME LocksInv, NEW D \in SUBSET Session, ~Pairwise(D),
         NEW n \in D, NEW m \in D, NEW k \in D, WaitsFor(n, m), WaitsFor(m, k),
         \E l \in D : WaitsFor(k, l),
         NEW email \in Nat, NEW ticket \in Nat,
         \/ email = 1 /\ ticket = 3 /\ ~WantsEmail(D)
         \/ email = 11 /\ ticket = 13 /\ (~WantsTicket(D) \/ ~WantsEvent(D))
  PROVE  Rank(n, email, ticket) < Rank(m, email, ticket)
<1> DEFINE lock == Wanted(m)
           N == Rank(n, email, ticket)
           M == Rank(m, email, ticket)
<1>1. PICK h \in tx[m].held :
        /\ h \in LockType /\ Backed(tx[m].op, h, tx[m].held)
        /\ h.row = Wanted(n).row /\ Conflicting(h.mode, Wanted(n).mode)
  BY Waiting
<1>2. PICK g \in tx[k].held :
        /\ g \in LockType /\ Backed(tx[k].op, g, tx[k].held)
        /\ g.row = lock.row /\ Conflicting(g.mode, lock.mode)
  BY Waiting
<1>3. /\ n # m /\ m # k /\ lock \in LockType
      /\ Backed(tx[m].op, lock, tx[m].held) /\ Climbs(tx[m].op, lock, tx[m].held)
      /\ ~Again(lock, tx[m].held)
  BY Waiting
<1>4. /\ M = Place(tx[m].op, lock.row[1], email, ticket)
      /\ N = IF tx[n].held = {} THEN 0 ELSE Place(tx[n].op, h.row[1], email, ticket)
  BY <1>1 DEF Rank
<1>5. h.row[1] \in Table /\ lock.row[1] \in Table
  BY <1>1, <1>3, TableOf
<1> HIDE DEF lock, N, M
<1>6. M \in Nat /\ M >= 1
  BY <1>4, <1>5, Places DEF Table
<1>7. CASE tx[n].held = {}
  <2>1. N = 0
    BY <1>4, <1>7
  <2> QED
    BY <1>6, <2>1 DEF N, M
<1> SUFFICES ASSUME tx[n].held # {} PROVE N < M
  BY <1>7 DEF N, M
<1>8. N = Place(tx[n].op, h.row[1], email, ticket) /\ N \in Nat
  BY <1>4, <1>5, Places DEF Table
\* By position.
<1>9. ASSUME Below(h.row[1], lock.row[1]), tx[m].op \in ForUpdate \cup {"Reserve"}
      PROVE  N < M
  <2>1. h.row[1] \notin {"email_notifications", "issued_tickets"}
    BY <1>5, <1>9, Positions DEF Below, Table
  <2>2. lock.row[1] # "issued_tickets"
    BY <1>3, <1>9 DEF Backed, ForUpdate
  <2>3. CASE lock.row[1] = "email_notifications"
    <3>1. tx[m].op = "Prepare"
      BY <1>3, <1>9, <2>3 DEF Backed, ForUpdate
    <3>2. tx[k].op \in {"Retry", "Clean"}
      BY <2>3, <3>1, EmailHolder DEF lock
    <3>3. WantsEmail(D)
      BY <2>3, <3>1, <3>2, Unmet DEF WantsEmail, lock
    <3>4. M = 11
      BY <1>4, <2>3, <3>1, <3>3, Places
    <3>5. N <= 10
      BY <1>5, <1>8, <2>1, Places DEF Table
    <3> QED
      BY <1>8, <3>4, <3>5
  <2>4. CASE lock.row[1] # "email_notifications"
    BY <1>4, <1>5, <1>8, <1>9, <2>1, <2>2, <2>4, Positions DEF Place, Below, Table
  <2> QED
    BY <2>3, <2>4
\* At the ticket types.
<1>10. ASSUME lock.row[1] = "tickets" PROVE FALSE
  <2>1. tx[m].todo # <<>>
    BY DEF WaitsFor
  <2>2. tx[m].op = "Reserve" /\ tx[k].op = "Reserve"
    BY <1>2, <1>3, <1>10, <2>1, TicketsConflict DEF lock
  <2> QED
    BY <1>10, <2>2, Unmet DEF Pairwise, lock
<1>11. CASE /\ tx[m].op \in ForUpdate
            /\ \A f \in tx[m].held : \/ Below(f.row[1], lock.row[1])
                                     \/ f.row[1] = "tickets" /\ lock.row[1] = "tickets"
  BY <1>9, <1>10, <1>11
\* An intent at payment_intents: the webhook, or another intent of the sale.
<1>12. CASE tx[m].op = "Intent" /\ lock.row[1] = "payment_intents"
  <2>1. tx[k].op # "Webhook"
    BY <1>12, Unmet DEF Pairwise, lock
  <2>2. /\ Lock("sales", lock.row[2], "update") \in tx[k].held
        /\ Lock("sales", lock.row[2], "update") \in tx[m].held
    BY <1>2, <1>3, <1>12, <2>1 DEF Backed
  <2>3. Lock("sales", lock.row[2], "update").mode = "update"
    BY DEF Lock
  <2> QED
    BY <1>3, <2>2, <2>3, OneUpdates
<1>13. CASE /\ tx[m].op = "Reserve" /\ lock.row[1] # "customers"
            /\ \A f \in tx[m].held : \/ Below(f.row[1], lock.row[1])
                                     \/ f.row[1] = "tickets" /\ lock.row[1] = "tickets"
                                     \/ f.row[1] = "customers"
  <2>1. CASE h.row[1] = "customers"
    <3>1. tx[n].op \in ForUpdate
      BY <1>1, <2>1, AtCustomers
    <3> QED
      BY <1>1, <1>13, <2>1, <3>1, Unmet DEF Pairwise
  <2> QED
    BY <1>9, <1>10, <1>13, <2>1
\* A gate at its event.
<1>14. CASE /\ tx[m].op = "CheckIn" /\ lock.row[1] = "sales_events"
            /\ On({"issued_tickets"}, tx[m].held)
  <2>1. h.row[1] = "issued_tickets" /\ tx[n].op \in {"Mark", "Retry"}
    BY <1>1, <1>14, AtTickets DEF On
  <2>2. WantsTicket(D)
    BY <1>1, <1>14, <2>1, Unmet DEF WantsTicket
  <2>3. tx[k].op \in ForUpdate
    BY <1>2, <1>3, <1>14 DEF Backed, Conflicting, ForUpdate
  <2>4. WantsEvent(D)
    BY <1>14, <2>3, Unmet DEF WantsEvent, lock
  <2>5. ticket = 3 /\ M = 7
    BY <1>4, <1>14, <2>2, <2>4, Places
  <2>6. N <= 4
    BY <1>8, <2>1, <2>5, Places
  <2> QED
    BY <1>8, <2>5, <2>6
\* Who marks the tickets of one sale.
<1>15. CASE /\ tx[m].op = "Mark" /\ lock.row[1] = "issued_tickets"
            /\ On({"issued_tickets"}, tx[m].held)
  <2>1. h.row[1] = "issued_tickets" /\ tx[n].op \in {"Mark", "Retry"}
    BY <1>1, <1>15, AtTickets DEF On
  <2>2. tx[n].op # "Mark"
    BY <1>1, <1>15, <2>1, Unmet DEF Pairwise
  <2>3. N = ticket /\ M = ticket + 1
    BY <1>4, <1>8, <1>15, <2>1, <2>2, Places
  <2> QED
    BY <2>3
\* The cleaner.
<1>16. CASE /\ tx[m].op = "Clean" /\ lock.row[1] = "email_notifications"
            /\ On({"email_notifications"}, tx[m].held)
  <2>1. h.row[1] = "email_notifications" /\ tx[n].op \in {"Prepare", "Clean"}
    BY <1>1, <1>16, AtEmails DEF On
  <2>2. tx[n].op # "Clean"
    BY <1>1, <1>16, <2>1, Unmet DEF Pairwise
  <2>3. N = email /\ M = email + 1
    BY <1>4, <1>8, <1>16, <2>1, <2>2, Places
  <2> QED
    BY <2>3
\* The retrier.
<1>17. CASE /\ tx[m].op = "Retry" /\ lock.row[1] = "issued_tickets"
            /\ On({"email_notifications", "issued_tickets"}, tx[m].held)
  <2>1. M = ticket /\ email + 1 < ticket
    BY <1>4, <1>17, Places
  <2>2. CASE h.row[1] = "email_notifications"
    <3>1. tx[n].op \in {"Prepare", "Clean"}
      BY <1>1, <2>2, AtEmails
    <3>2. N <= email + 1
      BY <1>8, <2>2, <3>1, Places
    <3> QED
      BY <1>8, <2>1, <3>2
  <2>3. CASE h.row[1] = "issued_tickets"
    <3>1. tx[n].op \in {"Mark", "Retry"}
      BY <1>1, <2>3, AtTickets
    <3>2. tx[n].op = "Retry"
      BY <1>1, <1>17, <2>3, <3>1, Unmet DEF Pairwise
    <3>3. /\ Lock("email_notifications", h.row[2][1], "update") \in tx[m].held
          /\ Lock("email_notifications", h.row[2][1], "update") \in tx[n].held
      BY <1>1, <1>17, <2>3, <3>2, Waiting DEF Backed
    <3>4. Lock("email_notifications", h.row[2][1], "update").mode = "update"
      BY DEF Lock
    <3> QED
      BY <1>3, <3>3, <3>4, OneUpdates
  <2> QED
    BY <1>17, <2>2, <2>3 DEF On
<1> QED
  BY <1>1, <1>3, <1>11, <1>12, <1>13, <1>14, <1>15, <1>16, <1>17 DEF Climbs

LEMMA RankBound ==
  ASSUME LocksInv, NEW n \in Session, tx[n].todo # <<>>, NEW email \in Nat, NEW ticket \in Nat,
         email <= 11, ticket <= 13
  PROVE  Rank(n, email, ticket) \in Nat /\ Rank(n, email, ticket) <= 14
<1>1. Wanted(n).row[1] \in Table
  BY WantedFits, TableOf
<1> DEFINE p == Place(tx[n].op, Wanted(n).row[1], email, ticket)
<1>2. p \in Nat /\ p <= 14
  BY <1>1, Places DEF Table
<1> HIDE DEF p
<1>3. Rank(n, email, ticket) = IF tx[n].held = {} THEN 0 ELSE p
  BY DEF Rank, p
<1> QED
  BY <1>2, <1>3

\* A set of transactions each of which waits for another one of it, of a higher
\* rank: there is none, since ranks are bounded.
LEMMA NoneRises ==
  ASSUME NEW D, D # {}, NEW rank \in [D -> Nat], \A n \in D : rank[n] <= 14,
         \A n \in D : \E m \in D : rank[n] < rank[m]
  PROVE  FALSE
<1>1. \A n \in D : rank[n] <= 9
  OBVIOUS
<1>2. \A n \in D : rank[n] <= 4
  BY <1>1
<1> QED
  BY <1>2

LEMMA Open ==
  ASSUME LocksInv, NEW D \in SUBSET Session, Deadlocked(D), ~Pairwise(D),
         NEW email \in Nat, NEW ticket \in Nat,
         \/ email = 1 /\ ticket = 3 /\ ~WantsEmail(D)
         \/ email = 11 /\ ticket = 13 /\ (~WantsTicket(D) \/ ~WantsEvent(D))
  PROVE  FALSE
<1> DEFINE rank == [n \in D |-> Rank(n, email, ticket)]
<1>1. D # {} /\ \A n \in D : \E m \in D : WaitsFor(n, m)
  BY DEF Deadlocked
<1>2. \A n \in D : n \in Session /\ tx[n].todo # <<>>
  BY <1>1 DEF WaitsFor
<1>3. \A n \in D : rank[n] = Rank(n, email, ticket) /\ rank[n] \in Nat /\ rank[n] <= 14
  <2>1. email <= 11 /\ ticket <= 13
    OBVIOUS
  <2>2. \A n \in D : Rank(n, email, ticket) \in Nat /\ Rank(n, email, ticket) <= 14
    BY <1>2, <2>1, RankBound
  <2> QED
    BY <2>2
<1>4. ASSUME NEW n \in D PROVE \E m \in D : Rank(n, email, ticket) < Rank(m, email, ticket)
  <2>1. PICK m \in D : WaitsFor(n, m)
    BY <1>1
  <2>2. PICK k \in D : WaitsFor(m, k)
    BY <1>1
  <2>3. \E l \in D : WaitsFor(k, l)
    BY <1>1
  <2>4. Rank(n, email, ticket) < Rank(m, email, ticket)
    BY <2>1, <2>2, <2>3, Rises
  <2> QED
    BY <2>4
<1>5. \A n \in D : \E m \in D : rank[n] < rank[m]
  BY <1>3, <1>4
<1>6. rank \in [D -> Nat]
  BY <1>3
<1> HIDE DEF rank
<1> QED
  BY <1>1, <1>3, <1>5, <1>6, NoneRises

\* However many transactions there are, on whatever sales, customers, events and
\* ticket types: those that deadlock do so in one of the six ways, two by two or
\* by way of a delivery, a retrier or cleaner, somebody who marks tickets and a
\* gate.  (The order in which every transaction of the service locks.)
THEOREM SixDeadlocks == LocksSpec => []KnownDeadlocks
<1>1. ASSUME LocksInv PROVE KnownDeadlocks
  <2> SUFFICES ASSUME NEW D \in SUBSET Session, Deadlocked(D)
               PROVE  Pairwise(D) \/ (WantsEmail(D) /\ WantsTicket(D) /\ WantsEvent(D))
    BY DEF KnownDeadlocks, Pairwise, WantsEmail, WantsTicket, WantsEvent
  <2>1. ~Pairwise(D) => WantsEmail(D)
    BY <1>1, Open
  <2>2. ~Pairwise(D) => WantsTicket(D) /\ WantsEvent(D)
    BY <1>1, Open
  <2> QED
    BY <2>1, <2>2
<1> QED
  BY <1>1, LocksInvariant, PTL

-----------------------------------------------------------------------------
(***************************************************************************)
(* The migration runner, for any number of runners, releases, files,        *)
(* restarts and faults: a version takes effect exactly once or not at all,  *)
(* a run that exits with 0 leaves its image applied, and, when no release   *)
(* inserts a version below one that is already out, in order.               *)
(***************************************************************************)
USE MigrateAssumption

ProcessState ==
  [pc : {"new", "check", "begin", "execute", "recorded", "applied", "failed"},
   todo : Seq(File), at : Nat, applied : Nat]

\* What a runner knows of the database: what it has passed is recorded, and
\* what it is about to commit is not.
RunnerInv(r) ==
  /\ Range(runner[r].todo) \subseteq Directory[r]
  /\ Loaded(runner[r].todo)
  /\ IF Running(r)
       THEN Directory[r] \cap Malformed = {} /\ runs < MaxRuns
       ELSE runner[r].todo = <<>>
  /\ runner[r].pc \in {"begin", "execute", "recorded"} => runner[r].todo # <<>>
  /\ IF runner[r].pc \in {"execute", "recorded"}
       THEN runner[r].at \in 1 .. Len(Up[Current(r)]) + 1
       ELSE runner[r].at = 0
  /\ Running(r) \/ runner[r].pc = "applied" =>
       \A f \in Directory[r] \ Malformed :
         f \in Range(runner[r].todo) \/ Version[f] \in schemaMigrations
  /\ runner[r].pc = "recorded" => Version[Current(r)] \notin schemaMigrations

\* The primary key holds a second INSERT of a version back.
OneInsert ==
  \A r, q \in Runner :
    /\ r # q
    /\ runner[r].pc = "recorded"
    /\ runner[q].pc = "recorded"
    => Version[Current(r)] # Version[Current(q)]

Untouched(f) == \A i \in DOMAIN Up[f] : effects[f][i] = 0
InEffect(f)  == \A i \in DOMAIN Up[f] : effects[f][i] = 1

\* One file of a recorded version is in effect, none of another version.
EffectsInv ==
  /\ effects = [f \in WellFormed |-> effects[f]]
  /\ \A f \in WellFormed : effects[f] \in [DOMAIN Up[f] -> {0, 1}]
  /\ \A f \in WellFormed : Version[f] \notin schemaMigrations => Untouched(f)
  /\ \A v \in schemaMigrations : \E f \in WellFormed :
       /\ Version[f] = v
       /\ InEffect(f)
       /\ \A g \in WellFormed : Version[g] = v /\ g # f => Untouched(g)

\* The versions of schemaMigrations can be dealt out to the last runs that
\* count them, each to one.
Dealt ==
  \E share \in [Runner -> SUBSET schemaMigrations] :
    /\ \A r \in Runner : Cardinality(share[r]) = runner[r].applied
    /\ \A r, q \in Runner : r # q => share[r] \cap share[q] = {}

MigrateInv ==
  /\ schemaMigrations \subseteq Versions
  /\ schemaMigrations # {} => runs < MaxRuns
  /\ runs \in 0 .. MaxRuns
  /\ faults \in 0 .. MaxFaults
  /\ runner \in [Runner -> ProcessState]
  /\ \A r \in Runner : RunnerInv(r)
  /\ OneInsert
  /\ EffectsInv
  /\ Dealt

-----------------------------------------------------------------------------
(* Sequences of files.                                                      *)

LEMMA RangeHeadTail ==
  ASSUME NEW S, NEW s \in Seq(S), s # <<>>
  PROVE  /\ Head(s) \in S /\ Tail(s) \in Seq(S)
         /\ Range(s) = {Head(s)} \cup Range(Tail(s))
<1>1. /\ Head(s) \in S /\ Tail(s) \in Seq(S)
      /\ Len(Tail(s)) = Len(s) - 1
      /\ \A i \in 1 .. Len(Tail(s)) : Tail(s)[i] = s[i + 1]
  BY HeadTailProperties
<1>2. Len(s) \in Nat \ {0} /\ DOMAIN s = 1 .. Len(s) /\ DOMAIN Tail(s) = 1 .. Len(Tail(s))
  BY <1>1, EmptySeq, LenProperties
<1>3. Head(s) = s[1]
  OBVIOUS
<1>4. \A i \in 1 .. Len(s) : i = 1 \/ (i - 1 \in 1 .. Len(Tail(s)) /\ s[i] = Tail(s)[i - 1])
  BY <1>1, <1>2
<1>5. \A i \in 1 .. Len(Tail(s)) : i + 1 \in 1 .. Len(s) /\ Tail(s)[i] = s[i + 1]
  BY <1>1, <1>2
<1>6. Range(s) \subseteq {Head(s)} \cup Range(Tail(s))
  <2> SUFFICES ASSUME NEW i \in 1 .. Len(s)
               PROVE  s[i] = Head(s) \/ \E j \in 1 .. Len(Tail(s)) : s[i] = Tail(s)[j]
    BY <1>2 DEF Range
  <2> QED
    BY <1>3, <1>4
<1>7. {Head(s)} \cup Range(Tail(s)) \subseteq Range(s)
  <2>1. 1 \in DOMAIN s
    BY <1>2
  <2> QED
    BY <1>2, <1>3, <1>5, <2>1 DEF Range
<1> QED
  BY <1>1, <1>6, <1>7

\* The first of the loaded files has the lowest version.
LEMMA LoadedTail ==
  ASSUME NEW s \in Seq(File), s # <<>>, Loaded(s), \A f \in Range(s) : Version[f] \in Int
  PROVE  /\ Loaded(Tail(s))
         /\ \A f \in Range(s) : Version[Head(s)] <= Version[f]
<1>1. /\ Len(Tail(s)) = Len(s) - 1
      /\ Tail(s) \in Seq(File)
      /\ \A i \in 1 .. Len(Tail(s)) : Tail(s)[i] = s[i + 1]
  BY HeadTailProperties
<1>2. Len(s) \in Nat \ {0} /\ DOMAIN s = 1 .. Len(s) /\ DOMAIN Tail(s) = 1 .. Len(Tail(s))
  BY <1>1, EmptySeq, LenProperties
<1>3. ASSUME NEW i \in DOMAIN Tail(s), NEW j \in DOMAIN Tail(s), i < j
      PROVE  Version[Tail(s)[i]] <= Version[Tail(s)[j]]
  <2>1. i + 1 \in DOMAIN s /\ j + 1 \in DOMAIN s /\ i + 1 < j + 1
    BY <1>1, <1>2, <1>3
  <2>2. Version[s[i + 1]] <= Version[s[j + 1]]
    BY <2>1 DEF Loaded
  <2> QED
    BY <1>1, <1>2, <2>2
<1>4. ASSUME NEW j \in DOMAIN s PROVE Version[s[1]] <= Version[s[j]]
  <2>1. CASE j = 1
    <3>1. Version[s[1]] \in Int
      BY <1>2 DEF Range
    <3> QED
      BY <2>1, <3>1
  <2>2. CASE j # 1
    BY <1>2, <2>2 DEF Loaded
  <2> QED
    BY <2>1, <2>2
<1> QED
  BY <1>3, <1>4 DEF Loaded, Range

\* loadMigrations returns each file of the directory.
LEMMA LoadedFiles ==
  ASSUME NEW S, IsFiniteSet(S), NEW seq \in SetToSeqs(S)
  PROVE  seq \in Seq(S) /\ Range(seq) = S
<1> DEFINE n == Cardinality(S)
<1>1. n \in Nat
  BY FS_CardinalityType
<1>2. seq \in [1 .. n -> S] /\ \A i, j \in 1 .. n : i # j => seq[i] # seq[j]
  BY DEF SetToSeqs
<1>3. seq \in Seq(S)
  BY <1>1, <1>2
<1>4. seq \in Injection(1 .. n, S)
  BY <1>2 DEF Injection, IsInjective
<1>5. IsFiniteSet(1 .. n) /\ Cardinality(1 .. n) = n
  BY <1>1, FS_Interval
<1>6. seq \in Surjection(1 .. n, S)
  BY <1>4, <1>5, FS_Injection
<1>7. Range(seq) = S
  BY <1>2, <1>6 DEF Surjection, Range
<1> QED
  BY <1>3, <1>7

-----------------------------------------------------------------------------
(* The steps that leave the database alone.                                 *)

LEMMA InitMigrateInv == MigrateInit => MigrateInv
<1> SUFFICES ASSUME MigrateInit PROVE MigrateInv
  OBVIOUS
<1>1. <<>> \in Seq(File) /\ Range(<<>>) = {}
  BY DEF Range
<1>2. runner \in [Runner -> ProcessState]
  BY <1>1 DEF MigrateInit, Resting, ProcessState
<1>3. ASSUME NEW r \in Runner PROVE RunnerInv(r)
  BY <1>1, <1>3 DEF MigrateInit, Resting, RunnerInv, Running, Loaded
<1>4. OneInsert
  BY DEF MigrateInit, Resting, OneInsert
<1>5. EffectsInv
  BY DEF MigrateInit, EffectsInv, Untouched
<1>6. Dealt
  <2> DEFINE share == [r \in Runner |-> {}]
  <2>1. share \in [Runner -> SUBSET schemaMigrations]
    OBVIOUS
  <2>2. \A r \in Runner : Cardinality(share[r]) = runner[r].applied
    BY FS_EmptySet DEF MigrateInit, Resting
  <2>3. \A r, q \in Runner : share[r] \cap share[q] = {}
    OBVIOUS
  <2> QED
    BY <2>1, <2>2, <2>3 DEF Dealt
<1> QED
  BY <1>2, <1>3, <1>4, <1>5, <1>6 DEF MigrateInit, MigrateInv

\* What holds of a runner is disturbed by others only if they record the
\* version that it is about to commit.
LEMMA OthersKeep ==
  ASSUME NEW q \in Runner, RunnerInv(q), runner'[q] = runner[q],
         schemaMigrations \subseteq schemaMigrations',
         runs \in Int, runs' \in Int, runs' <= runs, MaxRuns \in Int,
         runner[q].pc = "recorded" => Version[Current(q)] \notin schemaMigrations'
  PROVE  RunnerInv(q)'
BY DEF RunnerInv, Running, Current, Loaded

\* A step of r that neither commits nor shows.
LEMMA LocalStep ==
  ASSUME MigrateInv, NEW r \in Runner, NEW next \in ProcessState,
         runner' = [runner EXCEPT ![r] = next],
         UNCHANGED <<schemaMigrations, effects>>,
         runs' \in 0 .. MaxRuns, runs' <= runs, faults' \in 0 .. MaxFaults,
         next.applied \in {0, runner[r].applied},
         RunnerInv(r)',
         next.pc = "recorded" => \A q \in Runner \ {r} :
           runner[q].pc = "recorded" => Version[Current(q)] # Version[Head(next.todo)]
  PROVE  MigrateInv'
<1>1. /\ runner'[r] = next
      /\ \A q \in Runner : q # r => runner'[q] = runner[q]
      /\ runner' \in [Runner -> ProcessState]
  BY DEF MigrateInv
<1>2. ASSUME NEW q \in Runner PROVE RunnerInv(q)'
  <2>1. runs \in Int /\ runs' \in Int /\ MaxRuns \in Int
    BY DEF MigrateInv
  <2>2. CASE q # r
    <3>1. RunnerInv(q)
      BY DEF MigrateInv
    <3>2. runner[q].pc = "recorded" => Version[Current(q)] \notin schemaMigrations'
      BY <3>1 DEF RunnerInv
    <3> QED
      BY <1>1, <2>1, <2>2, <3>1, <3>2, OthersKeep
  <2> QED
    BY <2>2
<1>3. OneInsert'
  BY <1>1 DEF MigrateInv, OneInsert, Current
<1>4. EffectsInv'
  BY DEF MigrateInv, EffectsInv, Untouched, InEffect
<1>5. Dealt'
  <2>1. PICK share \in [Runner -> SUBSET schemaMigrations] :
          /\ \A q \in Runner : Cardinality(share[q]) = runner[q].applied
          /\ \A p, q \in Runner : p # q => share[p] \cap share[q] = {}
    BY DEF MigrateInv, Dealt
  <2>2. CASE next.applied = runner[r].applied
    <3>1. \A q \in Runner : Cardinality(share[q]) = runner'[q].applied
      BY <1>1, <2>1, <2>2
    <3> QED
      BY <2>1, <3>1 DEF Dealt
  <2>3. CASE next.applied = 0
    <3> DEFINE other == [share EXCEPT ![r] = {}]
    <3>1. other \in [Runner -> SUBSET schemaMigrations']
      BY <2>1
    <3>2. \A q \in Runner : Cardinality(other[q]) = runner'[q].applied
      BY <1>1, <2>1, <2>3, FS_EmptySet
    <3>3. \A p, q \in Runner : p # q => other[p] \cap other[q] = {}
      BY <2>1
    <3> QED
      BY <3>1, <3>2, <3>3 DEF Dealt
  <2> QED
    BY <2>2, <2>3
<1> QED
  BY <1>1, <1>2, <1>3, <1>4, <1>5 DEF MigrateInv

\* A process that ends leaves nothing behind.
LEMMA RestingRunner ==
  ASSUME MigrateInv, NEW r \in Runner,
         runner' = [runner EXCEPT ![r] = Resting("failed")]
  PROVE  Resting("failed") \in ProcessState /\ RunnerInv(r)'
<1>1. <<>> \in Seq(File) /\ Range(<<>>) = {}
  BY DEF Range
<1>2. runner'[r] = Resting("failed")
  BY DEF MigrateInv
<1> QED
  BY <1>1, <1>2 DEF Resting, ProcessState, RunnerInv, Running, Loaded

LEMMA StartInv ==
  ASSUME MigrateInv, NEW r \in Runner, Start(r)
  PROVE  MigrateInv'
<1>1. runs' = runs - 1 /\ runs > 0 /\ UNCHANGED <<schemaMigrations, effects, faults>>
  BY DEF Start
<1>2. runs' \in 0 .. MaxRuns /\ runs' < MaxRuns /\ runs' <= runs /\ faults' \in 0 .. MaxFaults
  BY <1>1 DEF MigrateInv
<1>3. CASE /\ Directory[r] \cap Malformed = {}
           /\ \E seq \in SetToSeqs(Directory[r]) :
                /\ Loaded(seq)
                /\ runner' = [runner EXCEPT
                      ![r] = [pc |-> "check", todo |-> seq, at |-> 0, applied |-> 0]]
  <2>1. PICK seq \in SetToSeqs(Directory[r]) :
          /\ Loaded(seq)
          /\ runner' = [runner EXCEPT
                ![r] = [pc |-> "check", todo |-> seq, at |-> 0, applied |-> 0]]
    BY <1>3
  <2> DEFINE next == [pc |-> "check", todo |-> seq, at |-> 0, applied |-> 0]
  <2>2. IsFiniteSet(Directory[r]) /\ Directory[r] \subseteq File
    BY FS_Subset
  <2>3. seq \in Seq(Directory[r]) /\ Range(seq) = Directory[r]
    BY <2>2, LoadedFiles
  <2>4. seq \in Seq(File)
    BY <2>2, <2>3, SeqMonotonic
  <2>5. next \in ProcessState
    BY <2>4 DEF ProcessState
  <2>6. runner'[r] = next
    BY <2>1 DEF MigrateInv
  <2>7. RunnerInv(r)'
    BY <1>2, <1>3, <2>1, <2>3, <2>6 DEF RunnerInv, Running, Loaded
  <2> QED
    BY <1>1, <1>2, <2>1, <2>5, <2>7, LocalStep
<1>4. CASE runner' = [runner EXCEPT ![r] = Resting("failed")]
  <2>1. Resting("failed") \in ProcessState /\ RunnerInv(r)'
    BY <1>4, RestingRunner
  <2>2. Resting("failed").applied = 0 /\ Resting("failed").pc # "recorded"
    BY DEF Resting
  <2> QED
    BY <1>1, <1>2, <1>4, <2>1, <2>2, LocalStep
<1> QED
  BY <1>3, <1>4 DEF Start

\* The files that a running process still has, and the one at hand.
LEMMA TodoFiles ==
  ASSUME MigrateInv, NEW r \in Runner, Running(r), runner[r].todo # <<>>
  PROVE  /\ runner[r].todo \in Seq(File)
         /\ Tail(runner[r].todo) \in Seq(File)
         /\ Range(runner[r].todo) = {Current(r)} \cup Range(Tail(runner[r].todo))
         /\ Current(r) \in Directory[r] /\ Current(r) \in WellFormed
         /\ Loaded(Tail(runner[r].todo))
         /\ \A f \in Range(runner[r].todo) : Version[Current(r)] <= Version[f]
<1>1. runner[r].todo \in Seq(File)
  BY DEF MigrateInv, ProcessState
<1>2. /\ Range(runner[r].todo) \subseteq Directory[r]
      /\ Directory[r] \cap Malformed = {}
      /\ Loaded(runner[r].todo)
  BY DEF MigrateInv, RunnerInv
<1>3. Directory[r] \subseteq WellFormed
  BY <1>2 DEF WellFormed
<1>4. \A f \in Range(runner[r].todo) : Version[f] \in Int
  BY <1>2, <1>3
<1> QED
  BY <1>1, <1>2, <1>3, <1>4, RangeHeadTail, LoadedTail DEF Current

LEMMA CheckInv ==
  ASSUME MigrateInv, NEW r \in Runner, Check(r)
  PROVE  MigrateInv'
<1>1. Running(r) /\ runner[r].todo # <<>> /\ runner[r].pc = "check"
  BY DEF Check, Running
<1>2. runner[r] \in ProcessState /\ RunnerInv(r)
  BY DEF MigrateInv
<1>3. UNCHANGED <<schemaMigrations, effects, runs, faults>>
  BY DEF Check
<1>4. runs \in 0 .. MaxRuns /\ runs <= runs /\ faults \in 0 .. MaxFaults
  BY DEF MigrateInv
<1>5. CASE /\ Version[Current(r)] \in schemaMigrations
           /\ runner' = [runner EXCEPT ![r].todo = Tail(@)]
  <2> DEFINE next == [runner[r] EXCEPT !.todo = Tail(@)]
  <2>1. next \in ProcessState
    BY <1>1, <1>2, TodoFiles DEF ProcessState
  <2>2. /\ next.pc = "check" /\ next.todo = Tail(runner[r].todo)
        /\ next.at = runner[r].at /\ next.applied = runner[r].applied
    BY <1>1, <1>2 DEF ProcessState
  <2>3. runner' = [runner EXCEPT ![r] = next] /\ runner'[r] = next
    BY <1>5 DEF MigrateInv
  <2> HIDE DEF next
  <2>4. RunnerInv(r)'
    BY <1>1, <1>2, <1>3, <1>5, <2>2, <2>3, TodoFiles DEF RunnerInv, Running
  <2> QED
    BY <1>3, <1>4, <2>1, <2>2, <2>3, <2>4, LocalStep
<1>6. CASE /\ Version[Current(r)] \notin schemaMigrations
           /\ runner' = [runner EXCEPT ![r].pc = "begin"]
  <2> DEFINE next == [runner[r] EXCEPT !.pc = "begin"]
  <2>1. /\ next \in ProcessState
        /\ next.pc = "begin" /\ next.todo = runner[r].todo
        /\ next.at = runner[r].at /\ next.applied = runner[r].applied
    BY <1>2 DEF ProcessState
  <2>2. runner' = [runner EXCEPT ![r] = next] /\ runner'[r] = next
    BY <1>6 DEF MigrateInv
  <2> HIDE DEF next
  <2>3. RunnerInv(r)'
    BY <1>1, <1>2, <1>3, <2>1, <2>2 DEF RunnerInv, Running, Loaded
  <2> QED
    BY <1>3, <1>4, <2>1, <2>2, <2>3, LocalStep
<1> QED
  BY <1>5, <1>6 DEF Check

LEMMA BeginTxInv ==
  ASSUME MigrateInv, NEW r \in Runner, BeginTx(r)
  PROVE  MigrateInv'
<1>1. Running(r) /\ runner[r].pc = "begin" /\ runner[r].todo # <<>>
  BY DEF BeginTx, Running, MigrateInv, RunnerInv
<1>2. runner[r] \in ProcessState /\ RunnerInv(r)
  BY DEF MigrateInv
<1>3. UNCHANGED <<schemaMigrations, effects, runs, faults>>
  BY DEF BeginTx
<1>4. runs \in 0 .. MaxRuns /\ runs <= runs /\ faults \in 0 .. MaxFaults
  BY DEF MigrateInv
<1> DEFINE next == [runner[r] EXCEPT !.pc = "execute", !.at = 1]
<1>5. /\ next \in ProcessState
      /\ next.pc = "execute" /\ next.todo = runner[r].todo
      /\ next.at = 1 /\ next.applied = runner[r].applied
  BY <1>2 DEF ProcessState
<1>6. runner' = [runner EXCEPT ![r] = next] /\ runner'[r] = next
  BY DEF MigrateInv, BeginTx
<1> HIDE DEF next
<1>7. 1 \in 1 .. Len(Up[Current(r)]) + 1
  <2>1. Len(Up[Current(r)]) \in Nat
    BY <1>1, TodoFiles, LenProperties
  <2> QED
    BY <2>1
<1>8. RunnerInv(r)'
  BY <1>1, <1>2, <1>3, <1>5, <1>6, <1>7 DEF RunnerInv, Running, Loaded, Current
<1> QED
  BY <1>3, <1>4, <1>5, <1>6, <1>8, LocalStep

LEMMA ExecuteInv ==
  ASSUME MigrateInv, NEW r \in Runner, Execute(r)
  PROVE  MigrateInv'
<1>1. Running(r) /\ runner[r].pc = "execute" /\ runner[r].todo # <<>>
  BY DEF Execute, Running, MigrateInv, RunnerInv
<1>2. runner[r] \in ProcessState /\ RunnerInv(r)
  BY DEF MigrateInv
<1>3. UNCHANGED <<schemaMigrations, effects, runs, faults>>
  BY DEF Execute
<1>4. runs \in 0 .. MaxRuns /\ runs <= runs /\ faults \in 0 .. MaxFaults
  BY DEF MigrateInv
<1>5. CASE runner' = [runner EXCEPT ![r] = Resting("failed")]
  <2>1. Resting("failed") \in ProcessState /\ RunnerInv(r)'
    BY <1>5, RestingRunner
  <2>2. Resting("failed").applied = 0 /\ Resting("failed").pc # "recorded"
    BY DEF Resting
  <2> QED
    BY <1>3, <1>4, <1>5, <2>1, <2>2, LocalStep
<1>6. CASE runner' = [runner EXCEPT ![r].at = @ + 1]
  <2> DEFINE next == [runner[r] EXCEPT !.at = @ + 1]
  <2>1. /\ next \in ProcessState
        /\ next.pc = "execute" /\ next.todo = runner[r].todo
        /\ next.at = runner[r].at + 1 /\ next.applied = runner[r].applied
    BY <1>1, <1>2 DEF ProcessState
  <2>2. runner' = [runner EXCEPT ![r] = next] /\ runner'[r] = next
    BY <1>6 DEF MigrateInv
  <2> HIDE DEF next
  <2>3. runner[r].at + 1 \in 1 .. Len(Up[Current(r)]) + 1
    <3>1. Len(Up[Current(r)]) \in Nat
      BY <1>1, TodoFiles, LenProperties
    <3>2. runner[r].at \in 1 .. Len(Up[Current(r)]) + 1
      BY <1>1, <1>2 DEF RunnerInv
    <3> QED
      BY <3>1, <3>2 DEF Execute
  <2>4. RunnerInv(r)'
    BY <1>1, <1>2, <1>3, <2>1, <2>2, <2>3 DEF RunnerInv, Running, Loaded, Current
  <2> QED
    BY <1>3, <1>4, <2>1, <2>2, <2>4, LocalStep
<1> QED
  BY <1>5, <1>6 DEF Execute

\* The INSERT goes through only when the version is neither recorded nor
\* inserted by an open transaction.
LEMMA RecordInv ==
  ASSUME MigrateInv, NEW r \in Runner, Record(r)
  PROVE  MigrateInv'
<1>1. Running(r) /\ runner[r].pc = "execute" /\ runner[r].todo # <<>>
  BY DEF Record, Running, MigrateInv, RunnerInv
<1>2. runner[r] \in ProcessState /\ RunnerInv(r)
  BY DEF MigrateInv
<1>3. UNCHANGED <<schemaMigrations, effects, runs, faults>>
  BY DEF Record
<1>4. runs \in 0 .. MaxRuns /\ runs <= runs /\ faults \in 0 .. MaxFaults
  BY DEF MigrateInv
<1>5. CASE runner' = [runner EXCEPT ![r] = Resting("failed")]
  <2>1. Resting("failed") \in ProcessState /\ RunnerInv(r)'
    BY <1>5, RestingRunner
  <2>2. Resting("failed").applied = 0 /\ Resting("failed").pc # "recorded"
    BY DEF Resting
  <2> QED
    BY <1>3, <1>4, <1>5, <2>1, <2>2, LocalStep
<1>6. CASE /\ Version[Current(r)] \notin schemaMigrations
           /\ runner' = [runner EXCEPT ![r].pc = "recorded"]
  <2> DEFINE next == [runner[r] EXCEPT !.pc = "recorded"]
  <2>1. /\ next \in ProcessState
        /\ next.pc = "recorded" /\ next.todo = runner[r].todo
        /\ next.at = runner[r].at /\ next.applied = runner[r].applied
    BY <1>2 DEF ProcessState
  <2>2. runner' = [runner EXCEPT ![r] = next] /\ runner'[r] = next
    BY <1>6 DEF MigrateInv
  <2> HIDE DEF next
  <2>3. RunnerInv(r)'
    BY <1>1, <1>2, <1>3, <1>6, <2>1, <2>2 DEF RunnerInv, Running, Loaded, Current
  <2>4. \A q \in Runner \ {r} :
          runner[q].pc = "recorded" => Version[Current(q)] # Version[Head(next.todo)]
    BY <2>1 DEF Record, Current
  <2> QED
    BY <1>3, <1>4, <2>1, <2>2, <2>3, <2>4, LocalStep
<1> QED
  BY <1>5, <1>6 DEF Record, Taken

LEMMA SucceedInv ==
  ASSUME MigrateInv, NEW r \in Runner, Succeed(r)
  PROVE  MigrateInv'
<1>1. Running(r) /\ runner[r].pc = "check" /\ runner[r].todo = <<>>
  BY DEF Succeed, Running
<1>2. runner[r] \in ProcessState /\ RunnerInv(r)
  BY DEF MigrateInv
<1>3. UNCHANGED <<schemaMigrations, effects, runs, faults>>
  BY DEF Succeed
<1>4. runs \in 0 .. MaxRuns /\ runs <= runs /\ faults \in 0 .. MaxFaults
  BY DEF MigrateInv
<1> DEFINE next == [Resting("applied") EXCEPT !.applied = runner[r].applied]
<1>5. <<>> \in Seq(File) /\ Range(<<>>) = {}
  BY DEF Range
<1>6. /\ next \in ProcessState
      /\ next.pc = "applied" /\ next.todo = <<>>
      /\ next.at = 0 /\ next.applied = runner[r].applied
  BY <1>2, <1>5 DEF ProcessState, Resting
<1>7. runner' = [runner EXCEPT ![r] = next] /\ runner'[r] = next
  BY DEF MigrateInv, Succeed
<1> HIDE DEF next
<1>8. RunnerInv(r)'
  BY <1>1, <1>2, <1>3, <1>5, <1>6, <1>7 DEF RunnerInv, Running, Loaded
<1> QED
  BY <1>3, <1>4, <1>6, <1>7, <1>8, LocalStep

LEMMA FailInv ==
  ASSUME MigrateInv, NEW r \in Runner, Fail(r)
  PROVE  MigrateInv'
<1>1. /\ runner' = [runner EXCEPT ![r] = Resting("failed")]
      /\ UNCHANGED <<schemaMigrations, effects, runs>>
      /\ faults > 0 /\ faults' = faults - 1
  BY DEF Fail, AfterError
<1>2. runs \in 0 .. MaxRuns /\ runs <= runs /\ faults' \in 0 .. MaxFaults
  BY <1>1 DEF MigrateInv
<1>3. Resting("failed") \in ProcessState /\ RunnerInv(r)'
  BY <1>1, RestingRunner
<1>4. Resting("failed").applied = 0 /\ Resting("failed").pc # "recorded"
  BY DEF Resting
<1> QED
  BY <1>1, <1>2, <1>3, <1>4, LocalStep

-----------------------------------------------------------------------------
(* The commit.                                                              *)

LEMMA FiniteVersions == IsFiniteSet(Versions)
<1>1. IsFiniteSet(WellFormed)
  BY FS_Subset DEF WellFormed
<1>2. Version \in Surjection(WellFormed, Range(Version))
  BY Fun_RangeProperties
<1>3. Versions = Range(Version)
  BY DEF Versions, Range
<1> QED
  BY <1>1, <1>2, <1>3, FS_Surjection

\* All statements of the file take effect, for the first time.
LEMMA CommitEffects ==
  ASSUME MigrateInv, NEW f \in WellFormed, Version[f] \notin schemaMigrations,
         effects' = Committed(f),
         schemaMigrations' = schemaMigrations \cup {Version[f]}
  PROVE  EffectsInv'
<1>1. EffectsInv
  BY DEF MigrateInv
<1>2. /\ effects' = [g \in WellFormed |-> effects'[g]]
      /\ effects'[f] = [i \in DOMAIN Up[f] |-> Effect(Up[f][i], effects[f][i])]
      /\ \A g \in WellFormed : g # f => effects'[g] = effects[g]
  BY <1>1 DEF EffectsInv, Committed
<1>3. \A i \in DOMAIN Up[f] : effects'[f][i] = 1
  BY <1>1, <1>2 DEF EffectsInv, Untouched, Effect
<1>4. InEffect(f)' /\ effects'[f] \in [DOMAIN Up[f] -> {0, 1}]
  BY <1>2, <1>3 DEF InEffect
<1>5. ASSUME NEW g \in WellFormed, g # f
      PROVE  /\ Untouched(g) => Untouched(g)'
             /\ InEffect(g) => InEffect(g)'
             /\ effects'[g] \in [DOMAIN Up[g] -> {0, 1}]
  BY <1>1, <1>2, <1>5 DEF Untouched, InEffect, EffectsInv
<1>6. \A g \in WellFormed : effects'[g] \in [DOMAIN Up[g] -> {0, 1}]
  BY <1>4, <1>5
<1>7. \A g \in WellFormed : Version[g] \notin schemaMigrations' => Untouched(g)'
  BY <1>1, <1>5 DEF EffectsInv
<1>8. ASSUME NEW v \in schemaMigrations'
      PROVE  \E g \in WellFormed :
               /\ Version[g] = v
               /\ InEffect(g)'
               /\ \A h \in WellFormed : Version[h] = v /\ h # g => Untouched(h)'
  <2>1. CASE v = Version[f]
    BY <1>1, <1>4, <1>5, <2>1 DEF EffectsInv
  <2>2. CASE v # Version[f]
    <3>1. PICK g \in WellFormed :
            /\ Version[g] = v
            /\ InEffect(g)
            /\ \A h \in WellFormed : Version[h] = v /\ h # g => Untouched(h)
      BY <1>1, <2>2 DEF EffectsInv
    <3>2. \A h \in WellFormed : Version[h] = v => h # f
      BY <2>2
    <3> QED
      BY <1>5, <3>1, <3>2
  <2> QED
    BY <2>1, <2>2
<1> QED
  BY <1>2, <1>6, <1>7, <1>8 DEF EffectsInv

\* A run that hears of its commit counts the version as its own.
LEMMA CommitDealt ==
  ASSUME MigrateInv, NEW r \in Runner, NEW v \in Versions, v \notin schemaMigrations,
         schemaMigrations' = schemaMigrations \cup {v},
         \A q \in Runner : q # r => runner'[q] = runner[q],
         runner'[r].applied \in {0, runner[r].applied + 1}
  PROVE  Dealt'
<1>1. PICK share \in [Runner -> SUBSET schemaMigrations] :
        /\ \A q \in Runner : Cardinality(share[q]) = runner[q].applied
        /\ \A p, q \in Runner : p # q => share[p] \cap share[q] = {}
  BY DEF MigrateInv, Dealt
<1>2. IsFiniteSet(share[r])
  BY FiniteVersions, FS_Subset DEF MigrateInv
<1>3. CASE runner'[r].applied = 0
  <2> DEFINE other == [share EXCEPT ![r] = {}]
  <2>1. other \in [Runner -> SUBSET schemaMigrations']
    BY <1>1
  <2>2. \A q \in Runner : Cardinality(other[q]) = runner'[q].applied
    BY <1>1, <1>3, FS_EmptySet
  <2>3. \A p, q \in Runner : p # q => other[p] \cap other[q] = {}
    BY <1>1
  <2> QED
    BY <2>1, <2>2, <2>3 DEF Dealt
<1>4. CASE runner'[r].applied = runner[r].applied + 1
  <2> DEFINE other == [share EXCEPT ![r] = share[r] \cup {v}]
  <2>1. other \in [Runner -> SUBSET schemaMigrations']
    BY <1>1
  <2>2. \A q \in Runner : Cardinality(other[q]) = runner'[q].applied
    <3>1. Cardinality(share[r] \cup {v}) = Cardinality(share[r]) + 1
      BY <1>1, <1>2, FS_AddElement
    <3> QED
      BY <1>1, <1>4, <3>1
  <2>3. \A p, q \in Runner : p # q => other[p] \cap other[q] = {}
    <3>1. \A q \in Runner : v \notin share[q]
      BY <1>1
    <3> QED
      BY <1>1, <3>1
  <2> QED
    BY <2>1, <2>2, <2>3 DEF Dealt
<1> QED
  BY <1>3, <1>4

LEMMA CommitInv ==
  ASSUME MigrateInv, NEW r \in Runner, Commit(r)
  PROVE  MigrateInv'
<1>1. Running(r) /\ runner[r].pc = "recorded" /\ runner[r].todo # <<>>
  BY DEF Commit, Running, MigrateInv, RunnerInv
<1>2. runner[r] \in ProcessState /\ RunnerInv(r)
  BY DEF MigrateInv
<1> DEFINE v == Version[Current(r)]
<1>3. /\ v \in Versions /\ v \notin schemaMigrations
      /\ schemaMigrations' = schemaMigrations \cup {v}
      /\ effects' = Committed(Current(r))
      /\ runs' = runs
  BY <1>1, <1>2, TodoFiles DEF RunnerInv, Versions, Commit
<1>4. PICK next \in ProcessState :
        /\ runner' = [runner EXCEPT ![r] = next]
        /\ next.pc # "recorded"
        /\ next.applied \in {0, runner[r].applied + 1}
        /\ RunnerInv(r)'
  <2>1. CASE runner' = [runner EXCEPT ![r] = Resting("failed")]
    <3>1. Resting("failed") \in ProcessState /\ RunnerInv(r)'
      BY <2>1, RestingRunner
    <3>2. Resting("failed").applied = 0 /\ Resting("failed").pc # "recorded"
      BY DEF Resting
    <3> QED
      BY <2>1, <3>1, <3>2
  <2>2. CASE runner' = [runner EXCEPT ![r].pc = "check", ![r].todo = Tail(@),
                                      ![r].at = 0, ![r].applied = @ + 1]
    <3> DEFINE next == [runner[r] EXCEPT !.pc = "check", !.todo = Tail(@),
                                         !.at = 0, !.applied = @ + 1]
    <3>1. next \in ProcessState
      <4>1. Tail(runner[r].todo) \in Seq(File)
        BY <1>1, TodoFiles
      <4>2. runner[r].applied + 1 \in Nat
        BY <1>2 DEF ProcessState
      <4> QED
        BY <1>2, <4>1, <4>2 DEF ProcessState
    <3>2. /\ next.pc = "check" /\ next.todo = Tail(runner[r].todo)
          /\ next.at = 0 /\ next.applied = runner[r].applied + 1
      BY <1>2 DEF ProcessState
    <3>3. runner' = [runner EXCEPT ![r] = next] /\ runner'[r] = next
      BY <2>2 DEF MigrateInv
    <3> HIDE DEF next
    <3>4. RunnerInv(r)'
      BY <1>1, <1>2, <1>3, <3>2, <3>3, TodoFiles DEF RunnerInv, Running
    <3> QED
      BY <3>1, <3>2, <3>3, <3>4
  <2> QED
    BY <2>1, <2>2 DEF Commit
<1>5. /\ runner'[r] = next
      /\ \A q \in Runner : q # r => runner'[q] = runner[q]
      /\ runner' \in [Runner -> ProcessState]
  BY <1>4 DEF MigrateInv
<1>6. ASSUME NEW q \in Runner PROVE RunnerInv(q)'
  <2>1. runs \in Int /\ runs' \in Int /\ MaxRuns \in Int /\ runs' <= runs
    BY <1>3 DEF MigrateInv
  <2>2. CASE q # r
    <3>1. RunnerInv(q)
      BY DEF MigrateInv
    <3>2. runner[q].pc = "recorded" => Version[Current(q)] \notin schemaMigrations'
      BY <1>1, <1>3, <2>2, <3>1 DEF RunnerInv, MigrateInv, OneInsert
    <3> QED
      BY <1>3, <1>5, <2>1, <2>2, <3>1, <3>2, OthersKeep
  <2> QED
    BY <1>4, <2>2
<1>7. OneInsert'
  BY <1>4, <1>5 DEF MigrateInv, OneInsert, Current
<1>8. EffectsInv'
  BY <1>1, <1>3, TodoFiles, CommitEffects
<1>9. Dealt'
  BY <1>3, <1>4, <1>5, CommitDealt
<1>10. /\ schemaMigrations' \subseteq Versions
       /\ runs' < MaxRuns /\ runs' \in 0 .. MaxRuns
       /\ faults' \in 0 .. MaxFaults
  BY <1>1, <1>2, <1>3 DEF MigrateInv, RunnerInv, Commit
<1> QED
  BY <1>5, <1>6, <1>7, <1>8, <1>9, <1>10 DEF MigrateInv

LEMMA NextMigrateInv == MigrateInv /\ [MigrateNext]_vars => MigrateInv'
<1> SUFFICES ASSUME MigrateInv, [MigrateNext]_vars PROVE MigrateInv'
  OBVIOUS
<1>1. CASE MigrateNext
  BY <1>1, StartInv, CheckInv, BeginTxInv, ExecuteInv, RecordInv, CommitInv, SucceedInv, FailInv
     DEF MigrateNext
<1>2. CASE UNCHANGED vars
  BY <1>2 DEF vars, MigrateInv, RunnerInv, Running, Current, Loaded, OneInsert, EffectsInv,
              Untouched, InEffect, Dealt
<1> QED
  BY <1>1, <1>2

\* What runners know of the database stays true while others run: what one has
\* passed is recorded, what it is about to commit is not, and one file of each
\* recorded version is in effect.  (Apply, with no lock between the processes.)
THEOREM MigrateInvariant == MigrateSpec => []MigrateInv
BY InitMigrateInv, NextMigrateInv, PTL DEF MigrateSpec

-----------------------------------------------------------------------------
(* What follows from it.                                                    *)

\* The counts of two runs are those of disjoint sets of recorded versions.
LEMMA CountsAddUp ==
  ASSUME MigrateInv
  PROVE  /\ IsFiniteSet(schemaMigrations)
         /\ \A r \in Runner : runner[r].applied \in 0 .. Cardinality(schemaMigrations)
         /\ \A r, q \in Runner :
              r # q => runner[r].applied + runner[q].applied <= Cardinality(schemaMigrations)
<1>1. IsFiniteSet(schemaMigrations)
  BY FiniteVersions, FS_Subset DEF MigrateInv
<1>2. PICK share \in [Runner -> SUBSET schemaMigrations] :
        /\ \A r \in Runner : Cardinality(share[r]) = runner[r].applied
        /\ \A r, q \in Runner : r # q => share[r] \cap share[q] = {}
  BY DEF MigrateInv, Dealt
<1>3. Cardinality(schemaMigrations) \in Nat
  BY <1>1, FS_CardinalityType
<1>4. ASSUME NEW r \in Runner
      PROVE  /\ IsFiniteSet(share[r])
             /\ runner[r].applied \in 0 .. Cardinality(schemaMigrations)
  <2>1. IsFiniteSet(share[r]) /\ Cardinality(share[r]) <= Cardinality(schemaMigrations)
    BY <1>1, FS_Subset
  <2> QED
    BY <1>2, <1>3, <2>1, FS_CardinalityType
<1>5. ASSUME NEW r \in Runner, NEW q \in Runner, r # q
      PROVE  runner[r].applied + runner[q].applied <= Cardinality(schemaMigrations)
  <2>1. share[r] \cap share[q] = {} /\ share[r] \cup share[q] \subseteq schemaMigrations
    BY <1>2, <1>5
  <2>2. Cardinality(share[r] \cup share[q]) = Cardinality(share[r]) + Cardinality(share[q])
    <3>1. IsFiniteSet(share[r]) /\ IsFiniteSet(share[q])
      BY <1>4, <1>5
    <3>2. Cardinality(share[r] \cup share[q])
            = Cardinality(share[r]) + Cardinality(share[q]) - Cardinality(share[r] \cap share[q])
      BY <3>1, FS_Union, Zenon
    <3>3. Cardinality(share[r] \cap share[q]) = 0
      BY <2>1, FS_EmptySet, Zenon
    <3>4. Cardinality(share[r]) \in Nat /\ Cardinality(share[q]) \in Nat
      BY <3>1, FS_CardinalityType, Zenon
    <3> QED
      BY <3>2, <3>3, <3>4
  <2>3. Cardinality(share[r] \cup share[q]) <= Cardinality(schemaMigrations)
    BY <1>1, <2>1, FS_Subset
  <2> QED
    BY <1>2, <2>2, <2>3
<1> QED
  BY <1>1, <1>4, <1>5

\* Every runner has a transaction open exactly while it runs the statements of
\* a file of its own image, and no count exceeds the number of versions.
THEOREM MigrateTypeCorrect == MigrateSpec => []TypeOK
<1>1. ASSUME MigrateInv PROVE TypeOK
  <2>1. ASSUME NEW f \in WellFormed PROVE effects[f] \in [DOMAIN Up[f] -> 0 .. MaxRuns]
    <3>1. CASE Untouched(f)
      BY <1>1, <3>1 DEF MigrateInv, EffectsInv, Untouched
    <3>2. CASE ~Untouched(f)
      <4>1. MaxRuns >= 1
        BY <1>1, <3>2 DEF MigrateInv, EffectsInv
      <4>2. {0, 1} \subseteq 0 .. MaxRuns
        BY <4>1
      <4>3. effects[f] \in [DOMAIN Up[f] -> {0, 1}]
        BY <1>1 DEF MigrateInv, EffectsInv
      <4> QED
        BY <4>2, <4>3
    <3> QED
      BY <3>1, <3>2
  <2>2. ASSUME NEW r \in Runner PROVE runner[r].applied \in 0 .. Cardinality(Versions)
    <3>1. /\ Cardinality(schemaMigrations) <= Cardinality(Versions)
          /\ Cardinality(schemaMigrations) \in Nat /\ Cardinality(Versions) \in Nat
      BY <1>1, FiniteVersions, FS_Subset, FS_CardinalityType DEF MigrateInv
    <3> QED
      BY <1>1, <3>1, CountsAddUp
  <2>3. ASSUME NEW r \in Runner
        PROVE  /\ runner[r].pc \in {"new", "check", "begin", "execute", "recorded",
                                     "applied", "failed"}
               /\ Range(runner[r].todo) \subseteq Directory[r]
               /\ IF runner[r].pc \in {"execute", "recorded"}
                    THEN runner[r].at \in 1 .. Len(Up[Current(r)]) + 1
                    ELSE runner[r].at = 0
    BY <1>1 DEF MigrateInv, RunnerInv, ProcessState
  <2> QED
    BY <1>1, <2>1, <2>2, <2>3 DEF MigrateInv, TypeOK
<1> QED
  BY <1>1, MigrateInvariant, PTL

\* Whatever runners overlap, die and are started again: a version is recorded
\* if and only if exactly one of its files has taken effect, each statement once.
THEOREM MigrateOnce == MigrateSpec => []AppliedOnce
<1>1. ASSUME MigrateInv, NEW v \in Versions
      PROVE  LET files == {f \in WellFormed : Version[f] = v}
                 touched == {f \in files : \E i \in DOMAIN Up[f] : effects[f][i] > 0}
             IN IF v \in schemaMigrations
                  THEN /\ Cardinality(touched) = 1
                       /\ \A f \in touched : \A i \in DOMAIN Up[f] : effects[f][i] = 1
                  ELSE touched = {}
  <2> DEFINE touched == {f \in {g \in WellFormed : Version[g] = v} :
                           \E i \in DOMAIN Up[f] : effects[f][i] > 0}
  <2>1. CASE v \notin schemaMigrations
    <3>1. touched = {}
      BY <1>1, <2>1 DEF MigrateInv, EffectsInv, Untouched
    <3> QED
      BY <2>1, <3>1
  <2>2. CASE v \in schemaMigrations
    <3>1. PICK f \in WellFormed :
            /\ Version[f] = v
            /\ InEffect(f)
            /\ \A g \in WellFormed : Version[g] = v /\ g # f => Untouched(g)
      BY <1>1, <2>2 DEF MigrateInv, EffectsInv
    <3>2. 1 \in DOMAIN Up[f]
      BY LenProperties, EmptySeq
    <3>3. touched = {f}
      BY <3>1, <3>2 DEF InEffect, Untouched
    <3>4. Cardinality(touched) = 1
      BY <3>3, FS_Singleton
    <3>5. \A g \in touched : \A i \in DOMAIN Up[g] : effects[g][i] = 1
      BY <3>1, <3>3 DEF InEffect
    <3> QED
      BY <2>2, <3>4, <3>5
  <2> QED
    BY <2>1, <2>2
<1>2. MigrateInv => AppliedOnce
  BY <1>1 DEF AppliedOnce
<1> QED
  BY <1>2, MigrateInvariant, PTL

\* A run that exits with 0 leaves its whole image recorded, and no two runs
\* report the same version as applied.
THEOREM MigrateSuccess == MigrateSpec => []SuccessIsComplete
<1>1. ASSUME MigrateInv PROVE SuccessIsComplete
  <2>1. ASSUME NEW r \in Runner, runner[r].pc = "applied",
               NEW f \in Directory[r] \ Malformed
        PROVE  Version[f] \in schemaMigrations
    <3>1. RunnerInv(r)
      BY <1>1 DEF MigrateInv
    <3>2. Range(runner[r].todo) = {}
      BY <2>1, <3>1 DEF RunnerInv, Running, Range
    <3> QED
      BY <2>1, <3>1, <3>2 DEF RunnerInv
  <2> QED
    BY <1>1, <2>1, CountsAddUp DEF SuccessIsComplete
<1> QED
  BY <1>1, MigrateInvariant, PTL

-----------------------------------------------------------------------------
(* The order in which versions are applied.  With images of several          *)
(* releases it needs what the code cannot see to: that no later release has  *)
(* a file with a version below one that an earlier release already had.      *)

OutOf(r) == {Version[f] : f \in Directory[r] \ Malformed}

NoneInserted ==
  \A r, q \in Runner : \A v \in OutOf(r), w \in OutOf(r) \cap OutOf(q) :
    v < w => v \in OutOf(q)

LEMMA CommitInOrder ==
  ASSUME NoneInserted, MigrateInv, AppliedInOrder, NEW r \in Runner, Commit(r)
  PROVE  AppliedInOrder'
<1>1. Running(r) /\ runner[r].todo # <<>> /\ RunnerInv(r)
  BY DEF Commit, Running, MigrateInv, RunnerInv
<1>2. schemaMigrations' = schemaMigrations \cup {Version[Current(r)]}
  BY DEF Commit
<1>3. Current(r) \in Directory[r] \ Malformed
  BY <1>1, TodoFiles DEF WellFormed
<1>4. \A f \in Range(runner[r].todo) : Version[Current(r)] <= Version[f]
  BY <1>1, TodoFiles
<1>5. ASSUME NEW q \in Runner, NEW f \in Directory[q] \ Malformed,
             NEW g \in Directory[q] \ Malformed,
             Version[f] < Version[g], Version[g] \in schemaMigrations'
      PROVE  Version[f] \in schemaMigrations'
  <2>1. CASE Version[g] \in schemaMigrations
    BY <1>2, <1>5, <2>1 DEF AppliedInOrder
  <2>2. CASE Version[g] = Version[Current(r)]
    <3>1. Version[f] \in OutOf(r)
      <4>1. Version[f] \in OutOf(q) /\ Version[g] \in OutOf(q) /\ Version[g] \in OutOf(r)
        BY <1>3, <2>2 DEF OutOf
      <4> QED
        BY <1>5, <4>1 DEF NoneInserted
    <3>2. PICK h \in Directory[r] \ Malformed : Version[h] = Version[f]
      BY <3>1 DEF OutOf
    <3>3. h \notin Range(runner[r].todo)
      <4>1. Version[h] \in Int /\ Version[Current(r)] \in Int
        BY <1>3 DEF WellFormed
      <4> QED
        BY <1>4, <1>5, <2>2, <3>2, <4>1
    <3> QED
      BY <1>1, <1>2, <3>2, <3>3 DEF RunnerInv
  <2> QED
    BY <1>2, <1>5, <2>1, <2>2
<1> QED
  BY <1>5 DEF AppliedInOrder

\* As long as releases only add versions above those that are out, no version
\* of an image is applied while a lower one of that image is missing.
THEOREM MigrateInOrder ==
  ASSUME NoneInserted
  PROVE  MigrateSpec => []AppliedInOrder
<1>1. MigrateInit => AppliedInOrder
  BY DEF MigrateInit, AppliedInOrder
<1>2. MigrateInv /\ AppliedInOrder /\ [MigrateNext]_vars => AppliedInOrder'
  <2> SUFFICES ASSUME MigrateInv, AppliedInOrder, [MigrateNext]_vars PROVE AppliedInOrder'
    OBVIOUS
  <2>1. CASE \E r \in Runner : Commit(r)
    BY <2>1, CommitInOrder
  <2>2. CASE UNCHANGED schemaMigrations
    BY <2>2 DEF AppliedInOrder
  <2> QED
    BY <2>1, <2>2
       DEF MigrateNext, vars, Start, Check, BeginTx, Execute, Record, Succeed, Fail
<1> QED
  BY <1>1, <1>2, MigrateInvariant, PTL DEF MigrateSpec
=============================================================================
