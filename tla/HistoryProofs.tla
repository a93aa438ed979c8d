--------------------------- MODULE HistoryProofs ----------------------------
(***************************************************************************)
(* The analytics export over the history of the sales, for any number of   *)
(* sales, ticket types, providers and ticks, and for every time that the   *)
(* API and the payment providers may write:                                *)
(*                                                                         *)
(*   HistoryInvariant   HistoryInv, the conjunction of the next two:       *)
(*   HistoryTyped       HistoryType                                        *)
(*   HistoryOrdered     HistoryInOrder                                     *)
(*   SurvivalSound      SurvivalAddsUp                                     *)
(*   WindowsSound       WindowsPartition                                   *)
(*   DemandSound        DemandAddsUp                                       *)
(*   FunnelSound        FunnelMatchesTables                                *)
(*   CascadesSound      FunnelCascades                                     *)
(*   ExportsSound       ExportsAgree                                       *)
(*                                                                         *)
(* HistoryInv tells which events a sale has and in which order they can    *)
(* come.  The funnel is a fold over them in the order of the export: what  *)
(* it knows after some of them is FunnelSays, which every next event keeps, *)
(* because the order of the times that the database wrote is known.        *)
(***************************************************************************)
EXTENDS AnalyticsProofs

-----------------------------------------------------------------------------
(* ORDER BY: counting the earlier events enumerates them in order.         *)

\* Events that the export can put in order: no two have the same sort key.
Keyed(E) ==
  /\ IsFiniteSet(E)
  /\ \A e \in E : \A i \in 1 .. 5 : SortKey(e)[i] \in Int
  /\ \A e \in E : \A f \in E : (\A i \in 1 .. 5 : SortKey(e)[i] = SortKey(f)[i]) => e = f

\* Earlier is a strict total order on such events: irreflexive, transitive and total.
LEMMA EarlierIs ==
  ASSUME NEW e, NEW f
  PROVE  Earlier(e, f) <=> \E i \in 1 .. 5 : /\ SortKey(e)[i] < SortKey(f)[i]
                                             /\ \A j \in 1 .. i - 1 : SortKey(e)[j] = SortKey(f)[j]
BY DEF Earlier

LEMMA EarlierIrreflexive ==
  ASSUME NEW E, Keyed(E), NEW e \in E
  PROVE  ~Earlier(e, e)
<1> DEFINE k == SortKey(e)
<1>1. \A i \in 1 .. 5 : k[i] \in Int
  BY DEF Keyed
<1> HIDE DEF k
<1>2. ~\E i \in 1 .. 5 : k[i] < k[i]
  BY <1>1
<1> QED
  BY <1>2, EarlierIs DEF k

LEMMA EarlierTransitive ==
  ASSUME NEW E, Keyed(E), NEW e \in E, NEW f \in E, NEW g \in E, Earlier(e, f), Earlier(f, g)
  PROVE  Earlier(e, g)
<1> DEFINE k == SortKey(e)
           l == SortKey(f)
           m == SortKey(g)
<1>1. \A i \in 1 .. 5 : k[i] \in Int /\ l[i] \in Int /\ m[i] \in Int
  BY DEF Keyed
<1>2. PICK i \in 1 .. 5 : k[i] < l[i] /\ \A x \in 1 .. i - 1 : k[x] = l[x]
  BY EarlierIs
<1>3. PICK j \in 1 .. 5 : l[j] < m[j] /\ \A x \in 1 .. j - 1 : l[x] = m[x]
  BY EarlierIs
<1> HIDE DEF k, l, m
<1> SUFFICES \E n \in 1 .. 5 : k[n] < m[n] /\ \A x \in 1 .. n - 1 : k[x] = m[x]
  BY EarlierIs DEF k, m
<1>4. CASE i < j
  <2>1. i \in 1 .. j - 1 /\ \A x \in 1 .. i - 1 : x \in 1 .. j - 1
    BY <1>4
  <2>2. k[i] < m[i]
    BY <1>2, <1>3, <2>1
  <2>3. \A x \in 1 .. i - 1 : k[x] = m[x]
    BY <1>2, <1>3, <2>1
  <2> QED
    BY <2>2, <2>3
<1>5. CASE i = j
  <2>1. k[i] < m[i]
    BY <1>1, <1>2, <1>3, <1>5
  <2>2. \A x \in 1 .. i - 1 : k[x] = m[x]
    BY <1>2, <1>3, <1>5
  <2> QED
    BY <2>1, <2>2
<1>6. CASE j < i
  <2>1. j \in 1 .. i - 1 /\ \A x \in 1 .. j - 1 : x \in 1 .. i - 1
    BY <1>6
  <2>2. k[j] < m[j]
    BY <1>2, <1>3, <2>1
  <2>3. \A x \in 1 .. j - 1 : k[x] = m[x]
    BY <1>2, <1>3, <2>1
  <2> QED
    BY <2>2, <2>3
<1> QED
  BY <1>4, <1>5, <1>6

LEMMA EarlierTotal ==
  ASSUME NEW E, Keyed(E), NEW e \in E, NEW f \in E, e # f
  PROVE  Earlier(e, f) \/ Earlier(f, e)
<1> DEFINE k == SortKey(e)
           l == SortKey(f)
           D == {i \in 1 .. 5 : k[i] # l[i]}
<1>1. \A i \in 1 .. 5 : k[i] \in Int /\ l[i] \in Int
  BY DEF Keyed
<1>2. D # {}
  BY DEF Keyed
<1> HIDE DEF k, l
<1>3. D \subseteq Nat
  OBVIOUS
<1> HIDE DEF D
<1>4. PICK n \in D : \A m \in D : n <= m
  BY <1>2, <1>3, LeastNat
<1>5. n \in 1 .. 5 /\ k[n] # l[n]
  BY <1>4 DEF D
<1>6. \A x \in 1 .. n - 1 : k[x] = l[x]
  BY <1>4, <1>5 DEF D
<1>7. k[n] < l[n] \/ l[n] < k[n]
  BY <1>1, <1>5
<1>8. \A x \in 1 .. n - 1 : l[x] = k[x]
  BY <1>6
<1> HIDE DEF D
<1> QED
  BY <1>5, <1>6, <1>7, <1>8, EarlierIs DEF k, l

\* How many of them are earlier.
Before(E, e) == Cardinality({f \in E : Earlier(f, e)})

\* The number of earlier events is a place, and grows with the order.
LEMMA BeforeInRange ==
  ASSUME NEW E, Keyed(E), NEW e \in E
  PROVE  Before(E, e) \in 0 .. Cardinality(E) - 1
<1> DEFINE S == {f \in E : Earlier(f, e)}
           T == E \ {e}
<1>1. IsFiniteSet(E) /\ S \in SUBSET T
  BY EarlierIrreflexive DEF Keyed
<1>2. IsFiniteSet(T) /\ Cardinality(T) = Cardinality(E) - 1
  BY <1>1, FS_RemoveElement
<1> HIDE DEF S, T
<1>3. Cardinality(S) \in Nat /\ Cardinality(S) <= Cardinality(T) /\ Cardinality(T) \in Nat
  BY <1>1, <1>2, FS_Subset, FS_CardinalityType
<1>4. Cardinality(E) \in Nat
  BY <1>1, FS_CardinalityType
<1> QED
  BY <1>2, <1>3, <1>4 DEF Before, S

LEMMA BeforeGrows ==
  ASSUME NEW E, Keyed(E), NEW e \in E, NEW f \in E, Earlier(e, f)
  PROVE  Before(E, e) < Before(E, f)
<1> DEFINE S == {g \in E : Earlier(g, e)}
           T == {g \in E : Earlier(g, f)}
<1>1. S \in SUBSET T
  BY EarlierTransitive
<1>2. e \in T /\ e \notin S
  BY EarlierIrreflexive
<1>3. IsFiniteSet(T)
  <2>1. T \in SUBSET E
    OBVIOUS
  <2> HIDE DEF T
  <2> QED
    BY <2>1, FS_Subset DEF Keyed
<1> HIDE DEF S, T
<1>4. /\ IsFiniteSet(S) /\ Cardinality(S) <= Cardinality(T)
      /\ Cardinality(T) = Cardinality(S) => T = S
  BY <1>1, <1>3, FS_Subset
<1>5. Cardinality(S) \in Nat /\ Cardinality(T) \in Nat /\ Cardinality(S) # Cardinality(T)
  BY <1>2, <1>3, <1>4, FS_CardinalityType
<1> QED
  BY <1>4, <1>5 DEF Before, S, T

\* Sorting enumerates the events, the earlier before the later.
LEMMA SortedEnumerates ==
  ASSUME NEW E, Keyed(E)
  PROVE  LET s == Sorted(E)
             n == Cardinality(E)
         IN /\ n \in Nat /\ s \in [1 .. n -> E] /\ Len(s) = n /\ s \in Seq(E)
            /\ \A i \in 1 .. n : Before(E, s[i]) = i - 1
            /\ \A e \in E : \E i \in 1 .. n : s[i] = e
            /\ \A i \in 1 .. n : \A j \in 1 .. n : i < j => Earlier(s[i], s[j])
            /\ \A i \in 1 .. n : \A j \in 1 .. n : i # j => s[i] # s[j]
<1> DEFINE s == Sorted(E)
           n == Cardinality(E)
           T == 0 .. n - 1
           f == [e \in E |-> Before(E, e)]
           before == {<<Before(E, e), e>> : e \in E}
           pair(i) == CHOOSE p \in before : p[1] = i - 1
<1>1. IsFiniteSet(E) /\ n \in Nat
  BY FS_CardinalityType DEF Keyed
<1>2. IsFiniteSet(T) /\ Cardinality(T) = n
  BY <1>1, FS_Interval
<1>3. f \in Injection(E, T)
  <2>1. f \in [E -> T]
    BY BeforeInRange
  <2>2. \A x \in E : \A y \in E : f[x] = f[y] => x = y
    <3> SUFFICES ASSUME NEW x \in E, NEW y \in E, x # y PROVE f[x] # f[y]
      OBVIOUS
    <3>1. Before(E, x) \in Int /\ Before(E, y) \in Int
      BY BeforeInRange
    <3>2. Before(E, x) < Before(E, y) \/ Before(E, y) < Before(E, x)
      BY EarlierTotal, BeforeGrows
    <3>3. Before(E, x) # Before(E, y)
      BY <3>1, <3>2
    <3> QED
      BY <3>3
  <2> HIDE DEF f, T
  <2> QED
    BY <2>1, <2>2 DEF Injection, IsInjective
<1>4. f \in Surjection(E, T)
  <2> HIDE DEF f, T, n
  <2> QED
    BY <1>1, <1>2, <1>3, FS_Injection DEF n
<1>5. \A i \in 1 .. n : \E e \in E : Before(E, e) = i - 1
  <2>1. \A t \in T : \E e \in E : f[e] = t
    BY <1>4 DEF Surjection
  <2>2. \A i \in 1 .. n : i - 1 \in T
    BY <1>1
  <2> HIDE DEF T
  <2> QED
    BY <2>1, <2>2
<1>6. s = [i \in 1 .. n |-> pair(i)[2]]
  BY DEF Sorted, Before
<1>7. ASSUME NEW i \in 1 .. n
      PROVE  s[i] \in E /\ Before(E, s[i]) = i - 1
  <2>1. PICK e \in E : Before(E, e) = i - 1
    BY <1>5
  <2>2. <<Before(E, e), e>> \in before /\ <<Before(E, e), e>>[1] = i - 1
    BY <2>1
  <2>3. pair(i) \in before /\ pair(i)[1] = i - 1
    <3> HIDE DEF before
    <3> QED
      BY <2>2
  <2>4. s[i] = pair(i)[2]
    BY <1>6
  <2> HIDE DEF pair, s
  <2>5. PICK x \in E : pair(i) = <<Before(E, x), x>>
    BY <2>3
  <2> QED
    BY <2>3, <2>4, <2>5
<1> HIDE DEF before, pair, f, T, s
<1>8. s \in [1 .. n -> E] /\ Len(s) = n /\ s \in Seq(E)
  <2>1. DOMAIN s = 1 .. n /\ s = [i \in 1 .. n |-> s[i]]
    BY <1>6
  <2>2. s \in [1 .. n -> E]
    BY <1>7, <2>1
  <2> HIDE DEF n
  <2> QED
    BY <1>1, <2>2
<1>9. \A e \in E : \E i \in 1 .. n : s[i] = e
  <2> SUFFICES ASSUME NEW e \in E PROVE \E i \in 1 .. n : s[i] = e
    OBVIOUS
  <2> DEFINE i == Before(E, e) + 1
  <2>1. i \in 1 .. n /\ i - 1 = Before(E, e)
    BY <1>1, BeforeInRange
  <2>2. s[i] \in E /\ Before(E, s[i]) = Before(E, e)
    BY <1>7, <2>1
  <2> DEFINE x == s[i]
  <2> HIDE DEF i
  <2>3. x = e
    <3> SUFFICES ASSUME x # e PROVE FALSE
      OBVIOUS
    <3> HIDE DEF x
    <3>1. Before(E, x) \in Int /\ Before(E, e) \in Int /\ Before(E, x) = Before(E, e)
      BY <2>2, BeforeInRange DEF x
    <3>2. x \in E
      BY <2>2 DEF x
    <3>3. Before(E, x) < Before(E, e) \/ Before(E, e) < Before(E, x)
      BY <3>2, EarlierTotal, BeforeGrows
    <3> QED
      BY <3>1, <3>3
  <2> QED
    BY <2>1, <2>3
<1>10. \A i \in 1 .. n : \A j \in 1 .. n : i < j => Earlier(s[i], s[j])
  <2> SUFFICES ASSUME NEW i \in 1 .. n, NEW j \in 1 .. n, i < j PROVE Earlier(s[i], s[j])
    OBVIOUS
  <2>1. s[i] \in E /\ s[j] \in E /\ Before(E, s[i]) = i - 1 /\ Before(E, s[j]) = j - 1
    BY <1>7
  <2>2. s[i] # s[j]
    BY <2>1
  <2>3. ~Earlier(s[j], s[i])
    <3> SUFFICES ASSUME Earlier(s[j], s[i]) PROVE FALSE
      OBVIOUS
    <3>1. Before(E, s[j]) < Before(E, s[i])
      BY <2>1, BeforeGrows
    <3>2. j - 1 < i - 1
      BY <2>1, <3>1
    <3> QED
      BY <3>2
  <2> QED
    BY <2>1, <2>2, <2>3, EarlierTotal
<1>11. \A i \in 1 .. n : \A j \in 1 .. n : i # j => s[i] # s[j]
  <2> SUFFICES ASSUME NEW i \in 1 .. n, NEW j \in 1 .. n, s[i] = s[j] PROVE i = j
    OBVIOUS
  <2>1. i - 1 = j - 1
    BY <1>7
  <2> QED
    BY <2>1
<1> HIDE DEF n
<1> QED
  BY <1>1, <1>7, <1>8, <1>9, <1>10, <1>11 DEF s, n

\* What an export reads of them.
LEMMA ReadsEvents ==
  ASSUME NEW all, Keyed(all), NEW start, NEW end, NEW limit \in Nat
  PROVE  LET events == ReadEvents(all, start, end, limit)
         IN Distinct(events) /\ EventsOf(events) \subseteq all
<1> DEFINE E == {e \in all : /\ start # 0 => e.at >= start
                             /\ end # 0 => e.at < end}
           rows == Sorted(E)
           n == Cardinality(E)
           m == Min({limit, Len(rows)})
           events == ReadEvents(all, start, end, limit)
<1>1. E \in SUBSET all
  OBVIOUS
<1>2. events = SubSeq(rows, 1, m)
  BY DEF ReadEvents
<1> HIDE DEF E
<1>3. Keyed(E)
  BY <1>1, FS_Subset DEF Keyed
<1>4. /\ n \in Nat /\ rows \in [1 .. n -> E] /\ Len(rows) = n /\ rows \in Seq(E)
      /\ \A i \in 1 .. n : \A j \in 1 .. n : i # j => rows[i] # rows[j]
  BY <1>3, SortedEnumerates
<1> HIDE DEF rows, n, events
<1>5. m \in Nat /\ m <= n
  <2>1. m = IF limit <= n THEN limit ELSE n
    <3>1. n \in Int /\ limit \in Int /\ Len(rows) = n
      BY <1>4
    <3>2. Min({limit, n}) = IF limit <= n THEN limit ELSE n
      BY <3>1, MinMaxOfTwo
    <3> QED
      BY <3>1, <3>2
  <2> HIDE DEF m
  <2> QED
    BY <1>4, <2>1
<1> HIDE DEF m
<1>6. events = [i \in 1 .. m |-> rows[i]]
  BY <1>2, <1>4, <1>5
<1>7. DOMAIN events = 1 .. m /\ Len(events) = m /\ \A i \in 1 .. m : events[i] = rows[i]
  BY <1>5, <1>6
<1>8. \A i \in 1 .. m : i \in 1 .. n
  BY <1>4, <1>5
<1>9. Distinct(events)
  BY <1>4, <1>5, <1>7, <1>8 DEF Distinct
<1>10. EventsOf(events) \subseteq all
  BY <1>1, <1>4, <1>7, <1>8 DEF EventsOf
<1> QED
  BY <1>9, <1>10 DEF events

-----------------------------------------------------------------------------
(* The invariant of the history.                                           *)

HistoryInv == HistoryType /\ HistoryInOrder

\* What both say of one sale.
RowType(s, r) ==
  /\ DOMAIN r = Columns
  /\ r.items \in [Ticket -> Nat]
  /\ r.provider # ""
  /\ r.createdAt \in Int \ {0} /\ r.processedAt \in Int \ {0}
  /\ r.itemsAt \in Nat \ {0} /\ r.sentAt \in Nat /\ r.issuedAt \in Nat
  /\ r.outbox \in Seq(Int)
  /\ IsFiniteSet(DOMAIN r.checkIns)
  /\ \A u \in DOMAIN r.checkIns :
       u \in Ticket \X Nat /\ r.items[u[1]] > 0 /\ r.checkIns[u] \in Nat

RowInOrder(s, r, time, again) ==
  /\ r.itemsAt <= time
  /\ <<r.status, r.payment>> \in {<<"PENDING_PAYMENT", "PENDING">>,
                                   <<"COMPLETED", "APPROVED">>, <<"FAILED", "FAILED">>}
  /\ r.issuedAt > 0 => /\ r.itemsAt <= r.issuedAt /\ r.issuedAt <= time
                       /\ r.status = "COMPLETED" \/ s \in again
  /\ r.sentAt > 0 => r.issuedAt > 0 /\ r.issuedAt <= r.sentAt
  /\ \A u \in DOMAIN r.checkIns : r.issuedAt > 0 /\ r.issuedAt <= r.checkIns[u]

Common ==
  /\ now \in Nat \ {0}
  /\ IsFiniteSet(DOMAIN sales) /\ DOMAIN sales \subseteq Sale
  /\ reopened \subseteq DOMAIN sales
  /\ available \in [Ticket -> Nat]

\* HistoryInv, row by row; and the same of the next state.
LEMMA InvByRows ==
  HistoryInv <=>
    Common /\ \A s \in DOMAIN sales : RowType(s, sales[s]) /\ RowInOrder(s, sales[s], now, reopened)
<1>1. ASSUME NEW s \in DOMAIN sales, sales[s].items \in [Ticket -> Nat]
      PROVE  \A u : u \in Ticket \X Nat => (u[1] \in Line(s) <=> sales[s].items[u[1]] > 0)
  BY DEF Line
<1>2. ASSUME NEW s \in DOMAIN sales, sales[s].items \in [Ticket -> Nat]
      PROVE  (\A u \in DOMAIN sales[s].checkIns :
                /\ u \in Ticket \X Nat /\ u[1] \in Line(s)
                /\ sales[s].checkIns[u] \in Nat) <=>
             (\A u \in DOMAIN sales[s].checkIns :
                u \in Ticket \X Nat /\ sales[s].items[u[1]] > 0 /\ sales[s].checkIns[u] \in Nat)
  BY <1>1, <1>2
<1>3. HistoryType <=> Common /\ \A s \in DOMAIN sales : RowType(s, sales[s])
  BY <1>2 DEF HistoryType, Common, RowType
<1>4. HistoryInOrder <=> \A s \in DOMAIN sales : RowInOrder(s, sales[s], now, reopened)
  BY DEF HistoryInOrder, RowInOrder
<1> QED
  BY <1>3, <1>4 DEF HistoryInv

LEMMA InvByRowsNext ==
  (HistoryInv <=>
     Common /\ \A s \in DOMAIN sales : RowType(s, sales[s]) /\ RowInOrder(s, sales[s], now, reopened))'
BY InvByRows, PTL

\* A step that changes one row, or adds one, and leaves the clock alone.
LEMMA OneRow ==
  ASSUME HistoryInv, NEW s, NEW r,
         s \in Sale, now' = now, reopened' \in SUBSET DOMAIN sales', reopened \subseteq reopened',
         available' \in [Ticket -> Nat],
         DOMAIN sales' = DOMAIN sales \cup {s},
         \A q \in DOMAIN sales \ {s} : sales'[q] = sales[q],
         sales'[s] = r, RowType(s, r), RowInOrder(s, r, now', reopened')
  PROVE  HistoryInv'
<1>1. Common /\ \A q \in DOMAIN sales : RowType(q, sales[q]) /\ RowInOrder(q, sales[q], now, reopened)
  BY InvByRows
<1>2. Common'
  <2>1. IsFiniteSet(DOMAIN sales')
    BY <1>1, FS_AddElement DEF Common
  <2> QED
    BY <1>1, <2>1 DEF Common
<1>3. ASSUME NEW q \in DOMAIN sales'
      PROVE  RowType(q, sales'[q]) /\ RowInOrder(q, sales'[q], now', reopened')
  <2>1. CASE q = s
    BY <2>1 DEF RowInOrder, RowType
  <2>2. CASE q # s
    <3>1. q \in DOMAIN sales /\ sales'[q] = sales[q]
      BY <2>2
    <3> QED
      BY <1>1, <3>1 DEF RowInOrder, RowType
  <2> QED
    BY <2>1, <2>2
<1>4. (Common /\ \A q \in DOMAIN sales : RowType(q, sales[q]) /\ RowInOrder(q, sales[q], now, reopened))'
  BY <1>2, <1>3 DEF RowType
<1>5. HistoryInv' <=>
        (Common /\ \A q \in DOMAIN sales : RowType(q, sales[q]) /\ RowInOrder(q, sales[q], now, reopened))'
  BY InvByRowsNext
<1> QED
  BY <1>4, <1>5

\* The bound on the tickets of a line.
LEMMA MostUnits ==
  ASSUME HistoryInv, NEW s \in DOMAIN sales
  PROVE  LET m == Max({0} \cup Range(sales[s].items))
         IN m \in Int /\ \A t \in Ticket : sales[s].items[t] \in Nat /\ sales[s].items[t] <= m
<1> DEFINE items == sales[s].items
           R == {0} \cup Range(items)
           m == Max(R)
<1>1. items \in [Ticket -> Nat]
  BY DEF HistoryInv, HistoryType
<1>2. IsFiniteSet(R) /\ R \subseteq Int /\ R # {}
  <2>1. Range(items) = {items[x] : x \in DOMAIN items}
    BY DEF Range
  <2>2. IsFiniteSet(DOMAIN items)
    BY <1>1, HistoryAssumption
  <2>3. IsFiniteSet(Range(items)) /\ Range(items) \subseteq Int
    BY <1>1, <2>1, <2>2, FiniteRange
  <2>4. IsFiniteSet({0})
    BY FS_Singleton
  <2>5. IsFiniteSet(R)
    <3> DEFINE Q == Range(items)
    <3> HIDE DEF Q
    <3> QED
      BY <2>3, <2>4, FS_Union DEF Q
  <2>6. 0 \in R /\ R \subseteq Int
    BY <2>3
  <2> QED
    BY <2>5, <2>6
<1>3. \A t \in Ticket : items[t] \in R
  BY <1>1 DEF Range
<1>4. m \in R /\ \A x \in R : x <= m
  <2> HIDE DEF R
  <2> QED
    BY <1>2, GreatestInt
<1>5. m \in Int
  <2> HIDE DEF R, m
  <2> QED
    BY <1>2, <1>4
<1> HIDE DEF m
<1>6. \A t \in Ticket : items[t] \in Nat /\ items[t] <= m
  BY <1>1, <1>3, <1>4
<1> QED
  BY <1>5, <1>6 DEF m

\* The lines of a sale and their units are finitely many.
LEMMA UnitsOf ==
  ASSUME HistoryInv, NEW s \in DOMAIN sales
  PROVE  /\ IsFiniteSet(Line(s)) /\ Line(s) \subseteq Ticket
         /\ IsFiniteSet(Units(s))
         /\ \A u \in Units(s) : u \in Ticket \X Nat /\ u[1] \in Line(s) /\ sales[s].items[u[1]] > 0
<1> DEFINE items == sales[s].items
           R == {0} \cup Range(items)
           m == Max(R)
<1>1. items \in [Ticket -> Nat]
  BY DEF HistoryInv, HistoryType
<1>3. m \in Int
  BY MostUnits
<1>4. IsFiniteSet(Line(s)) /\ Line(s) \subseteq Ticket
  <2>1. Line(s) \in SUBSET Ticket
    BY DEF Line
  <2> QED
    BY <2>1, HistoryAssumption, FS_Subset
<1>5. Units(s) \in SUBSET (Line(s) \X (1 .. m))
  BY DEF Units
<1> HIDE DEF m
<1>6. IsFiniteSet(1 .. m)
  BY <1>3, FS_Interval
<1>7. IsFiniteSet(Line(s) \X (1 .. m))
  BY <1>4, <1>6, FS_Product
<1>8. IsFiniteSet(Units(s))
  BY <1>5, <1>7, FS_Subset
<1>9. ASSUME NEW u \in Units(s)
      PROVE  u \in Ticket \X Nat /\ u[1] \in Line(s) /\ items[u[1]] > 0
  <2>1. u \in Line(s) \X (1 .. m)
    BY <1>5
  <2>2. u[1] \in Line(s) /\ u[2] \in 1 .. m /\ u = <<u[1], u[2]>>
    BY <2>1
  <2>3. u[2] \in Nat
    BY <1>3, <2>2
  <2> QED
    BY <1>4, <2>2, <2>3 DEF Line
<1> QED
  BY <1>4, <1>8, <1>9

\* A new row keeps the invariant.
LEMMA StepReserve ==
  ASSUME HistoryInv, NEW s \in Sale, NEW items \in Orders, NEW at \in Foreign, Reserve(s, items, at)
  PROVE  HistoryInv'
<1> DEFINE r == [createdAt |-> at, status |-> "PENDING_PAYMENT",
                 items |-> items, itemsAt |-> now,
                 payment |-> "PENDING", provider |-> "pending",
                 processedAt |-> now, outbox |-> <<>>, sentAt |-> 0,
                 issuedAt |-> 0, checkIns |-> <<>>]
<1>1. items \in [Ticket -> Nat] /\ at \in Int \ {0}
  BY HistoryAssumption
<1>2. Common
  BY InvByRows
<1>3. sales' = Insert(sales, s, r) /\ now' = now /\ reopened' = reopened
  BY DEF Reserve
<1>4. DOMAIN sales' = DOMAIN sales \cup {s}
  <2> HIDE DEF r
  <2> QED
    BY <1>3 DEF Insert
<1>5. /\ sales'[s] = r
      /\ \A q \in DOMAIN sales \ {s} : sales'[q] = sales[q]
  <2> HIDE DEF r
  <2> QED
    BY <1>3 DEF Insert
<1>6. available' \in [Ticket -> Nat]
  <2>1. available' = [t \in Ticket |-> available[t] - items[t]]
    BY DEF Reserve
  <2>2. \A t \in Ticket : available[t] \in Nat /\ items[t] \in Nat /\ items[t] <= available[t]
    BY <1>1, <1>2 DEF Reserve, Enough, Common
  <2>3. \A t \in Ticket : available[t] - items[t] \in Nat
    BY <2>2
  <2> QED
    BY <2>1, <2>3
<1>7. RowType(s, r)
  <2>1. DOMAIN r = Columns
    BY DEF Columns
  <2>2. IsFiniteSet(DOMAIN r.checkIns) /\ DOMAIN r.checkIns = {}
    <3>1. DOMAIN <<>> = {}
      OBVIOUS
    <3> QED
      BY <3>1, FS_EmptySet
  <2>3. r.outbox \in Seq(Int)
    OBVIOUS
  <2> QED
    BY <1>1, <1>2, <2>1, <2>2, <2>3 DEF RowType, Common
<1>8. RowInOrder(s, r, now', reopened')
  <2>1. DOMAIN r.checkIns = {}
    OBVIOUS
  <2> QED
    BY <1>2, <1>3, <2>1 DEF RowInOrder, Common
<1>9. reopened' \in SUBSET DOMAIN sales' /\ reopened \subseteq reopened'
  BY <1>2, <1>3, <1>4 DEF Common
<1> HIDE DEF r
<1> QED
  BY <1>3, <1>4, <1>5, <1>6, <1>7, <1>8, <1>9, OneRow

\* A step that writes columns of a sale that is there.
LEMMA Rewrite ==
  ASSUME HistoryInv, NEW s \in DOMAIN sales, NEW r,
         sales' = [sales EXCEPT ![s] = r], now' = now,
         reopened' \in SUBSET DOMAIN sales, reopened \subseteq reopened',
         available' \in [Ticket -> Nat], RowType(s, r), RowInOrder(s, r, now', reopened')
  PROVE  HistoryInv'
<1>1. Common
  BY InvByRows
<1>2. DOMAIN sales' = DOMAIN sales \cup {s} /\ s \in Sale
  BY <1>1 DEF Common
<1>3. sales'[s] = r /\ \A q \in DOMAIN sales \ {s} : sales'[q] = sales[q]
  OBVIOUS
<1> QED
  BY <1>2, <1>3, OneRow

\* What is known of the row of a sale.
LEMMA RowOf ==
  ASSUME HistoryInv, NEW s \in DOMAIN sales
  PROVE  Common /\ RowType(s, sales[s]) /\ RowInOrder(s, sales[s], now, reopened)
BY InvByRows

\* Each operation on a row keeps the invariant.
LEMMA StepReserveAgain ==
  ASSUME HistoryInv, NEW s \in DOMAIN sales, ReserveAgain(s)
  PROVE  HistoryInv'
<1> DEFINE o == sales[s]
           r == [o EXCEPT !.status = "PENDING_PAYMENT", !.payment = "PENDING", !.processedAt = now]
<1>1. Common /\ RowType(s, o) /\ RowInOrder(s, o, now, reopened)
  BY RowOf
<1>2. sales' = [sales EXCEPT ![s] = r] /\ now' = now /\ reopened' = reopened \cup {s}
  BY DEF ReserveAgain
<1>3. available' \in [Ticket -> Nat]
  <2>1. available' = [t \in Ticket |-> available[t] - o.items[t]]
    BY DEF ReserveAgain
  <2>2. \A t \in Ticket : available[t] \in Nat /\ o.items[t] \in Nat /\ o.items[t] <= available[t]
    BY <1>1 DEF ReserveAgain, Enough, Common, RowType
  <2>3. \A t \in Ticket : available[t] - o.items[t] \in Nat
    BY <2>2
  <2> QED
    BY <2>1, <2>3
<1> HIDE DEF o
<1>4. RowType(s, r)
  <2>1. now \in Int \ {0}
    BY <1>1 DEF Common
  <2> QED
    BY <1>1, <2>1 DEF RowType, Columns
<1>5. RowInOrder(s, r, now', reopened')
  BY <1>1, <1>2 DEF RowInOrder, RowType, Columns, Common
<1>6. reopened' \in SUBSET DOMAIN sales /\ reopened \subseteq reopened'
  BY <1>1, <1>2 DEF Common
<1> HIDE DEF r
<1> QED
  BY <1>2, <1>3, <1>4, <1>5, <1>6, Rewrite

LEMMA StepIntend ==
  ASSUME HistoryInv, NEW s \in DOMAIN sales, NEW p \in Provider, Intend(s, p)
  PROVE  HistoryInv'
<1> DEFINE o == sales[s]
           r == [o EXCEPT !.provider = p, !.processedAt = now]
<1>1. Common /\ RowType(s, o) /\ RowInOrder(s, o, now, reopened)
  BY RowOf
<1>2. /\ sales' = [sales EXCEPT ![s] = r]
      /\ now' = now /\ reopened' = reopened /\ available' = available
  BY DEF Intend
<1> HIDE DEF o
<1>3. RowType(s, r)
  <2>1. now \in Int \ {0}
    BY <1>1 DEF Common
  <2>2. p # ""
    BY HistoryAssumption
  <2> QED
    BY <1>1, <2>1, <2>2 DEF RowType, Columns
<1>4. RowInOrder(s, r, now', reopened')
  BY <1>1, <1>2 DEF RowInOrder, RowType, Columns
<1>5. reopened' \in SUBSET DOMAIN sales /\ reopened \subseteq reopened' /\ available' \in [Ticket -> Nat]
  BY <1>1, <1>2 DEF Common
<1> HIDE DEF r
<1> QED
  BY <1>2, <1>3, <1>4, <1>5, Rewrite

LEMMA StepSettle ==
  ASSUME HistoryInv, NEW s \in DOMAIN sales, NEW p \in Provider, NEW paid \in BOOLEAN,
         NEW at \in Foreign \cup {now}, Settle(s, p, paid, at)
  PROVE  HistoryInv'
<1> DEFINE o == sales[s]
           status == IF paid THEN "COMPLETED" ELSE "FAILED"
           payment == IF paid THEN "APPROVED" ELSE "FAILED"
           outbox == Append(o.outbox, now)
           r == [o EXCEPT !.status = status, !.payment = payment,
                          !.provider = p, !.processedAt = at, !.outbox = outbox]
<1>1. Common /\ RowType(s, o) /\ RowInOrder(s, o, now, reopened)
  BY RowOf
<1>2. /\ sales' = [sales EXCEPT ![s] = r]
      /\ now' = now /\ reopened' = reopened
  BY DEF Settle
<1>3. available' \in [Ticket -> Nat]
  <2>1. available' = IF paid THEN available ELSE [t \in Ticket |-> available[t] + o.items[t]]
    BY DEF Settle
  <2>2. \A t \in Ticket : available[t] \in Nat /\ o.items[t] \in Nat
    BY <1>1 DEF Common, RowType
  <2>3. \A t \in Ticket : available[t] + o.items[t] \in Nat
    BY <2>2
  <2> QED
    BY <1>1, <2>1, <2>3 DEF Common
<1>4. outbox \in Seq(Int) /\ at \in Int \ {0}
  <2>1. now \in Int \ {0}
    BY <1>1 DEF Common
  <2> HIDE DEF o
  <2>2. o.outbox \in Seq(Int)
    BY <1>1 DEF RowType
  <2>3. outbox \in Seq(Int)
    BY <2>1, <2>2
  <2> QED
    BY <2>1, <2>3, HistoryAssumption
<1>5. o.issuedAt > 0 => s \in reopened
  BY <1>1 DEF RowInOrder, Settle
<1> HIDE DEF o, outbox
<1>6. RowType(s, r)
  <2> HIDE DEF status, payment
  <2> QED
    BY <1>1, <1>4, HistoryAssumption DEF RowType, Columns
<1>7. RowInOrder(s, r, now', reopened')
  <2>1. <<status, payment>> \in {<<"COMPLETED", "APPROVED">>, <<"FAILED", "FAILED">>}
    OBVIOUS
  <2> HIDE DEF status, payment
  <2> QED
    BY <1>1, <1>2, <1>5, <2>1 DEF RowInOrder, RowType, Columns
<1>8. reopened' \in SUBSET DOMAIN sales /\ reopened \subseteq reopened'
  BY <1>1, <1>2 DEF Common
<1> HIDE DEF r
<1> QED
  BY <1>2, <1>3, <1>6, <1>7, <1>8, Rewrite

LEMMA StepIssue ==
  ASSUME HistoryInv, NEW s \in DOMAIN sales, Issue(s)
  PROVE  HistoryInv'
<1> DEFINE o == sales[s]
           r == [o EXCEPT !.issuedAt = now]
<1>1. Common /\ RowType(s, o) /\ RowInOrder(s, o, now, reopened)
  BY RowOf
<1>2. /\ sales' = [sales EXCEPT ![s] = r] /\ o.status = "COMPLETED" /\ o.issuedAt = 0
      /\ now' = now /\ reopened' = reopened /\ available' = available
  BY DEF Issue
<1> HIDE DEF o
<1>3. RowType(s, r)
  BY <1>1 DEF RowType, Columns, Common
<1>4. o.sentAt = 0 /\ DOMAIN o.checkIns = {}
  <2>1. o.sentAt \in Nat
    BY <1>1 DEF RowType
  <2>3. ~(o.issuedAt > 0)
    BY <1>2
  <2>2. ~(o.sentAt > 0) /\ \A u \in DOMAIN o.checkIns : FALSE
    BY <1>1, <2>3 DEF RowInOrder
  <2> QED
    BY <2>1, <2>2
<1>5. RowInOrder(s, r, now', reopened')
  <2>1. /\ r.itemsAt = o.itemsAt /\ r.status = o.status /\ r.payment = o.payment
        /\ r.issuedAt = now /\ r.sentAt = o.sentAt /\ r.checkIns = o.checkIns
    BY <1>1 DEF RowType, Columns
  <2>2. now \in Nat \ {0} /\ o.itemsAt \in Nat
    BY <1>1 DEF RowType, Common
  <2> HIDE DEF r
  <2> QED
    BY <1>1, <1>2, <1>4, <2>1, <2>2 DEF RowInOrder
<1>6. reopened' \in SUBSET DOMAIN sales /\ reopened \subseteq reopened' /\ available' \in [Ticket -> Nat]
  BY <1>1, <1>2 DEF Common
<1> HIDE DEF r
<1> QED
  BY <1>2, <1>3, <1>5, <1>6, Rewrite

LEMMA StepMarkSent ==
  ASSUME HistoryInv, NEW s \in DOMAIN sales, MarkSent(s)
  PROVE  HistoryInv'
<1> DEFINE o == sales[s]
           r == [o EXCEPT !.sentAt = now]
<1>1. Common /\ RowType(s, o) /\ RowInOrder(s, o, now, reopened)
  BY RowOf
<1>2. /\ sales' = [sales EXCEPT ![s] = r] /\ o.issuedAt > 0
      /\ now' = now /\ reopened' = reopened /\ available' = available
  BY DEF MarkSent
<1> HIDE DEF o
<1>3. RowType(s, r)
  BY <1>1 DEF RowType, Columns, Common
<1>4. RowInOrder(s, r, now', reopened')
  BY <1>1, <1>2 DEF RowInOrder, RowType, Columns, Common
<1>5. reopened' \in SUBSET DOMAIN sales /\ reopened \subseteq reopened' /\ available' \in [Ticket -> Nat]
  BY <1>1, <1>2 DEF Common
<1> HIDE DEF r
<1> QED
  BY <1>2, <1>3, <1>4, <1>5, Rewrite

LEMMA StepCheckIn ==
  ASSUME HistoryInv, NEW s \in DOMAIN sales, NEW unit \in Units(s), CheckIn(s, unit)
  PROVE  HistoryInv'
<1> DEFINE o == sales[s]
           done == Insert(o.checkIns, unit, now)
           r == [o EXCEPT !.checkIns = done]
<1>1. Common /\ RowType(s, o) /\ RowInOrder(s, o, now, reopened)
  BY RowOf
<1>2. /\ sales' = [sales EXCEPT ![s] = r] /\ o.issuedAt > 0
      /\ now' = now /\ reopened' = reopened /\ available' = available
  BY DEF CheckIn
<1>3. unit \in Ticket \X Nat /\ o.items[unit[1]] > 0
  BY UnitsOf
<1> HIDE DEF o
<1>4. /\ DOMAIN done = DOMAIN o.checkIns \cup {unit}
      /\ \A u \in DOMAIN done :
           done[u] = now \/ (u \in DOMAIN o.checkIns /\ done[u] = o.checkIns[u])
  BY DEF Insert
<1>5. IsFiniteSet(DOMAIN done)
  <2>1. IsFiniteSet(DOMAIN o.checkIns)
    BY <1>1 DEF RowType
  <2> HIDE DEF done
  <2> QED
    BY <1>4, <2>1, FS_AddElement
<1> HIDE DEF done
<1>6. RowType(s, r)
  BY <1>1, <1>3, <1>4, <1>5 DEF RowType, Columns, Common
<1>7. RowInOrder(s, r, now', reopened')
  BY <1>1, <1>2, <1>4 DEF RowInOrder, RowType, Columns, Common
<1>8. reopened' \in SUBSET DOMAIN sales /\ reopened \subseteq reopened' /\ available' \in [Ticket -> Nat]
  BY <1>1, <1>2 DEF Common
<1> HIDE DEF r
<1> QED
  BY <1>2, <1>6, <1>7, <1>8, Rewrite

\* So does the clock,
LEMMA StepTick ==
  ASSUME HistoryInv, Tick
  PROVE  HistoryInv'
<1>1. Common /\ \A s \in DOMAIN sales : RowType(s, sales[s]) /\ RowInOrder(s, sales[s], now, reopened)
  BY InvByRows
<1>2. now' = now + 1 /\ sales' = sales /\ available' = available /\ reopened' = reopened
  BY DEF Tick
<1>3. Common'
  BY <1>1, <1>2 DEF Common
<1>4. ASSUME NEW s \in DOMAIN sales
      PROVE  RowType(s, sales[s]) /\ RowInOrder(s, sales[s], now', reopened')
  <2> DEFINE o == sales[s]
  <2>1. RowType(s, o) /\ RowInOrder(s, o, now, reopened) /\ now \in Nat
    BY <1>1 DEF Common
  <2> HIDE DEF o
  <2>2. o.itemsAt \in Nat /\ o.issuedAt \in Nat
    BY <2>1 DEF RowType
  <2>3. /\ o.itemsAt <= now => o.itemsAt <= now'
        /\ o.issuedAt <= now => o.issuedAt <= now'
    BY <1>2, <2>1, <2>2
  <2>4. RowInOrder(s, o, now', reopened')
    BY <1>2, <2>1, <2>3 DEF RowInOrder
  <2> QED
    BY <2>1, <2>4 DEF o
<1> QED
  BY <1>2, <1>3, <1>4, InvByRowsNext

\* and with it every step.
LEMMA HistoryStep ==
  ASSUME HistoryInv, [HistoryNext]_vars
  PROVE  HistoryInv'
<1>1. CASE UNCHANGED vars
  BY <1>1 DEF vars, HistoryInv, HistoryType, HistoryInOrder, Line
<1>2. CASE Tick
  BY <1>2, StepTick
<1>3. ASSUME NEW s \in Sale, NEW items \in Orders, NEW at \in Foreign, Reserve(s, items, at)
      PROVE  HistoryInv'
  BY <1>3, StepReserve
<1>4. ASSUME NEW s \in DOMAIN sales,
             \/ ReserveAgain(s) \/ Issue(s) \/ MarkSent(s)
             \/ \E p \in Provider : Intend(s, p)
             \/ \E p \in Provider, paid \in BOOLEAN, at \in Foreign : Settle(s, p, paid, at)
             \/ \E unit \in Units(s) : CheckIn(s, unit)
      PROVE  HistoryInv'
  BY <1>4, StepReserveAgain, StepIssue, StepMarkSent, StepIntend, StepSettle, StepCheckIn
<1> QED
  BY <1>1, <1>2, <1>3, <1>4 DEF HistoryNext

\* The invariant of the history, whatever times the API and the payment
\* providers write.
THEOREM HistoryInvariant == HistorySpec => []HistoryInv
<1>1. HistoryInit => HistoryInv
  <2> SUFFICES ASSUME HistoryInit PROVE HistoryInv
    OBVIOUS
  <2>1. DOMAIN sales = {} /\ now = 1 /\ available = Stock /\ reopened = {}
    BY DEF HistoryInit
  <2>2. Common
    <3>1. IsFiniteSet({}) /\ Stock \in [Ticket -> Nat]
      BY FS_EmptySet, HistoryAssumption
    <3> QED
      BY <2>1, <3>1 DEF Common
  <2> QED
    BY <2>1, <2>2, InvByRows
<1>2. HistoryInv /\ [HistoryNext]_vars => HistoryInv'
  BY HistoryStep
<1> QED
  BY <1>1, <1>2, PTL DEF HistorySpec

\* In particular the columns have their types, and the stock never falls below
\* zero (the condition of the UPDATE in persistSale).
THEOREM HistoryTyped == HistorySpec => []HistoryType
<1>1. HistoryInv => HistoryType
  BY DEF HistoryInv
<1> QED
  BY <1>1, HistoryInvariant, PTL

\* And what happens to a sale happens in order: no email without tickets before
\* it, no check-in before them, and no tickets unless the sale is paid or was
\* reset.
THEOREM HistoryOrdered == HistorySpec => []HistoryInOrder
<1>1. HistoryInv => HistoryInOrder
  BY DEF HistoryInv
<1> QED
  BY <1>1, HistoryInvariant, PTL

-----------------------------------------------------------------------------
(* The events of a sale.                                                   *)

\* The event of each kind, of a sale, of a ticket type and a number.
SaleCreated(s) == Event("sale.created", sales[s].createdAt, s, NoTicket, 0, sales[s].status, "", 0)
Payment(s) ==
  Event("payment.processed", sales[s].processedAt, s, NoTicket, 0, sales[s].payment,
        sales[s].provider, 0)
ItemCreated(s, t) ==
  Event("sale.item.created", sales[s].itemsAt, s, t, sales[s].items[t], sales[s].status, "", 0)
OutboxCreated(s, i) ==
  Event("outbox.created", sales[s].outbox[i], s, NoTicket, 0, "PENDING", "", i)
EmailSent(s) == Event("email.sent", sales[s].sentAt, s, NoTicket, 0, "SENT", "", 0)
TicketIssued(s, t, i) == Event("ticket.issued", sales[s].issuedAt, s, t, 1, "ISSUED", "", i)
CheckedIn(s, t, i) ==
  Event("checkin.completed", sales[s].checkIns[<<t, i>>], s, t, 1, "COMPLETED", "", i)

\* The fields of each.
LEMMA SaleCreatedParts ==
  ASSUME NEW s, NEW e, e = SaleCreated(s)
  PROVE  /\ e.type = "sale.created" /\ e.at = sales[s].createdAt /\ e.sale = s /\ e.ticket = 0
         /\ e.status = sales[s].status /\ e.id = 0
BY DEF Event, SaleCreated, NoTicket

LEMMA PaymentParts ==
  ASSUME NEW s, NEW e, e = Payment(s)
  PROVE  /\ e.type = "payment.processed" /\ e.at = sales[s].processedAt /\ e.sale = s
         /\ e.ticket = 0 /\ e.status = sales[s].payment /\ e.provider = sales[s].provider
         /\ e.id = 0
BY DEF Event, Payment, NoTicket

LEMMA ItemParts ==
  ASSUME NEW s, NEW t, NEW e, e = ItemCreated(s, t)
  PROVE  /\ e.type = "sale.item.created" /\ e.at = sales[s].itemsAt /\ e.sale = s
         /\ e.ticket = t /\ e.quantity = sales[s].items[t] /\ e.status = sales[s].status
         /\ e.id = 0
BY DEF Event, ItemCreated

LEMMA OutboxParts ==
  ASSUME NEW s, NEW i, NEW e, e = OutboxCreated(s, i)
  PROVE  /\ e.type = "outbox.created" /\ e.at = sales[s].outbox[i] /\ e.sale = s
         /\ e.ticket = 0 /\ e.id = i
BY DEF Event, OutboxCreated, NoTicket

LEMMA EmailParts ==
  ASSUME NEW s, NEW e, e = EmailSent(s)
  PROVE  /\ e.type = "email.sent" /\ e.at = sales[s].sentAt /\ e.sale = s
         /\ e.ticket = 0 /\ e.id = 0
BY DEF Event, EmailSent, NoTicket

LEMMA IssuedParts ==
  ASSUME NEW s, NEW t, NEW i, NEW e, e = TicketIssued(s, t, i)
  PROVE  /\ e.type = "ticket.issued" /\ e.at = sales[s].issuedAt /\ e.sale = s
         /\ e.ticket = t /\ e.id = i
BY DEF Event, TicketIssued

LEMMA CheckedInParts ==
  ASSUME NEW s, NEW t, NEW i, NEW e, e = CheckedIn(s, t, i)
  PROVE  /\ e.type = "checkin.completed" /\ e.at = sales[s].checkIns[<<t, i>>] /\ e.sale = s
         /\ e.ticket = t /\ e.id = i
BY DEF Event, CheckedIn

\* Units are pairs of a ticket type and a number.
LEMMA PairsOfUnits ==
  ASSUME HistoryInv, NEW s \in DOMAIN sales
  PROVE  /\ \A u \in Units(s) : u = <<u[1], u[2]>> /\ u[1] \in Line(s) /\ u[2] \in Nat
         /\ \A u \in DOMAIN sales[s].checkIns :
              /\ u = <<u[1], u[2]>> /\ u[1] \in Line(s) /\ u[2] \in Nat
              /\ sales[s].checkIns[u] \in Nat
<1>1. \A u \in Ticket \X Nat : u = <<u[1], u[2]>> /\ u[2] \in Nat
  OBVIOUS
<1>2. \A u \in Units(s) : u \in Ticket \X Nat /\ u[1] \in Line(s)
  BY UnitsOf
<1>3. \A u \in DOMAIN sales[s].checkIns :
        u \in Ticket \X Nat /\ u[1] \in Line(s) /\ sales[s].checkIns[u] \in Nat
  BY DEF HistoryInv, HistoryType
<1> QED
  BY <1>1, <1>2, <1>3

\* The events of a sale, kind by kind.
LEMMA EventKinds ==
  ASSUME HistoryInv, NEW s \in DOMAIN sales, NEW e
  PROVE  e \in SaleEvents(s) <=>
           \/ e = SaleCreated(s) \/ e = Payment(s)
           \/ \E t \in Line(s) : e = ItemCreated(s, t)
           \/ \E i \in DOMAIN sales[s].outbox : e = OutboxCreated(s, i)
           \/ sales[s].sentAt # 0 /\ e = EmailSent(s)
           \/ sales[s].issuedAt > 0 /\ \E u \in Units(s) : e = TicketIssued(s, u[1], u[2])
           \/ \E u \in DOMAIN sales[s].checkIns : e = CheckedIn(s, u[1], u[2])
<1> DEFINE r == sales[s]
           A == {Event("sale.created", r.createdAt, s, NoTicket, 0, r.status, "", 0),
                 Event("payment.processed", r.processedAt, s, NoTicket, 0, r.payment,
                       r.provider, 0)}
           B == {Event("sale.item.created", r.itemsAt, s, t, r.items[t], r.status, "", 0) :
                   t \in Line(s)}
           C == {Event("outbox.created", r.outbox[i], s, NoTicket, 0, "PENDING", "", i) :
                   i \in DOMAIN r.outbox}
           D == IF r.sentAt = 0 THEN {} ELSE
                  {Event("email.sent", r.sentAt, s, NoTicket, 0, "SENT", "", 0)}
           F == {Event("ticket.issued", r.issuedAt, s, u[1], 1, "ISSUED", "", u[2]) :
                   u \in IF r.issuedAt > 0 THEN Units(s) ELSE {}}
           G == {Event("checkin.completed", r.checkIns[u], s, u[1], 1, "COMPLETED", "", u[2]) :
                   u \in DOMAIN r.checkIns}
<1>1. SaleEvents(s) = A \cup B \cup C \cup D \cup F \cup G
  BY DEF SaleEvents
<1>2. e \in A <=> e = SaleCreated(s) \/ e = Payment(s)
  BY DEF SaleCreated, Payment
<1>3. e \in B <=> \E t \in Line(s) : e = ItemCreated(s, t)
  BY DEF ItemCreated
<1>4. e \in C <=> \E i \in DOMAIN sales[s].outbox : e = OutboxCreated(s, i)
  BY DEF OutboxCreated
<1>5. e \in D <=> sales[s].sentAt # 0 /\ e = EmailSent(s)
  BY DEF EmailSent
<1>6. e \in F <=> sales[s].issuedAt > 0 /\ \E u \in Units(s) : e = TicketIssued(s, u[1], u[2])
  BY DEF TicketIssued
<1>7. e \in G <=> \E u \in DOMAIN sales[s].checkIns : e = CheckedIn(s, u[1], u[2])
  <2>1. \A u \in DOMAIN r.checkIns :
          CheckedIn(s, u[1], u[2]) =
            Event("checkin.completed", r.checkIns[u], s, u[1], 1, "COMPLETED", "", u[2])
    BY PairsOfUnits DEF CheckedIn
  <2> QED
    BY <2>1
<1> HIDE DEF A, B, C, D, F, G
<1> QED
  BY <1>1, <1>2, <1>3, <1>4, <1>5, <1>6, <1>7

Types == {"checkin.completed", "email.sent", "outbox.created", "payment.processed",
          "sale.created", "sale.item.created", "ticket.issued"}

\* Every type has its rank.
LEMMA RankOfTypes ==
  ASSUME NEW type \in Types
  PROVE  Rank(type) \in 1 .. 7 /\ EventTypes[Rank(type)] = type
<1>1. DOMAIN EventTypes = 1 .. 7
  BY DEF EventTypes
<1>2. \E i \in 1 .. 7 : EventTypes[i] = type
  <2>1. /\ EventTypes[1] = "checkin.completed" /\ EventTypes[2] = "email.sent"
        /\ EventTypes[3] = "outbox.created" /\ EventTypes[4] = "payment.processed"
        /\ EventTypes[5] = "sale.created" /\ EventTypes[6] = "sale.item.created"
        /\ EventTypes[7] = "ticket.issued"
    BY DEF EventTypes
  <2>2. 1 \in 1 .. 7 /\ 2 \in 1 .. 7 /\ 3 \in 1 .. 7 /\ 4 \in 1 .. 7 /\ 5 \in 1 .. 7
        /\ 6 \in 1 .. 7 /\ 7 \in 1 .. 7
    OBVIOUS
  <2> QED
    BY <2>1, <2>2 DEF Types
<1> QED
  BY <1>1, <1>2 DEF Rank

\* Every event is determined by its sale, its type, its ticket type and its number.
Determined(e, s) ==
  /\ e.sale = s /\ e.type \in Types
  /\ e.type = "sale.created" => e = SaleCreated(s)
  /\ e.type = "payment.processed" => e = Payment(s)
  /\ e.type = "sale.item.created" => e = ItemCreated(s, e.ticket) /\ e.ticket \in Line(s)
  /\ e.type = "outbox.created" => e = OutboxCreated(s, e.id) /\ e.id \in DOMAIN sales[s].outbox
  /\ e.type = "email.sent" => e = EmailSent(s) /\ sales[s].sentAt # 0
  /\ e.type = "ticket.issued" =>
       /\ e = TicketIssued(s, e.ticket, e.id) /\ <<e.ticket, e.id>> \in Units(s)
       /\ sales[s].issuedAt > 0
  /\ e.type = "checkin.completed" =>
       e = CheckedIn(s, e.ticket, e.id) /\ <<e.ticket, e.id>> \in DOMAIN sales[s].checkIns

\* So is every event of a sale.
LEMMA EventDetermined ==
  ASSUME HistoryInv, NEW s \in DOMAIN sales, NEW e \in SaleEvents(s)
  PROVE  Determined(e, s)
<1>1. CASE e = SaleCreated(s)
  BY <1>1, SaleCreatedParts DEF Determined, Types
<1>2. CASE e = Payment(s)
  BY <1>2, PaymentParts DEF Determined, Types
<1>3. ASSUME NEW t \in Line(s), e = ItemCreated(s, t) PROVE Determined(e, s)
  BY <1>3, ItemParts DEF Determined, Types
<1>4. ASSUME NEW i \in DOMAIN sales[s].outbox, e = OutboxCreated(s, i) PROVE Determined(e, s)
  BY <1>4, OutboxParts DEF Determined, Types
<1>5. CASE sales[s].sentAt # 0 /\ e = EmailSent(s)
  BY <1>5, EmailParts DEF Determined, Types
<1>6. ASSUME NEW u \in Units(s), e = TicketIssued(s, u[1], u[2]), sales[s].issuedAt > 0
      PROVE  Determined(e, s)
  <2>1. e.type = "ticket.issued" /\ e.sale = s /\ e.ticket = u[1] /\ e.id = u[2]
    BY <1>6, IssuedParts
  <2>2. u = <<e.ticket, e.id>>
    BY <2>1, PairsOfUnits
  <2> QED
    BY <1>6, <2>1, <2>2 DEF Determined, Types
<1>7. ASSUME NEW u \in DOMAIN sales[s].checkIns, e = CheckedIn(s, u[1], u[2])
      PROVE  Determined(e, s)
  <2>1. e.type = "checkin.completed" /\ e.sale = s /\ e.ticket = u[1] /\ e.id = u[2]
    <3> DEFINE a == u[1]
               b == u[2]
    <3>1. e = CheckedIn(s, a, b)
      BY <1>7
    <3> HIDE DEF a, b
    <3>2. e.type = "checkin.completed" /\ e.sale = s /\ e.ticket = a /\ e.id = b
      BY <3>1 DEF CheckedIn, Event
    <3> QED
      BY <3>2 DEF a, b
  <2>2. u = <<e.ticket, e.id>>
    BY <2>1, PairsOfUnits
  <2> QED
    BY <1>7, <2>1, <2>2 DEF Determined, Types
<1> QED
  BY <1>1, <1>2, <1>3, <1>4, <1>5, <1>6, <1>7, EventKinds

\* What the sort key of an event consists of are numbers.
LEMMA EventNumbers ==
  ASSUME HistoryInv, NEW s \in DOMAIN sales, NEW e \in SaleEvents(s)
  PROVE  /\ e.sale \in Int /\ e.at \in Int /\ e.ticket \in Int /\ e.id \in Int
         /\ e.type = "sale.item.created" => e.quantity \in Nat /\ e.quantity > 0
<1> DEFINE r == sales[s]
<1>1. RowType(s, r) /\ Common
  BY RowOf
<1>2. Line(s) \subseteq Ticket /\ Ticket \subseteq Int /\ Sale \subseteq Int
  BY UnitsOf, HistoryAssumption
<1>3. Determined(e, s)
  BY EventDetermined
<1>4. /\ r.createdAt \in Int /\ r.processedAt \in Int /\ r.itemsAt \in Int
      /\ r.sentAt \in Int /\ r.issuedAt \in Int
  <2>1. /\ r.createdAt \in Int \ {0} /\ r.processedAt \in Int \ {0}
        /\ r.itemsAt \in Nat \ {0} /\ r.sentAt \in Nat /\ r.issuedAt \in Nat
    BY <1>1, Zenon DEF RowType
  <2> QED
    BY <2>1
<1>5. s \in Int /\ e.sale = s /\ e.type \in Types
  BY <1>1, <1>2, <1>3 DEF Common, Determined
<1>6. CASE e.type = "sale.created"
  <2>1. e = SaleCreated(s)
    BY <1>3, <1>6 DEF Determined
  <2> QED
    BY <1>4, <1>5, <2>1, SaleCreatedParts
<1>7. CASE e.type = "payment.processed"
  <2>1. e = Payment(s)
    BY <1>3, <1>7 DEF Determined
  <2> QED
    BY <1>4, <1>5, <2>1, PaymentParts
<1>8. CASE e.type = "sale.item.created"
  <2>1. e = ItemCreated(s, e.ticket) /\ e.ticket \in Line(s)
    BY <1>3, <1>8 DEF Determined
  <2>2. r.items[e.ticket] \in Nat /\ r.items[e.ticket] > 0
    BY <1>1, <1>2, <2>1 DEF RowType, Line
  <2> QED
    <3>1. e.at = r.itemsAt /\ e.id = 0 /\ e.quantity = r.items[e.ticket]
      BY <2>1, ItemParts
    <3> HIDE DEF r
    <3>2. e.at \in Int /\ e.id \in Int
      BY <1>4, <3>1
    <3>4. e.ticket \in Int
      BY <1>2, <2>1
    <3>3. e.quantity \in Nat /\ e.quantity > 0
      BY <2>2, <3>1
    <3> QED
      BY <1>5, <3>2, <3>3, <3>4
<1>9. CASE e.type = "outbox.created"
  <2>1. e = OutboxCreated(s, e.id) /\ e.id \in DOMAIN r.outbox
    BY <1>3, <1>9 DEF Determined
  <2>2. r.outbox \in Seq(Int)
    BY <1>1 DEF RowType
  <2>3. e.id \in Int /\ r.outbox[e.id] \in Int
    BY <2>1, <2>2
  <2>4. e.at = r.outbox[e.id] /\ e.ticket = 0 /\ e.type = "outbox.created"
    BY <2>1, OutboxParts
  <2> QED
    BY <1>5, <2>3, <2>4
<1>10. CASE e.type = "email.sent"
  <2>1. e = EmailSent(s)
    BY <1>3, <1>10 DEF Determined
  <2> QED
    BY <1>4, <1>5, <2>1, EmailParts
<1>11. CASE e.type = "ticket.issued"
  <2>1. e = TicketIssued(s, e.ticket, e.id) /\ <<e.ticket, e.id>> \in Units(s)
    BY <1>3, <1>11 DEF Determined
  <2>2. e.ticket \in Line(s) /\ e.id \in Int
    BY <2>1, PairsOfUnits
  <2> QED
    <3>1. e.at = r.issuedAt
      BY <2>1, IssuedParts
    <3> HIDE DEF r
    <3> QED
      BY <1>2, <1>4, <1>5, <1>11, <2>2, <3>1
<1>12. CASE e.type = "checkin.completed"
  <2>1. e = CheckedIn(s, e.ticket, e.id) /\ <<e.ticket, e.id>> \in DOMAIN r.checkIns
    BY <1>3, <1>12 DEF Determined
  <2>2. e.ticket \in Line(s) /\ e.id \in Int /\ r.checkIns[<<e.ticket, e.id>>] \in Int
    BY <2>1, PairsOfUnits
  <2> QED
    <3>1. e.at = r.checkIns[<<e.ticket, e.id>>]
      BY <2>1, CheckedInParts
    <3> HIDE DEF r
    <3> QED
      BY <1>2, <1>5, <1>12, <2>2, <3>1
<1> QED
  BY <1>5, <1>6, <1>7, <1>8, <1>9, <1>10, <1>11, <1>12 DEF Types

\* A sale has finitely many events.
LEMMA SaleEventsFinite ==
  ASSUME HistoryInv, NEW s \in DOMAIN sales
  PROVE  IsFiniteSet(SaleEvents(s))
<1> DEFINE r == sales[s]
           n == Len(r.outbox)
           K == {<<1, 0>>} \cup {<<2, 0>>} \cup {<<5, 0>>}
           B == [t \in Line(s) |-> ItemCreated(s, t)]
           C == [i \in 1 .. n |-> OutboxCreated(s, i)]
           F == [u \in Units(s) |-> TicketIssued(s, u[1], u[2])]
           G == [u \in DOMAIN r.checkIns |-> CheckedIn(s, u[1], u[2])]
           A == {SaleCreated(s)} \cup {Payment(s)} \cup {EmailSent(s)}
           All == A \cup {B[t] : t \in DOMAIN B} \cup {C[i] : i \in DOMAIN C}
                    \cup {F[u] : u \in DOMAIN F} \cup {G[u] : u \in DOMAIN G}
<1>1. RowType(s, r)
  BY RowOf
<1>2. n \in Nat /\ DOMAIN r.outbox = 1 .. n
  <2>1. r.outbox \in Seq(Int)
    BY <1>1 DEF RowType
  <2> HIDE DEF r
  <2> QED
    BY <2>1
<1>3. IsFiniteSet(A)
  BY FS_Singleton, FS_Union
<1>4. /\ IsFiniteSet({B[t] : t \in DOMAIN B}) /\ IsFiniteSet({C[i] : i \in DOMAIN C})
      /\ IsFiniteSet({F[u] : u \in DOMAIN F}) /\ IsFiniteSet({G[u] : u \in DOMAIN G})
  <2>1. IsFiniteSet(DOMAIN B) /\ IsFiniteSet(DOMAIN F)
    BY UnitsOf
  <2>2. IsFiniteSet(DOMAIN C)
    <3> HIDE DEF n
    <3> QED
      BY <1>2, FS_Interval
  <2>3. IsFiniteSet(DOMAIN G)
    BY <1>1 DEF RowType
  <2> HIDE DEF B, C, F, G
  <2> QED
    BY <2>1, <2>2, <2>3, FiniteRange
<1>5. SaleEvents(s) \subseteq All
  <2> SUFFICES ASSUME NEW e \in SaleEvents(s) PROVE e \in All
    OBVIOUS
  <2> HIDE DEF n
  <2>1. /\ \A t \in Line(s) : ItemCreated(s, t) \in All
        /\ \A i \in 1 .. n : OutboxCreated(s, i) \in All
        /\ \A u \in Units(s) : TicketIssued(s, u[1], u[2]) \in All
        /\ \A u \in DOMAIN r.checkIns : CheckedIn(s, u[1], u[2]) \in All
    OBVIOUS
  <2>2. SaleCreated(s) \in All /\ Payment(s) \in All /\ EmailSent(s) \in All
    OBVIOUS
  <2> HIDE DEF All
  <2> QED
    BY <1>2, <2>1, <2>2, EventKinds
<1>6. IsFiniteSet(All)
  <2> DEFINE b == {B[t] : t \in DOMAIN B}
             c == {C[i] : i \in DOMAIN C}
             f == {F[u] : u \in DOMAIN F}
             g == {G[u] : u \in DOMAIN G}
  <2> HIDE DEF A, b, c, f, g
  <2>1. IsFiniteSet((A \cup b) \cup c)
    BY <1>3, <1>4, FS_Union DEF b, c
  <2>2. IsFiniteSet(((A \cup b) \cup c) \cup f)
    BY <1>4, <2>1, FS_Union DEF f
  <2>3. IsFiniteSet((((A \cup b) \cup c) \cup f) \cup g)
    BY <1>4, <2>2, FS_Union DEF g
  <2> QED
    BY <2>3 DEF b, c, f, g
<1> HIDE DEF All
<1> QED
  BY <1>5, <1>6, FS_Subset

\* No two events of a sale have the same type, ticket type and number.
LEMMA KeysDetermine ==
  ASSUME HistoryInv, NEW s \in DOMAIN sales, NEW e \in SaleEvents(s), NEW f \in SaleEvents(s),
         e.type = f.type, e.ticket = f.ticket, e.id = f.id
  PROVE  e = f
<1>1. Determined(e, s) /\ Determined(f, s)
  BY EventDetermined
<1>2. e.type \in Types
  BY <1>1 DEF Determined
<1>3. CASE e.type = "sale.created"
  BY <1>1, <1>3 DEF Determined
<1>4. CASE e.type = "payment.processed"
  BY <1>1, <1>4 DEF Determined
<1>5. CASE e.type = "sale.item.created"
  BY <1>1, <1>5 DEF Determined
<1>6. CASE e.type = "outbox.created"
  BY <1>1, <1>6 DEF Determined
<1>7. CASE e.type = "email.sent"
  BY <1>1, <1>7 DEF Determined
<1>8. CASE e.type = "ticket.issued"
  BY <1>1, <1>8 DEF Determined
<1>9. CASE e.type = "checkin.completed"
  BY <1>1, <1>9 DEF Determined
<1> QED
  BY <1>2, <1>3, <1>4, <1>5, <1>6, <1>7, <1>8, <1>9 DEF Types

\* The rows that the export reads can be put in order.
LEMMA EventsKeyed ==
  ASSUME HistoryInv
  PROVE  /\ Keyed(AllEvents)
         /\ \A e \in AllEvents : e.at \in Int
         /\ \A e \in AllEvents : e.type = "sale.item.created" => e.quantity \in Nat /\ e.quantity > 0
<1>1. \A e \in AllEvents : \E s \in DOMAIN sales : e \in SaleEvents(s)
  BY DEF AllEvents
<1>2. IsFiniteSet(AllEvents)
  <2> DEFINE F == [s \in DOMAIN sales |-> SaleEvents(s)]
  <2>1. IsFiniteSet(DOMAIN F)
    BY DEF HistoryInv, HistoryType
  <2>2. IsFiniteSet({F[s] : s \in DOMAIN F})
    <3> HIDE DEF F
    <3> QED
      BY <2>1, FiniteRange
  <2>3. \A T \in {F[s] : s \in DOMAIN F} : IsFiniteSet(T)
    BY SaleEventsFinite
  <2>4. AllEvents = UNION {F[s] : s \in DOMAIN F}
    BY DEF AllEvents
  <2> HIDE DEF F
  <2> QED
    BY <2>2, <2>3, <2>4, FS_UNION
<1>3. \A e \in AllEvents : /\ e.sale \in Int /\ e.at \in Int /\ e.ticket \in Int /\ e.id \in Int
                           /\ e.type \in Types
  BY <1>1, EventNumbers, EventDetermined DEF Determined
<1>4. ASSUME NEW e \in AllEvents, NEW i \in 1 .. 5 PROVE SortKey(e)[i] \in Int
  <2>1. Rank(e.type) \in Int
    BY <1>3, RankOfTypes
  <2>2. SortKey(e) = <<e.at, Rank(e.type), e.sale, e.ticket, e.id>>
    BY DEF SortKey
  <2>3. i = 1 \/ i = 2 \/ i = 3 \/ i = 4 \/ i = 5
    OBVIOUS
  <2> QED
    BY <1>3, <2>1, <2>2, <2>3
<1>5. ASSUME NEW e \in AllEvents, NEW f \in AllEvents,
             \A i \in 1 .. 5 : SortKey(e)[i] = SortKey(f)[i]
      PROVE  e = f
  <2>1. SortKey(e)[2] = SortKey(f)[2] /\ SortKey(e)[3] = SortKey(f)[3]
        /\ SortKey(e)[4] = SortKey(f)[4] /\ SortKey(e)[5] = SortKey(f)[5]
    BY <1>5
  <2>2. Rank(e.type) = Rank(f.type) /\ e.sale = f.sale /\ e.ticket = f.ticket /\ e.id = f.id
    BY <2>1 DEF SortKey
  <2>3. e.type = f.type
    BY <1>3, <2>2, RankOfTypes
  <2>4. PICK s \in DOMAIN sales, q \in DOMAIN sales : e \in SaleEvents(s) /\ f \in SaleEvents(q)
    BY <1>1
  <2>5. s = q
    <3>1. Determined(e, s) /\ Determined(f, q)
      BY <2>4, EventDetermined
    <3> QED
      BY <2>2, <3>1 DEF Determined
  <2> QED
    BY <2>2, <2>3, <2>4, <2>5, KeysDetermine
<1> QED
  BY <1>1, <1>2, <1>3, <1>4, <1>5, EventNumbers DEF Keyed

-----------------------------------------------------------------------------
(* Survival, windows and demand of what the export reads.                  *)

\* What the export reads in a state are distinct events, in order of time.
LEMMA ExportsInOrder ==
  ASSUME HistoryInv, NEW events \in Exports
  PROVE  Distinct(events) /\ Ordered(events)
<1>1. PICK start \in Bounds, end \in Bounds, limit \in Limits :
        events = ReadEvents(AllEvents, start, end, limit)
  BY DEF Exports
<1>2. limit \in Nat
  BY LimitAssumption
<1>3. Distinct(events) /\ EventsOf(events) \subseteq AllEvents
  BY <1>1, <1>2, EventsKeyed, ReadsEvents
<1>4. \A i \in DOMAIN events : events[i] \in AllEvents
  BY <1>3 DEF EventsOf
<1>5. IsFiniteSet(DOMAIN events)
  BY <1>3, FS_Interval DEF Distinct
<1>6. Timed(events)
  BY <1>4, <1>5, EventsKeyed DEF Timed
<1>7. \A e \in Items(events) : e.quantity \in Nat /\ e.quantity > 0
  BY <1>3, EventsKeyed DEF Items
<1> QED
  BY <1>3, <1>6, <1>7 DEF Ordered

\* Hence what the analyses make of it adds up.
LEMMA InvGivesSurvival == HistoryInv => SurvivalAddsUp
<1> SUFFICES ASSUME HistoryInv, NEW events \in Exports,
                    NEW i \in DOMAIN SurvivalObservations(events, now)
             PROVE  AddsUp(SurvivalObservations(events, now)[i])
  BY DEF SurvivalAddsUp
<1>1. Timed(events)
  BY ExportsInOrder DEF Ordered
<1>2. now \in Int
  BY InvByRows DEF Common
<1> QED
  BY <1>1, <1>2, SurvivalObservationsGood, ObservationsAddUp

LEMMA InvGivesWindows == HistoryInv => WindowsPartition
BY ExportsInOrder, WindowsPartitioned DEF Ordered, WindowsPartition

LEMMA InvGivesDemand == HistoryInv => DemandAddsUp
<1> SUFFICES ASSUME HistoryInv, NEW events \in Exports
             PROVE  LET forecasts == DemandForecasts(events)
                    IN /\ \A t \in Ticket, size \in Sizes :
                            Total(Series(events, t, size)) =
                              Sum({e \in Items(events) : e.ticket = t}, LAMBDA e : e.quantity)
                       /\ \A k \in DOMAIN forecasts :
                            Forecasts(forecasts[k], Series(events, k[1], k[2]))
                       /\ \A t \in Ticket : RiskAgrees(events, t, available[t])
  BY DEF DemandAddsUp
<1>1. Ordered(events)
  BY ExportsInOrder
<1>2. \A t \in Ticket : available[t] \in Int
  <2>1. available \in [Ticket -> Nat]
    BY InvByRows DEF Common
  <2> QED
    BY <2>1
<1>3. \A t \in Ticket, size \in Sizes :
        Total(Series(events, t, size)) =
          Sum({e \in Items(events) : e.ticket = t}, LAMBDA e : e.quantity)
  BY <1>1, SeriesTotal
<1>4. \A k \in DOMAIN DemandForecasts(events) :
        Forecasts(DemandForecasts(events)[k], Series(events, k[1], k[2]))
  BY <1>1, ForecastsHold
<1>5. \A t \in Ticket : RiskAgrees(events, t, available[t])
  BY <1>1, <1>2, RisksAgree
<1> QED
  BY <1>3, <1>4, <1>5

\* Every observation of an export is in one interval, its hazard tables are
\* chains, and its percentiles are observed durations (buildHazardTable,
\* nearestRankPercentile), whatever the bounds and the limit of the export.
THEOREM SurvivalSound == HistorySpec => []SurvivalAddsUp
BY HistoryInvariant, InvGivesSurvival, PTL

\* The windows of each size partition the events of an export (buildWindows).
THEOREM WindowsSound == HistorySpec => []WindowsPartition
BY HistoryInvariant, InvGivesWindows, PTL

\* The demand series lose no sale, forecasts lie between what was seen, and
\* forecasts and stockout risks agree on who has enough history
\* (buildDemandForecasts, buildStockoutRisks).
THEOREM DemandSound == HistorySpec => []DemandAddsUp
BY HistoryInvariant, InvGivesDemand, PTL

-----------------------------------------------------------------------------
(* The funnel: the fold over the events.                                   *)

EmptyFunnel == [defaults |-> [k \in {} |-> 0], records |-> [k \in {} |-> 0]]

\* The recursive function that the fold over the events defines.
FoldsFunnel(h, D, events) ==
  h = [s \in SUBSET D |->
         IF s = {} THEN EmptyFunnel ELSE AddToFunnel(h[s \ {Max(s)}], events[Max(s)])]

\* FoldLeft is unfolded as a recursive function, which exists.
LEMMA FunnelFoldExists ==
  ASSUME NEW events, NEW n \in Nat, NEW D, D = 1 .. n
  PROVE  \E h : FoldsFunnel(h, D, events)
<1> DEFINE Small(m) == {s \in SUBSET D : Cardinality(s) <= m}
           Step(g, s) == IF s = {} THEN EmptyFunnel ELSE AddToFunnel(g[s \ {Max(s)}], events[Max(s)])
           Sat(g, m) == DOMAIN g = Small(m) /\ \A s \in Small(m) : g[s] = Step(g, s)
           N == {m \in Nat : ~\E g : Sat(g, m)}
<1>1. \A s \in SUBSET D : IsFiniteSet(s) /\ Cardinality(s) \in Nat /\ (s # {} => Max(s) \in s)
  <2> SUFFICES ASSUME NEW s \in SUBSET D
               PROVE  IsFiniteSet(s) /\ Cardinality(s) \in Nat /\ (s # {} => Max(s) \in s)
    OBVIOUS
  <2>1. IsFiniteSet(s) /\ s \subseteq Int
    <3>1. IsFiniteSet(1 .. n) /\ 1 .. n \subseteq Int
      BY FS_Interval
    <3> QED
      BY <3>1, FS_Subset
  <2> QED
    BY <2>1, FS_CardinalityType, GreatestInt
<1>2. ASSUME NEW m \in Nat, m # 0, NEW s \in Small(m), s # {}
      PROVE  s \ {Max(s)} \in Small(m - 1)
  <2>1. Max(s) \in s
    BY <1>1, <1>2
  <2>2. Cardinality(s \ {Max(s)}) = Cardinality(s) - 1
    BY <1>1, <2>1, FS_RemoveElement
  <2>3. Cardinality(s) \in Nat /\ Cardinality(s) <= m
    BY <1>1
  <2>4. Cardinality(s \ {Max(s)}) <= m - 1
    BY <2>2, <2>3
  <2> QED
    BY <2>1, <2>4
<1>3. N = {}
  <2> SUFFICES ASSUME N # {} PROVE FALSE
    OBVIOUS
  <2>1. PICK m \in N : \A l \in N : m <= l
    <3>1. N \subseteq Nat
      OBVIOUS
    <3> HIDE DEF N
    <3> QED
      BY <3>1, LeastNat
  <2>2. CASE m = 0
    <3> DEFINE g == [s \in Small(0) |-> EmptyFunnel]
    <3>1. \A s \in Small(0) : s = {}
      <4> SUFFICES ASSUME NEW s \in Small(0) PROVE s = {}
        OBVIOUS
      <4>1. Cardinality(s) = 0
        BY <1>1
      <4> QED
        BY <1>1, <4>1, FS_EmptySet
    <3>2. Sat(g, 0)
      BY <3>1
    <3> QED
      BY <2>1, <2>2, <3>2
  <2>3. CASE m # 0
    <3>1. m - 1 \in Nat /\ m \in Nat /\ ~(m <= m - 1)
      BY <2>3
    <3>2. PICK g : Sat(g, m - 1)
      BY <2>1, <3>1
    <3> DEFINE h == [s \in Small(m) |-> Step(g, s)]
    <3>3. \A s \in Small(m) : s # {} => s \ {Max(s)} \in Small(m - 1)
      BY <1>2, <2>3, <3>1
    <3>4. \A s \in Small(m - 1) : s \in Small(m)
      BY <1>1, <3>1
    <3> HIDE DEF Small
    <3>5. \A s \in Small(m - 1) : h[s] = g[s]
      BY <3>2, <3>4
    <3>6. \A s \in Small(m) : h[s] = Step(h, s)
      BY <3>3, <3>5
    <3>7. Sat(h, m)
      BY <3>6
    <3> HIDE DEF h, Sat
    <3> QED
      BY <2>1, <3>7
  <2> QED
    BY <2>2, <2>3
<1>4. IsFiniteSet(D) /\ Cardinality(D) \in Nat
  BY <1>1
<1>5. PICK g : Sat(g, Cardinality(D))
  BY <1>3, <1>4
<1>6. Small(Cardinality(D)) = SUBSET D
  BY <1>4, FS_Subset
<1> DEFINE h == [s \in SUBSET D |-> g[s]]
<1>7. \A s \in SUBSET D : h[s] = Step(h, s)
  BY <1>5, <1>6
<1>8. h = [s \in SUBSET D |-> Step(h, s)]
  <2>1. DOMAIN h = SUBSET D
    OBVIOUS
  <2> HIDE DEF Step
  <2> QED
    BY <1>7, <2>1
<1> HIDE DEF h
<1> QED
  BY <1>8 DEF FoldsFunnel

\* The fold takes one event after another.
FunnelSteps(G, n, events) ==
  /\ G[0] = EmptyFunnel
  /\ \A i \in 1 .. n : G[i] = AddToFunnel(G[i - 1], events[i])

LEMMA FunnelFold ==
  ASSUME NEW events, NEW n \in Nat, DOMAIN events = 1 .. n
  PROVE  \E G : /\ FunnelSteps(G, n, events)
                /\ FoldLeft(AddToFunnel, EmptyFunnel, events) = G[n]
<1> DEFINE D == DOMAIN events
           R(g) == [s \in SUBSET D |->
                      IF s = {} THEN EmptyFunnel ELSE AddToFunnel(g[s \ {Max(s)}], events[Max(s)])]
           h == CHOOSE g : g = R(g)
           G == [i \in 0 .. n |-> h[1 .. i]]
<1>1. \E g : g = R(g)
  <2>1. PICK g : FoldsFunnel(g, D, events)
    BY FunnelFoldExists
  <2> QED
    BY <2>1 DEF FoldsFunnel
<1>2. h = R(h)
  BY <1>1
<1>3. FoldLeft(AddToFunnel, EmptyFunnel, events) = h[D]
  BY DEF FoldLeft, MapThenFoldSet
<1> HIDE DEF h
<1>4. \A s \in SUBSET D :
        h[s] = IF s = {} THEN EmptyFunnel ELSE AddToFunnel(h[s \ {Max(s)}], events[Max(s)])
  BY <1>2
<1>5. G[0] = EmptyFunnel
  <2>1. 1 .. 0 = {} /\ {} \in SUBSET D
    OBVIOUS
  <2>2. h[{}] = EmptyFunnel
    BY <1>4, <2>1
  <2>3. G[0] = h[1 .. 0]
    OBVIOUS
  <2> QED
    BY <2>1, <2>2, <2>3
<1>6. ASSUME NEW i \in 1 .. n PROVE G[i] = AddToFunnel(G[i - 1], events[i])
  <2> DEFINE s == 1 .. i
  <2>1. s \in SUBSET D /\ i \in s
    OBVIOUS
  <2>2. Max(s) = i
    <3>1. IsFiniteSet(s) /\ s \subseteq Int /\ s # {}
      <4>1. IsFiniteSet(1 .. i)
        BY FS_Interval
      <4>2. s \subseteq Int
        OBVIOUS
      <4> QED
        BY <2>1, <4>1, <4>2
    <3>2. \A x \in s : x <= i
      OBVIOUS
    <3> DEFINE m == Max(s)
    <3>3. m \in s /\ i <= m
      <4> HIDE DEF s
      <4> QED
        BY <2>1, <3>1, GreatestInt
    <3>4. m <= i /\ m \in Int
      BY <3>1, <3>2, <3>3
    <3> HIDE DEF m
    <3>5. m = i
      BY <3>3, <3>4
    <3> QED
      BY <3>5 DEF m
  <2>3. s \ {i} = 1 .. i - 1
    OBVIOUS
  <2>4. h[s] = AddToFunnel(h[1 .. i - 1], events[i])
    <3> HIDE DEF s
    <3> QED
      BY <1>4, <2>1, <2>2, <2>3
  <2>5. i \in 0 .. n /\ i - 1 \in 0 .. n
    OBVIOUS
  <2>6. G[i] = h[s] /\ G[i - 1] = h[1 .. i - 1]
    BY <2>5
  <2> HIDE DEF G, s
  <2> QED
    BY <2>4, <2>6
<1>7. G[n] = h[D]
  OBVIOUS
<1> HIDE DEF G
<1> QED
  BY <1>3, <1>5, <1>6, <1>7 DEF FunnelSteps

-----------------------------------------------------------------------------
(* The funnel: what the fold knows when it has seen some events.           *)

Fields == {"at", "accepted", "pending", "paid", "provider", "issued", "checkedIn"}
IsRecord(r) ==
  /\ r = [x \in Fields |-> r[x]]
  /\ r.at \in Int
  /\ r.accepted \in BOOLEAN /\ r.pending \in BOOLEAN /\ r.paid \in BOOLEAN
  /\ r.issued \in BOOLEAN /\ r.checkedIn \in BOOLEAN

\* What a record knows of the payment once the events S were seen.
PaymentSays(r, s, S) ==
  /\ r.paid <=> (Payment(s) \in S /\ sales[s].payment = "APPROVED")
  /\ r.provider = IF Payment(s) \in S THEN sales[s].provider ELSE ""

\* What is known of a sale.
DefaultSays(d, s, S) ==
  /\ IsRecord(d) /\ PaymentSays(d, s, S)
  /\ d.at = IF SaleCreated(s) \in S THEN sales[s].createdAt ELSE 0
  /\ d.pending => ReachedPending(sales[s].status)

\* What is known of a line.
Of(e, k) == e.sale = k[1] /\ e.ticket = k[2]
StageSays(r, k, S) ==
  /\ r.issued <=> \E e \in S : Of(e, k) /\ e.type = "ticket.issued"
  /\ r.checkedIn <=> \E e \in S : Of(e, k) /\ e.type = "checkin.completed"
AcceptedSays(r, k, S) ==
  LET w == sales[k[1]]
      seen == ItemCreated(k[1], k[2]) \in S
  IN /\ r.pending => ReachedPending(w.status)
     /\ seen => r.accepted /\ (ReachedPending(w.status) => r.pending)
     /\ w.createdAt < w.itemsAt => r.at = w.createdAt
     /\ ~(w.createdAt < w.itemsAt) =>
          IF seen THEN r.at = w.itemsAt ELSE r.at \in {0, w.createdAt}
RecordSays(r, k, S) ==
  IsRecord(r) /\ PaymentSays(r, k[1], S) /\ StageSays(r, k, S) /\ AcceptedSays(r, k, S)

Lines == UNION {{s} \X Line(s) : s \in DOMAIN sales}
Touched(k, S) == \E e \in S : Of(e, k)

\* What the fold knows.
FunnelSays(f, S) ==
  /\ f = [defaults |-> f.defaults, records |-> f.records]
  /\ \A s \in DOMAIN sales : DefaultSays(Entry(f.defaults, s, NoRecord), s, S)
  /\ DOMAIN f.records = {k \in Lines : Touched(k, S)}
  /\ \A k \in DOMAIN f.records : RecordSays(f.records[k], k, S)

\* An entry of a map after one was put.
LEMMA EntryOfPut ==
  ASSUME NEW map, NEW key, NEW value, NEW q, NEW zero
  PROVE  Entry(Put(map, key, value), q, zero) = IF q = key THEN value ELSE Entry(map, q, zero)
BY DEF Entry, Put

LEMMA PutEntries ==
  ASSUME NEW map, NEW key, NEW value
  PROVE  /\ DOMAIN Put(map, key, value) = DOMAIN map \cup {key}
         /\ Put(map, key, value)[key] = value
         /\ \A q \in DOMAIN map : q # key => Put(map, key, value)[q] = map[q]
BY DEF Put

\* The lines of all sales.
LEMMA LinesAre ==
  ASSUME NEW k
  PROVE  k \in Lines <=> \E s \in DOMAIN sales : \E t \in Line(s) : k = <<s, t>>
<1>1. ASSUME NEW s PROVE (k \in {s} \X Line(s)) <=> (\E t \in Line(s) : k = <<s, t>>)
  OBVIOUS
<1> QED
  BY <1>1 DEF Lines

LEMMA LineParts ==
  ASSUME NEW k \in Lines
  PROVE  k = <<k[1], k[2]>> /\ k[1] \in DOMAIN sales /\ k[2] \in Line(k[1])
<1>1. PICK s \in DOMAIN sales : \E t \in Line(s) : k = <<s, t>>
  BY LinesAre
<1>2. PICK t \in Line(s) : k = <<s, t>>
  BY <1>1
<1> QED
  BY <1>2

LEMMA LineTickets ==
  ASSUME HistoryInv, NEW s \in DOMAIN sales, NEW t \in Line(s)
  PROVE  t \in Ticket /\ t # 0
BY UnitsOf, HistoryAssumption

\* An event that says nothing of them.
LEMMA DefaultSame ==
  ASSUME NEW d, NEW s, NEW S, DefaultSays(d, s, S), NEW e, e # SaleCreated(s), e # Payment(s)
  PROVE  DefaultSays(d, s, S \cup {e})
<1>1. (SaleCreated(s) \in S \cup {e} <=> SaleCreated(s) \in S)
      /\ (Payment(s) \in S \cup {e} <=> Payment(s) \in S)
  OBVIOUS
<1> QED
  BY <1>1 DEF DefaultSays, PaymentSays

\* An event of another sale or of another line changes nothing that is said of a record.
LEMMA RecordSame ==
  ASSUME NEW r, NEW k, NEW S, RecordSays(r, k, S), NEW e, e # Payment(k[1]), ~Of(e, k)
  PROVE  RecordSays(r, k, S \cup {e})
<1>1. Payment(k[1]) \in S \cup {e} <=> Payment(k[1]) \in S
  OBVIOUS
<1>2. ItemCreated(k[1], k[2]) \in S \cup {e} <=> ItemCreated(k[1], k[2]) \in S
  <2>1. Of(ItemCreated(k[1], k[2]), k)
    BY ItemParts DEF Of
  <2> QED
    BY <2>1
<1>3. \A x : (x \in S \cup {e} /\ Of(x, k)) <=> (x \in S /\ Of(x, k))
  OBVIOUS
<1>4. PaymentSays(r, k[1], S \cup {e})
  BY <1>1 DEF RecordSays, PaymentSays
<1>5. StageSays(r, k, S \cup {e})
  BY <1>3 DEF RecordSays, StageSays
<1>6. AcceptedSays(r, k, S \cup {e})
  <2> DEFINE w == sales[k[1]]
             seen == ItemCreated(k[1], k[2]) \in S
  <2> QED
    BY <1>2 DEF RecordSays, AcceptedSays
<1> QED
  BY <1>4, <1>5, <1>6 DEF RecordSays

\* A record is a function on its fields: what EXCEPT changes.
LEMMA RecordFields ==
  ASSUME NEW r, IsRecord(r)
  PROVE  /\ DOMAIN r = Fields
         /\ \A x \in Fields : \A v : [r EXCEPT ![x] = v] = [y \in Fields |-> IF y = x THEN v ELSE r[y]]
<1>1. r = [x \in Fields |-> r[x]]
  BY DEF IsRecord
<1>2. DOMAIN r = Fields
  BY <1>1
<1> QED
  BY <1>1, <1>2

\* What a payment does to a record, or to the defaults of a sale.
LEMMA PayingSays ==
  ASSUME NEW r, IsRecord(r), NEW s, NEW S, PaymentSays(r, s, S), NEW e, e = Payment(s)
  PROVE  LET q == Paying(r, e)
         IN /\ IsRecord(q) /\ PaymentSays(q, s, S \cup {e})
            /\ q.at = r.at /\ q.accepted = r.accepted /\ q.pending = r.pending
            /\ q.issued = r.issued /\ q.checkedIn = r.checkedIn
<1> DEFINE q == Paying(r, e)
           paid == r.paid \/ e.status = "APPROVED"
<1>1. e.status = sales[s].payment /\ e.provider = sales[s].provider
  BY PaymentParts
<1>2. q = [r EXCEPT !.provider = e.provider, !.paid = paid]
  BY DEF Paying
<1>3. r = [x \in Fields |-> r[x]]
  BY DEF IsRecord
<1>4. paid \in BOOLEAN
  OBVIOUS
<1> HIDE DEF paid, q
<1>5. /\ q = [x \in Fields |-> q[x]] /\ q.paid = paid /\ q.provider = e.provider
      /\ q.at = r.at /\ q.accepted = r.accepted /\ q.pending = r.pending
      /\ q.issued = r.issued /\ q.checkedIn = r.checkedIn
  BY <1>2, <1>3 DEF Fields
<1>6. IsRecord(q)
  BY <1>4, <1>5 DEF IsRecord
<1>7. paid <=> sales[s].payment = "APPROVED"
  BY <1>1 DEF PaymentSays, paid
<1>8. PaymentSays(q, s, S \cup {e})
  BY <1>1, <1>5, <1>7 DEF PaymentSays
<1> QED
  BY <1>5, <1>6, <1>8 DEF q

-----------------------------------------------------------------------------
(* The funnel: the events of a line.                                       *)

\* The events with a ticket type are those of a line.
LEMMA TicketKinds ==
  ASSUME HistoryInv, NEW s \in DOMAIN sales, NEW e \in SaleEvents(s)
  PROVE  /\ e.ticket # 0 <=>
              e.type \in {"sale.item.created", "ticket.issued", "checkin.completed"}
         /\ e.ticket # 0 => e.ticket \in Line(s)
<1>1. Determined(e, s) /\ e.type \in Types
  BY EventDetermined DEF Determined
<1>2. CASE e.type = "sale.created"
  <2>1. e = SaleCreated(s)
    BY <1>1, <1>2 DEF Determined
  <2> QED
    BY <1>2, <2>1, SaleCreatedParts
<1>3. CASE e.type = "payment.processed"
  <2>1. e = Payment(s)
    BY <1>1, <1>3 DEF Determined
  <2> QED
    BY <1>3, <2>1, PaymentParts
<1>4. CASE e.type = "outbox.created"
  <2> DEFINE i == e.id
  <2>1. e = OutboxCreated(s, i)
    BY <1>1, <1>4 DEF Determined
  <2> HIDE DEF i
  <2>2. e.ticket = 0
    BY <2>1, OutboxParts
  <2> QED
    BY <1>4, <2>2
<1>5. CASE e.type = "email.sent"
  <2>1. e = EmailSent(s)
    BY <1>1, <1>5 DEF Determined
  <2> QED
    BY <1>5, <2>1, EmailParts
<1>6. CASE e.type = "sale.item.created"
  <2>1. e.ticket \in Line(s)
    BY <1>1, <1>6 DEF Determined
  <2> QED
    BY <1>6, <2>1, LineTickets
<1>7. CASE e.type = "ticket.issued"
  <2>1. <<e.ticket, e.id>> \in Units(s)
    BY <1>1, <1>7 DEF Determined
  <2>2. e.ticket \in Line(s)
    BY <2>1, PairsOfUnits
  <2> QED
    BY <1>7, <2>2, LineTickets
<1>8. CASE e.type = "checkin.completed"
  <2>1. <<e.ticket, e.id>> \in DOMAIN sales[s].checkIns
    BY <1>1, <1>8 DEF Determined
  <2>2. e.ticket \in Line(s)
    BY <2>1, PairsOfUnits
  <2> QED
    BY <1>8, <2>2, LineTickets
<1> QED
  BY <1>1, <1>2, <1>3, <1>4, <1>5, <1>6, <1>7, <1>8 DEF Types

\* An event of a line does not come before the line was written.
LEMMA LineEventsAfter ==
  ASSUME HistoryInv, NEW s \in DOMAIN sales, NEW e \in SaleEvents(s), e.ticket # 0
  PROVE  sales[s].itemsAt <= e.at
<1> DEFINE r == sales[s]
<1>1. Determined(e, s)
  BY EventDetermined
<1>2. RowType(s, r) /\ RowInOrder(s, r, now, reopened)
  BY RowOf
<1>3. r.itemsAt \in Int /\ r.issuedAt \in Int
  <2>1. r.itemsAt \in Nat \ {0} /\ r.issuedAt \in Nat
    BY <1>2, Zenon DEF RowType
  <2> QED
    BY <2>1
<1>4. CASE e.type = "sale.item.created"
  <2> DEFINE t == e.ticket
  <2>1. e = ItemCreated(s, t)
    BY <1>1, <1>4 DEF Determined
  <2> HIDE DEF t
  <2>2. e.at = r.itemsAt
    BY <2>1, ItemParts
  <2> QED
    BY <1>3, <2>2
<1>5. CASE e.type = "ticket.issued"
  <2> DEFINE t == e.ticket
             i == e.id
  <2>1. e = TicketIssued(s, t, i) /\ r.issuedAt > 0
    BY <1>1, <1>5 DEF Determined
  <2> HIDE DEF t, i
  <2>2. e.at = r.issuedAt
    BY <2>1, IssuedParts
  <2> QED
    BY <1>2, <2>1, <2>2 DEF RowInOrder
<1>6. CASE e.type = "checkin.completed"
  <2> DEFINE t == e.ticket
             i == e.id
             u == <<t, i>>
  <2>1. e = CheckedIn(s, t, i) /\ u \in DOMAIN r.checkIns
    BY <1>1, <1>6 DEF Determined
  <2> HIDE DEF t, i
  <2>2. e.at = r.checkIns[u]
    BY <2>1, CheckedInParts
  <2> HIDE DEF u
  <2>3. r.issuedAt > 0 /\ r.issuedAt <= r.checkIns[u] /\ r.itemsAt <= r.issuedAt
    BY <1>2, <2>1 DEF RowInOrder
  <2>4. r.checkIns[u] \in Int
    BY <2>1, PairsOfUnits
  <2> DEFINE a == r.checkIns[u]
             b == r.issuedAt
             c == r.itemsAt
  <2>5. a \in Int /\ b \in Int /\ c \in Int /\ c <= b /\ b <= a
    BY <1>3, <2>3, <2>4
  <2> HIDE DEF a, b, c
  <2>6. c <= a
    BY <2>5
  <2> QED
    BY <2>2, <2>6 DEF a, c
<1> QED
  BY <1>4, <1>5, <1>6, TicketKinds

\* What an event of a line does to its record.
LEMMA ApplySays ==
  ASSUME HistoryInv, NEW k \in Lines, NEW S, NEW r, RecordSays(r, k, S),
         NEW e \in SaleEvents(k[1]), e.ticket = k[2]
  PROVE  RecordSays(ApplyTo(r, e), k, S \cup {e})
<1> DEFINE s == k[1]
           t == k[2]
           w == sales[s]
           q == ApplyTo(r, e)
           seen == ItemCreated(s, t) \in S
<1>1. s \in DOMAIN sales /\ t \in Line(s) /\ t # 0
  BY LineParts, LineTickets
<1>2. Determined(e, s) /\ e.sale = s
  BY <1>1, EventDetermined DEF Determined
<1>3. Of(e, k)
  BY <1>2 DEF Of
<1>4. /\ r = [x \in Fields |-> r[x]] /\ r.at \in Int
      /\ r.accepted \in BOOLEAN /\ r.pending \in BOOLEAN /\ r.paid \in BOOLEAN
      /\ r.issued \in BOOLEAN /\ r.checkedIn \in BOOLEAN
  BY DEF RecordSays, IsRecord
<1>5. /\ w.createdAt \in Int \ {0} /\ w.itemsAt \in Int
  <2>1. w.createdAt \in Int \ {0} /\ w.itemsAt \in Nat \ {0}
    BY <1>1, RowOf, Zenon DEF RowType
  <2> QED
    BY <2>1
<1>6. e # Payment(s)
  BY <1>1, PaymentParts
<1>7. Payment(s) \in S \cup {e} <=> Payment(s) \in S
  BY <1>6
<1>8. CASE e.type = "sale.item.created"
  <2> DEFINE at == IF r.at = 0 \/ e.at < r.at THEN e.at ELSE r.at
             pending == r.pending \/ ReachedPending(e.status)
  <2>1. e = ItemCreated(s, t)
    BY <1>2, <1>8 DEF Determined
  <2>2. e.at = w.itemsAt /\ e.status = w.status
    BY <2>1 DEF ItemCreated, Event
  <2>3. q = [r EXCEPT !.accepted = TRUE, !.pending = pending, !.at = at]
    BY <1>8 DEF ApplyTo
  <2>4. pending \in BOOLEAN /\ at \in Int
    BY <1>4, <1>5, <2>2
  <2>5. pending <=> (r.pending \/ ReachedPending(w.status))
    BY <2>2
  <2>6. at = IF r.at = 0 \/ w.itemsAt < r.at THEN w.itemsAt ELSE r.at
    BY <2>2
  <2> HIDE DEF pending, at, q
  <2>7. /\ q = [x \in Fields |-> q[x]] /\ q.accepted = TRUE /\ q.pending = pending /\ q.at = at
        /\ q.paid = r.paid /\ q.provider = r.provider
        /\ q.issued = r.issued /\ q.checkedIn = r.checkedIn
    BY <1>4, <2>3 DEF Fields
  <2>8. IsRecord(q)
    BY <1>4, <2>4, <2>7 DEF IsRecord
  <2>9. PaymentSays(q, s, S \cup {e})
    BY <1>7, <2>7 DEF RecordSays, PaymentSays
  <2>10. StageSays(q, k, S \cup {e})
    <3>1. \A x : (x \in S \cup {e} /\ x.type = "ticket.issued") <=> (x \in S /\ x.type = "ticket.issued")
      BY <1>8
    <3>2. \A x : (x \in S \cup {e} /\ x.type = "checkin.completed") <=>
                 (x \in S /\ x.type = "checkin.completed")
      BY <1>8
    <3> QED
      BY <2>7, <3>1, <3>2 DEF RecordSays, StageSays
  <2>11. AcceptedSays(q, k, S \cup {e})
    <3>1. ItemCreated(s, t) \in S \cup {e}
      BY <2>1
    <3>2. r.pending => ReachedPending(w.status)
      BY DEF RecordSays, AcceptedSays
    <3>3. w.createdAt < w.itemsAt => q.at = w.createdAt
      <4>1. ASSUME w.createdAt < w.itemsAt PROVE at = w.createdAt
        <5>1. r.at = w.createdAt
          BY <4>1 DEF RecordSays, AcceptedSays
        <5> QED
          BY <1>5, <2>6, <4>1, <5>1
      <4> QED
        BY <2>7, <4>1
    <3>4. ~(w.createdAt < w.itemsAt) => q.at = w.itemsAt
      <4>1. ASSUME ~(w.createdAt < w.itemsAt) PROVE at = w.itemsAt
        <5>1. r.at = w.itemsAt \/ r.at = 0 \/ r.at = w.createdAt
          BY <4>1 DEF RecordSays, AcceptedSays
        <5> QED
          BY <1>5, <2>6, <4>1, <5>1
      <4> QED
        BY <2>7, <4>1
    <3> HIDE DEF s, t
    <3> QED
      BY <2>5, <2>7, <3>1, <3>2, <3>3, <3>4 DEF AcceptedSays, s, t
  <2> QED
    BY <2>8, <2>9, <2>10, <2>11 DEF RecordSays, q
<1>9. CASE e.type \in {"ticket.issued", "checkin.completed"}
  <2>1. e # ItemCreated(s, t)
    BY <1>9, ItemParts
  <2>2. ItemCreated(s, t) \in S \cup {e} <=> ItemCreated(s, t) \in S
    BY <2>1
  <2>3. /\ q = [x \in Fields |-> q[x]] /\ q.accepted = r.accepted /\ q.pending = r.pending
        /\ q.at = r.at /\ q.paid = r.paid /\ q.provider = r.provider
        /\ q.issued = (IF e.type = "ticket.issued" THEN TRUE ELSE r.issued)
        /\ q.checkedIn = (IF e.type = "checkin.completed" THEN TRUE ELSE r.checkedIn)
    <3>1. CASE e.type = "ticket.issued"
      <4>1. q = [r EXCEPT !.issued = TRUE]
        BY <3>1 DEF ApplyTo
      <4> HIDE DEF q
      <4> QED
        BY <1>4, <3>1, <4>1 DEF Fields
    <3>2. CASE e.type = "checkin.completed"
      <4>1. q = [r EXCEPT !.checkedIn = TRUE]
        BY <3>2 DEF ApplyTo
      <4> HIDE DEF q
      <4> QED
        BY <1>4, <3>2, <4>1 DEF Fields
    <3> QED
      BY <1>9, <3>1, <3>2
  <2> HIDE DEF q
  <2>4. IsRecord(q)
    BY <1>4, <2>3 DEF IsRecord
  <2>5. PaymentSays(q, s, S \cup {e})
    BY <1>7, <2>3 DEF RecordSays, PaymentSays
  <2>6. AcceptedSays(q, k, S \cup {e})
    BY <2>2, <2>3 DEF RecordSays, AcceptedSays
  <2>7. StageSays(q, k, S \cup {e})
    <3>1. r.issued <=> \E x \in S : Of(x, k) /\ x.type = "ticket.issued"
      BY DEF RecordSays, StageSays
    <3>2. r.checkedIn <=> \E x \in S : Of(x, k) /\ x.type = "checkin.completed"
      BY DEF RecordSays, StageSays
    <3>3. q.issued <=> (e.type = "ticket.issued" \/ r.issued)
      BY <2>3
    <3>4. q.checkedIn <=> (e.type = "checkin.completed" \/ r.checkedIn)
      BY <2>3
    <3> QED
      BY <1>3, <3>1, <3>2, <3>3, <3>4 DEF StageSays
  <2> QED
    BY <2>4, <2>5, <2>6, <2>7 DEF RecordSays, q
<1> QED
  BY <1>1, <1>8, <1>9, TicketKinds

\* A record that appears takes what is known of its sale.
LEMMA InheritedSays ==
  ASSUME HistoryInv, NEW k \in Lines, NEW S, NEW f, FunnelSays(f, S),
         NEW e \in SaleEvents(k[1]), e.ticket = k[2], ~Touched(k, S),
         \A g \in AllEvents : Earlier(g, e) => g \in S
  PROVE  RecordSays(Inherited(f, e), k, S)
<1> DEFINE s == k[1]
           t == k[2]
           w == sales[s]
           d == Entry(f.defaults, s, NoRecord)
           q == Inherited(f, e)
<1>1. s \in DOMAIN sales /\ t \in Line(s) /\ t # 0
  BY LineParts, LineTickets
<1>2. Determined(e, s) /\ e.sale = s
  BY <1>1, EventDetermined DEF Determined
<1>3. DefaultSays(d, s, S)
  BY <1>1 DEF FunnelSays
<1>4. q = [d EXCEPT !.issued = FALSE, !.checkedIn = FALSE]
  BY <1>2 DEF Inherited
<1>5. /\ d = [x \in Fields |-> d[x]] /\ d.at \in Int
      /\ d.accepted \in BOOLEAN /\ d.pending \in BOOLEAN /\ d.paid \in BOOLEAN
  BY <1>3 DEF DefaultSays, IsRecord
<1> HIDE DEF d, q
<1>6. /\ q = [x \in Fields |-> q[x]] /\ q.accepted = d.accepted /\ q.pending = d.pending
      /\ q.at = d.at /\ q.paid = d.paid /\ q.provider = d.provider
      /\ q.issued = FALSE /\ q.checkedIn = FALSE
  BY <1>4, <1>5 DEF Fields
<1>7. IsRecord(q)
  BY <1>5, <1>6 DEF IsRecord
<1>8. PaymentSays(q, s, S)
  BY <1>3, <1>6 DEF DefaultSays, PaymentSays
<1>9. StageSays(q, k, S)
  <2>1. \A x \in S : ~Of(x, k)
    BY DEF Touched
  <2> QED
    BY <1>6, <2>1 DEF StageSays
<1>10. AcceptedSays(q, k, S)
  <2>1. ItemCreated(s, t) \notin S
    <3>1. Of(ItemCreated(s, t), k)
      BY ItemParts DEF Of
    <3> QED
      BY <3>1 DEF Touched
  <2>2. q.pending => ReachedPending(w.status)
    BY <1>3, <1>6 DEF DefaultSays
  <2>3. q.at = IF SaleCreated(s) \in S THEN w.createdAt ELSE 0
    BY <1>3, <1>6 DEF DefaultSays
  <2>4. w.createdAt < w.itemsAt => SaleCreated(s) \in S
    <3> SUFFICES ASSUME w.createdAt < w.itemsAt PROVE SaleCreated(s) \in S
      OBVIOUS
    <3> DEFINE c == SaleCreated(s)
    <3>1. c \in SaleEvents(s)
      BY <1>1, EventKinds
    <3>2. c \in AllEvents
      BY <1>1, <3>1 DEF AllEvents
    <3>3. c.at = w.createdAt
      BY SaleCreatedParts
    <3>4. w.itemsAt <= e.at
      BY <1>1, LineEventsAfter
    <3>5. w.createdAt \in Int /\ w.itemsAt \in Int /\ e.at \in Int
      <4>1. w.createdAt \in Int \ {0} /\ w.itemsAt \in Nat \ {0}
        BY <1>1, RowOf, Zenon DEF RowType
      <4>2. e.at \in Int
        BY <1>1, EventNumbers
      <4> QED
        BY <4>1, <4>2
    <3> HIDE DEF c
    <3>6. c.at < e.at
      BY <3>3, <3>4, <3>5
    <3>7. SortKey(c)[1] = c.at /\ SortKey(e)[1] = e.at
      BY DEF SortKey
    <3>8. Earlier(c, e)
      <4>1. 1 \in 1 .. 5 /\ 1 .. 1 - 1 = {}
        OBVIOUS
      <4>2. SortKey(c)[1] < SortKey(e)[1] /\ \A j \in 1 .. 1 - 1 : SortKey(c)[j] = SortKey(e)[j]
        BY <3>6, <3>7, <4>1
      <4> QED
        BY <4>1, <4>2, EarlierIs
    <3> QED
      BY <3>2, <3>8 DEF c
  <2> QED
    BY <2>1, <2>2, <2>3, <2>4 DEF AcceptedSays
<1> QED
  BY <1>7, <1>8, <1>9, <1>10 DEF RecordSays, q

-----------------------------------------------------------------------------
(* The funnel: one event more.                                             *)

\* The payment of a sale: the defaults, and every record that there is.
LEMMA PaymentStep ==
  ASSUME HistoryInv, NEW S, NEW f, FunnelSays(f, S), NEW s \in DOMAIN sales, NEW e,
         e = Payment(s)
  PROVE  FunnelSays(AddToFunnel(f, e), S \cup {e})
<1> DEFINE g == AddToFunnel(f, e)
           T == S \cup {e}
           d == Entry(f.defaults, s, NoRecord)
<1>1. e.type = "payment.processed" /\ e.sale = s /\ e.ticket = 0
  BY PaymentParts
<1>0. g = [defaults |-> g.defaults, records |-> g.records]
  BY <1>1 DEF AddToFunnel
<1>2. /\ g.defaults = Put(f.defaults, s, Paying(d, e))
      /\ g.records = [k \in DOMAIN f.records |->
                        IF k[1] = s THEN Paying(f.records[k], e) ELSE f.records[k]]
  BY <1>1 DEF AddToFunnel
<1>3. \A k : ~Of(e, k) \/ k \notin Lines
  <2> SUFFICES ASSUME NEW k \in Lines, Of(e, k) PROVE FALSE
    OBVIOUS
  <2>1. k[2] # 0
    BY LineParts, LineTickets
  <2> QED
    BY <1>1, <2>1 DEF Of
<1>4. ASSUME NEW q \in DOMAIN sales PROVE DefaultSays(Entry(g.defaults, q, NoRecord), q, T)
  <2>1. DefaultSays(Entry(f.defaults, q, NoRecord), q, S)
    BY DEF FunnelSays
  <2>2. CASE q = s
    <3>1. Entry(g.defaults, q, NoRecord) = Paying(d, e)
      BY <1>2, <2>2, EntryOfPut
    <3>2. DefaultSays(d, s, S)
      BY <2>1, <2>2
    <3> DEFINE p == Paying(d, e)
    <3> HIDE DEF d, g
    <3>3. /\ IsRecord(p) /\ PaymentSays(p, s, S \cup {e})
          /\ p.at = d.at /\ p.pending = d.pending
      BY <3>2, PayingSays DEF DefaultSays
    <3>4. SaleCreated(s) # e
      BY <1>1, SaleCreatedParts
    <3>5. SaleCreated(s) \in T <=> SaleCreated(s) \in S
      BY <3>4
    <3> HIDE DEF p
    <3>6. DefaultSays(p, s, T)
      BY <3>2, <3>3, <3>5 DEF DefaultSays
    <3> QED
      BY <2>2, <3>1, <3>6 DEF p
  <2>3. CASE q # s
    <3>1. Entry(g.defaults, q, NoRecord) = Entry(f.defaults, q, NoRecord)
      BY <1>2, <2>3, EntryOfPut
    <3>2. e # SaleCreated(q) /\ e # Payment(q)
      <4>1. SaleCreated(q).sale = q /\ Payment(q).sale = q
        BY SaleCreatedParts, PaymentParts
      <4> QED
        BY <1>1, <2>3, <4>1
    <3> HIDE DEF g
    <3> QED
      BY <2>1, <3>1, <3>2, DefaultSame
  <2> QED
    BY <2>2, <2>3
<1>5. \A k \in Lines : Touched(k, T) <=> Touched(k, S)
  BY <1>3 DEF Touched
<1>6. DOMAIN g.records = {k \in Lines : Touched(k, T)}
  <2>1. DOMAIN g.records = DOMAIN f.records
    BY <1>2
  <2> HIDE DEF g, T
  <2> QED
    BY <1>5, <2>1 DEF FunnelSays
<1>7. ASSUME NEW k \in DOMAIN g.records PROVE RecordSays(g.records[k], k, T)
  <2> DEFINE r == f.records[k]
  <2>1. k \in DOMAIN f.records /\ g.records[k] = IF k[1] = s THEN Paying(r, e) ELSE r
    BY <1>2
  <2>2. k \in Lines /\ RecordSays(r, k, S)
    BY <2>1 DEF FunnelSays
  <2>3. ~Of(e, k)
    BY <1>3, <2>2
  <2>4. CASE k[1] = s
    <3> DEFINE p == Paying(r, e)
    <3> HIDE DEF g, r
    <3>1. /\ IsRecord(p) /\ PaymentSays(p, s, S \cup {e})
          /\ p.at = r.at /\ p.accepted = r.accepted /\ p.pending = r.pending
          /\ p.issued = r.issued /\ p.checkedIn = r.checkedIn
      BY <2>2, <2>4, PayingSays DEF RecordSays
    <3> HIDE DEF p
    <3>2. StageSays(p, k, T)
      <4>1. \A x : (x \in T /\ Of(x, k)) <=> (x \in S /\ Of(x, k))
        BY <2>3
      <4> HIDE DEF T
      <4> QED
        BY <2>2, <3>1, <4>1 DEF RecordSays, StageSays
    <3>3. AcceptedSays(p, k, T)
      <4>1. ItemCreated(k[1], k[2]) # e
        BY <1>1, ItemParts
      <4>2. ItemCreated(k[1], k[2]) \in T <=> ItemCreated(k[1], k[2]) \in S
        BY <4>1
      <4> HIDE DEF T
      <4> QED
        BY <2>2, <3>1, <4>2 DEF RecordSays, AcceptedSays
    <3>4. RecordSays(p, k, T)
      BY <2>4, <3>1, <3>2, <3>3 DEF RecordSays
    <3> QED
      BY <2>1, <2>4, <3>4 DEF p
  <2>5. CASE k[1] # s
    <3>1. Payment(k[1]).sale = k[1]
      BY PaymentParts
    <3>2. e # Payment(k[1])
      BY <1>1, <2>5, <3>1
    <3> HIDE DEF g, r
    <3>3. RecordSays(r, k, T)
      BY <2>2, <2>3, <3>2, RecordSame
    <3> QED
      BY <2>1, <2>5, <3>3
  <2> QED
    BY <2>4, <2>5
<1> HIDE DEF g, T
<1>8. FunnelSays(g, T)
  BY <1>0, <1>4, <1>6, <1>7 DEF FunnelSays
<1> QED
  BY <1>8 DEF g, T

\* The sale itself: the defaults only.
LEMMA CreatedStep ==
  ASSUME HistoryInv, NEW S, NEW f, FunnelSays(f, S), NEW s \in DOMAIN sales, NEW e,
         e = SaleCreated(s)
  PROVE  FunnelSays(AddToFunnel(f, e), S \cup {e})
<1> DEFINE g == AddToFunnel(f, e)
           T == S \cup {e}
           d == Entry(f.defaults, s, NoRecord)
           p == [d EXCEPT !.at = e.at, !.accepted = TRUE, !.pending = ReachedPending(e.status)]
<1>1. /\ e.type = "sale.created" /\ e.sale = s /\ e.ticket = 0
      /\ e.at = sales[s].createdAt /\ e.status = sales[s].status
  BY SaleCreatedParts
<1>2. g = [f EXCEPT !.defaults = Put(f.defaults, s, p)]
  BY <1>1 DEF AddToFunnel
<1>3. f = [defaults |-> f.defaults, records |-> f.records]
  BY DEF FunnelSays
<1> DEFINE put == Put(f.defaults, s, p)
<1> HIDE DEF put, g
<1>4. g = [defaults |-> put, records |-> f.records]
  BY <1>2, <1>3 DEF put
<1>5. g.defaults = put /\ g.records = f.records /\ g = [defaults |-> g.defaults, records |-> g.records]
  BY <1>4
<1> HIDE DEF p, d
<1>6. Entry(g.defaults, s, NoRecord) = p /\
      \A q : q # s => Entry(g.defaults, q, NoRecord) = Entry(f.defaults, q, NoRecord)
  BY <1>5, EntryOfPut DEF put
<1>7. DefaultSays(p, s, T)
  <2>1. DefaultSays(d, s, S)
    BY DEF FunnelSays, d
  <2> DEFINE x == ReachedPending(e.status)
  <2>2. x \in BOOLEAN /\ x = ReachedPending(sales[s].status)
    BY <1>1 DEF ReachedPending
  <2>3. p = [d EXCEPT !.at = e.at, !.accepted = TRUE, !.pending = x]
    BY DEF p
  <2> HIDE DEF x
  <2>4. d = [y \in Fields |-> d[y]]
    BY <2>1 DEF DefaultSays, IsRecord
  <2>5. /\ p = [y \in Fields |-> p[y]] /\ p.at = e.at /\ p.accepted = TRUE /\ p.pending = x
        /\ p.paid = d.paid /\ p.provider = d.provider /\ p.issued = d.issued
        /\ p.checkedIn = d.checkedIn
    BY <2>3, <2>4 DEF Fields
  <2>6. e.at \in Int
    <3>1. sales[s].createdAt \in Int \ {0}
      BY RowOf, Zenon DEF RowType
    <3> QED
      BY <1>1, <3>1
  <2>7. IsRecord(p)
    BY <2>1, <2>2, <2>5, <2>6 DEF DefaultSays, IsRecord
  <2>8. Payment(s) # e
    BY <1>1, PaymentParts
  <2>9. Payment(s) \in T <=> Payment(s) \in S
    BY <2>8
  <2>10. SaleCreated(s) \in T
    OBVIOUS
  <2> HIDE DEF T
  <2>11. PaymentSays(p, s, T)
    BY <2>1, <2>5, <2>9 DEF DefaultSays, PaymentSays
  <2> QED
    BY <1>1, <2>2, <2>5, <2>7, <2>10, <2>11 DEF DefaultSays
<1>8. ASSUME NEW q \in DOMAIN sales PROVE DefaultSays(Entry(g.defaults, q, NoRecord), q, T)
  <2>1. CASE q = s
    BY <1>6, <1>7, <2>1
  <2>2. CASE q # s
    <3>1. DefaultSays(Entry(f.defaults, q, NoRecord), q, S)
      BY DEF FunnelSays
    <3>2. e # SaleCreated(q) /\ e # Payment(q)
      <4>1. SaleCreated(q).sale = q /\ Payment(q).sale = q
        BY SaleCreatedParts, PaymentParts
      <4> QED
        BY <1>1, <2>2, <4>1
    <3> QED
      BY <1>6, <2>2, <3>1, <3>2, DefaultSame
  <2> QED
    BY <2>1, <2>2
<1>9. \A k \in Lines : ~Of(e, k)
  <2> SUFFICES ASSUME NEW k \in Lines, Of(e, k) PROVE FALSE
    OBVIOUS
  <2>1. k[2] # 0
    BY LineParts, LineTickets
  <2> QED
    BY <1>1, <2>1 DEF Of
<1>10. DOMAIN g.records = {k \in Lines : Touched(k, T)}
  <2>1. \A k \in Lines : Touched(k, T) <=> Touched(k, S)
    BY <1>9 DEF Touched
  <2> HIDE DEF T
  <2> QED
    BY <1>5, <2>1 DEF FunnelSays
<1>11. ASSUME NEW k \in DOMAIN g.records PROVE RecordSays(g.records[k], k, T)
  <2>1. k \in Lines /\ RecordSays(f.records[k], k, S) /\ g.records[k] = f.records[k]
    BY <1>5, <1>10 DEF FunnelSays
  <2>2. Payment(k[1]) # e
    BY <1>1, PaymentParts
  <2> QED
    BY <1>9, <2>1, <2>2, RecordSame
<1> HIDE DEF T
<1>12. FunnelSays(g, T)
  BY <1>5, <1>8, <1>10, <1>11 DEF FunnelSays
<1> QED
  BY <1>12 DEF g, T

\* An event of a line: its record, which begins with the defaults.
LEMMA LineStep ==
  ASSUME HistoryInv, NEW S, NEW f, FunnelSays(f, S), NEW s \in DOMAIN sales,
         NEW e \in SaleEvents(s), e.ticket # 0,
         \A g \in AllEvents : Earlier(g, e) => g \in S
  PROVE  FunnelSays(AddToFunnel(f, e), S \cup {e})
<1> DEFINE g == AddToFunnel(f, e)
           T == S \cup {e}
           t == e.ticket
           k == <<s, t>>
           r == Entry(f.records, k, Inherited(f, e))
           q == ApplyTo(r, e)
<1>1. e.sale = s
  BY EventDetermined DEF Determined
<1>2. /\ t \in Line(s) /\ e.type \in {"sale.item.created", "ticket.issued", "checkin.completed"}
  BY TicketKinds
<1>3. k \in Lines /\ k[1] = s /\ k[2] = t
  BY <1>2, LinesAre
<1>4. f = [defaults |-> f.defaults, records |-> f.records]
  BY DEF FunnelSays
<1> DEFINE put == Put(f.records, k, q)
<1>5. g = [f EXCEPT !.records = put]
  BY <1>1, <1>2 DEF AddToFunnel
<1> HIDE DEF put, g
<1>6. g.defaults = f.defaults /\ g.records = put /\ g = [defaults |-> g.defaults, records |-> g.records]
  BY <1>4, <1>5
<1> HIDE DEF q
<1>7. /\ DOMAIN put = DOMAIN f.records \cup {k} /\ put[k] = q
      /\ \A l \in DOMAIN f.records : l # k => put[l] = f.records[l]
  <2> HIDE DEF k
  <2> QED
    BY DEF put, Put
<1>8. RecordSays(r, k, S)
  <2>1. CASE k \in DOMAIN f.records
    BY <2>1 DEF Entry, FunnelSays
  <2>2. CASE k \notin DOMAIN f.records
    <3>1. ~Touched(k, S)
      BY <1>3, <2>2 DEF FunnelSays
    <3>2. r = Inherited(f, e)
      BY <2>2 DEF Entry
    <3> HIDE DEF k, r
    <3>3. e \in SaleEvents(k[1]) /\ e.ticket = k[2]
      BY <1>3
    <3> QED
      BY <1>3, <3>1, <3>2, <3>3, InheritedSays
  <2> QED
    BY <2>1, <2>2
<1>9. RecordSays(q, k, T)
  <2> HIDE DEF k, r
  <2>1. e \in SaleEvents(k[1]) /\ e.ticket = k[2]
    BY <1>3
  <2> QED
    BY <1>3, <1>8, <2>1, ApplySays DEF q
<1>10. ASSUME NEW x \in DOMAIN sales PROVE DefaultSays(Entry(g.defaults, x, NoRecord), x, T)
  <2>1. e # SaleCreated(x) /\ e # Payment(x)
    BY SaleCreatedParts, PaymentParts
  <2>2. DefaultSays(Entry(f.defaults, x, NoRecord), x, S)
    BY DEF FunnelSays
  <2> QED
    BY <1>6, <2>1, <2>2, DefaultSame
<1>11. \A l \in Lines : Of(e, l) <=> l = k
  <2> SUFFICES ASSUME NEW l \in Lines PROVE Of(e, l) <=> l = k
    OBVIOUS
  <2>1. l = <<l[1], l[2]>>
    BY LineParts
  <2> QED
    BY <1>1, <1>3, <2>1 DEF Of
<1> HIDE DEF k
<1>12. DOMAIN g.records = {l \in Lines : Touched(l, T)}
  <2>1. \A l \in Lines : Touched(l, T) <=> (Touched(l, S) \/ l = k)
    BY <1>11 DEF Touched
  <2> HIDE DEF T
  <2> QED
    BY <1>3, <1>6, <1>7, <2>1 DEF FunnelSays
<1>13. ASSUME NEW l \in DOMAIN g.records PROVE RecordSays(g.records[l], l, T)
  <2>1. CASE l = k
    BY <1>6, <1>7, <1>9, <2>1
  <2>2. CASE l # k
    <3>1. l \in Lines /\ l \in DOMAIN f.records /\ g.records[l] = f.records[l]
      BY <1>6, <1>7, <1>12, <2>2
    <3>2. RecordSays(f.records[l], l, S)
      BY <3>1 DEF FunnelSays
    <3>3. Payment(l[1]) # e
      BY PaymentParts
    <3> QED
      BY <1>11, <2>2, <3>1, <3>2, <3>3, RecordSame
  <2> QED
    BY <2>1, <2>2
<1> HIDE DEF T
<1>14. FunnelSays(g, T)
  BY <1>6, <1>10, <1>12, <1>13 DEF FunnelSays
<1> QED
  BY <1>14 DEF g, T

\* The events of the outbox and of the email.
LEMMA OtherStep ==
  ASSUME HistoryInv, NEW S, NEW f, FunnelSays(f, S), NEW s \in DOMAIN sales,
         NEW e \in SaleEvents(s), e.ticket = 0,
         e.type # "sale.created", e.type # "payment.processed"
  PROVE  FunnelSays(AddToFunnel(f, e), S \cup {e})
<1> DEFINE T == S \cup {e}
<1>1. AddToFunnel(f, e) = f
  BY DEF AddToFunnel
<1>2. \A x : e # SaleCreated(x) /\ e # Payment(x)
  BY SaleCreatedParts, PaymentParts
<1>3. \A k \in Lines : ~Of(e, k)
  <2> SUFFICES ASSUME NEW k \in Lines, Of(e, k) PROVE FALSE
    OBVIOUS
  <2>1. k[2] # 0
    BY LineParts, LineTickets
  <2> QED
    BY <2>1 DEF Of
<1>4. \A x \in DOMAIN sales : DefaultSays(Entry(f.defaults, x, NoRecord), x, T)
  BY <1>2, DefaultSame DEF FunnelSays
<1>5. DOMAIN f.records = {l \in Lines : Touched(l, T)}
  <2>1. \A k \in Lines : Touched(k, T) <=> Touched(k, S)
    BY <1>3 DEF Touched
  <2> HIDE DEF T
  <2> QED
    BY <2>1 DEF FunnelSays
<1>6. ASSUME NEW k \in DOMAIN f.records PROVE RecordSays(f.records[k], k, T)
  <2>1. k \in Lines /\ RecordSays(f.records[k], k, S)
    BY DEF FunnelSays
  <2> QED
    BY <1>2, <1>3, <2>1, RecordSame
<1>7. FunnelSays(f, T)
  <2> HIDE DEF T
  <2> QED
    BY <1>4, <1>5, <1>6 DEF FunnelSays
<1> QED
  BY <1>1, <1>7

\* One event more, of which every earlier one has been seen.
LEMMA FunnelStep ==
  ASSUME HistoryInv, NEW S, NEW f, FunnelSays(f, S), NEW e \in AllEvents,
         \A g \in AllEvents : Earlier(g, e) => g \in S
  PROVE  FunnelSays(AddToFunnel(f, e), S \cup {e})
<1>1. PICK s \in DOMAIN sales : e \in SaleEvents(s)
  BY DEF AllEvents
<1>2. Determined(e, s)
  BY <1>1, EventDetermined
<1>3. CASE e.type = "sale.created"
  BY <1>1, <1>2, <1>3, CreatedStep DEF Determined
<1>4. CASE e.type = "payment.processed"
  BY <1>1, <1>2, <1>4, PaymentStep DEF Determined
<1>5. CASE e.ticket # 0
  BY <1>1, <1>5, LineStep
<1> QED
  BY <1>1, <1>3, <1>4, <1>5, OtherStep

-----------------------------------------------------------------------------
(* The funnel of all events.                                               *)

\* Before the first event nothing is known.
LEMMA FunnelBegins ==
  ASSUME HistoryInv
  PROVE  FunnelSays(EmptyFunnel, {})
<1>1. /\ EmptyFunnel = [defaults |-> EmptyFunnel.defaults, records |-> EmptyFunnel.records]
      /\ DOMAIN EmptyFunnel.defaults = {} /\ DOMAIN EmptyFunnel.records = {}
  BY DEF EmptyFunnel
<1>2. \A s : Entry(EmptyFunnel.defaults, s, NoRecord) = NoRecord
  BY <1>1 DEF Entry
<1>3. IsRecord(NoRecord) /\ NoRecord.at = 0 /\ NoRecord.pending = FALSE /\ NoRecord.paid = FALSE
      /\ NoRecord.provider = ""
  <2>1. /\ NoRecord.at = 0 /\ NoRecord.pending = FALSE /\ NoRecord.paid = FALSE
        /\ NoRecord.provider = "" /\ NoRecord.accepted = FALSE
        /\ NoRecord.issued = FALSE /\ NoRecord.checkedIn = FALSE
    BY DEF NoRecord
  <2>2. NoRecord = [x \in Fields |-> NoRecord[x]]
    <3>1. NoRecord = [x \in DOMAIN NoRecord |-> NoRecord[x]]
      BY DEF NoRecord
    <3>2. DOMAIN NoRecord = Fields
      BY DEF NoRecord, Fields
    <3> QED
      BY <3>1, <3>2
  <2> DEFINE d == NoRecord
  <2>3. d.at \in Int
    <3>1. d.at = 0
      BY <2>1
    <3>2. 0 \in Int
      OBVIOUS
    <3> QED
      BY <3>1, <3>2, Zenon
  <2>4. d = [x \in Fields |-> d[x]]
    BY <2>2
  <2> HIDE DEF d
  <2>5. IsRecord(d)
    BY <2>1, <2>3, <2>4 DEF IsRecord, d
  <2> QED
    BY <2>1, <2>5 DEF d
<1>4. \A s : DefaultSays(NoRecord, s, {})
  BY <1>3 DEF DefaultSays, PaymentSays
<1>5. \A k : ~Touched(k, {})
  BY DEF Touched
<1> QED
  BY <1>1, <1>2, <1>4, <1>5 DEF FunnelSays

\* The fold over the whole history.
LEMMA FunnelOfAll ==
  ASSUME HistoryInv
  PROVE  FunnelSays(FoldLeft(AddToFunnel, EmptyFunnel, Everything), AllEvents)
<1> DEFINE E == AllEvents
           events == Sorted(E)
           n == Cardinality(E)
           seen(i) == {events[j] : j \in 1 .. i}
<1>1. Keyed(E)
  BY EventsKeyed
<1>2. /\ n \in Nat /\ events \in [1 .. n -> E]
      /\ \A e \in E : \E i \in 1 .. n : events[i] = e
      /\ \A i \in 1 .. n : \A j \in 1 .. n : i < j => Earlier(events[i], events[j])
  <2> HIDE DEF E
  <2> QED
    BY <1>1, SortedEnumerates
<1> HIDE DEF events, n
<1>3. DOMAIN events = 1 .. n
  BY <1>2
<1>4. PICK G : FunnelSteps(G, n, events) /\ FoldLeft(AddToFunnel, EmptyFunnel, events) = G[n]
  <2> HIDE DEF E
  <2> QED
    BY <1>2, <1>3, FunnelFold
<1>5. ASSUME NEW i \in 1 .. n, FunnelSays(G[i - 1], seen(i - 1))
      PROVE  FunnelSays(G[i], seen(i))
  <2> DEFINE e == events[i]
             S == seen(i - 1)
  <2>1. G[i] = AddToFunnel(G[i - 1], e)
    BY <1>4 DEF FunnelSteps
  <2>2. e \in AllEvents
    BY <1>2
  <2>3. seen(i) = S \cup {e}
    <3>1. \A j : j \in 1 .. i <=> (j \in 1 .. i - 1 \/ j = i)
      BY <1>2
    <3> QED
      BY <3>1
  <2>4. ASSUME NEW g \in AllEvents, Earlier(g, e) PROVE g \in S
    <3>1. PICK j \in 1 .. n : events[j] = g
      BY <1>2
    <3>2. ~(i < j)
      <4> SUFFICES ASSUME i < j PROVE FALSE
        OBVIOUS
      <4>1. Earlier(e, g)
        BY <1>2, <3>1
      <4> HIDE DEF e
      <4>2. Earlier(e, e)
        BY <1>1, <2>2, <2>4, <4>1, EarlierTransitive
      <4> QED
        BY <1>1, <2>2, <4>2, EarlierIrreflexive
    <3>3. i # j
      <4> SUFFICES ASSUME i = j PROVE FALSE
        OBVIOUS
      <4>1. Earlier(e, e)
        BY <2>4, <3>1
      <4> HIDE DEF e
      <4> QED
        BY <1>1, <2>2, <4>1, EarlierIrreflexive
    <3>4. j \in 1 .. i - 1
      BY <1>2, <3>2, <3>3
    <3> QED
      BY <3>1, <3>4
  <2> DEFINE f == G[i - 1]
  <2>5. FunnelSays(f, S)
    BY <1>5
  <2> HIDE DEF e, S, f, seen
  <2>6. FunnelSays(AddToFunnel(f, e), S \cup {e})
    BY <2>2, <2>4, <2>5, FunnelStep
  <2> QED
    BY <2>1, <2>3, <2>6 DEF f
<1>6. FunnelSays(G[0], seen(0))
  <2>1. seen(0) = {} /\ G[0] = EmptyFunnel
    BY <1>4 DEF FunnelSteps
  <2> QED
    BY <2>1, FunnelBegins
<1> DEFINE Says(i) == FunnelSays(G[i], seen(i))
           N == {i \in 0 .. n : ~Says(i)}
<1>7. N = {}
  <2> SUFFICES ASSUME N # {} PROVE FALSE
    OBVIOUS
  <2>1. PICK m \in N : \A l \in N : m <= l
    <3>1. N \subseteq Nat
      OBVIOUS
    <3> HIDE DEF N
    <3> QED
      BY <3>1, LeastNat
  <2>2. m \in 0 .. n /\ ~Says(m)
    OBVIOUS
  <2>3. m # 0
    BY <1>6, <2>2
  <2>4. m \in 1 .. n /\ m - 1 \in 0 .. n /\ ~(m <= m - 1)
    BY <1>2, <2>2, <2>3
  <2>5. Says(m - 1)
    <3> HIDE DEF Says
    <3> QED
      BY <2>1, <2>4
  <2>6. Says(m)
    BY <1>5, <2>4, <2>5
  <2> QED
    BY <2>2, <2>6
<1>8. Says(n)
  <2>1. n \in 0 .. n
    BY <1>2
  <2> HIDE DEF Says
  <2> QED
    BY <1>7, <2>1
<1>9. seen(n) = AllEvents
  BY <1>2
<1> HIDE DEF seen
<1> QED
  BY <1>4, <1>8, <1>9 DEF Everything, events

-----------------------------------------------------------------------------
(* The funnel and the tables.                                              *)

\* What the tables say of a line.
LineRecord(k) ==
  LET r == sales[k[1]]
  IN [at |-> Min({r.createdAt, r.itemsAt}),
      accepted |-> TRUE,
      pending |-> r.status \in {"PENDING_PAYMENT", "COMPLETED"},
      paid |-> r.payment = "APPROVED",
      provider |-> r.provider,
      issued |-> r.issuedAt > 0,
      checkedIn |-> \E u \in DOMAIN r.checkIns : u[1] = k[2]]

\* The first ticket of a line, of which there is one.
LEMMA FirstUnit ==
  ASSUME HistoryInv, NEW s \in DOMAIN sales, NEW t \in Line(s)
  PROVE  <<t, 1>> \in Units(s)
<1> DEFINE r == sales[s]
<1>1. RowType(s, r)
  BY RowOf
<1>2. r.items \in [Ticket -> Nat]
  BY <1>1, Zenon DEF RowType
<1>3. t \in Ticket /\ r.items[t] > 0 /\ r.items[t] \in Nat
  BY <1>2, LineTickets DEF Line
<1> DEFINE items == r.items
           R == {0} \cup Range(items)
           m == Max(R)
<1>6. m \in Int /\ items[t] <= m
  BY <1>3, MostUnits
<1> DEFINE u == <<t, 1>>
<1>7. u[1] = t /\ u[2] = 1
  OBVIOUS
<1>8. 1 \in 1 .. m /\ 1 <= items[t]
  <2> DEFINE a == items[t]
  <2>1. a \in Nat /\ a > 0 /\ m \in Int /\ a <= m
    BY <1>3, <1>6
  <2> HIDE DEF a, m
  <2>2. 1 <= a /\ 1 <= m
    BY <2>1
  <2> QED
    BY <2>1, <2>2 DEF a
<1>9. u \in Line(s) \X (1 .. m)
  <2> HIDE DEF m
  <2> QED
    BY <1>8
<1> QED
  BY <1>7, <1>8, <1>9 DEF Units

\* In the end every line has been seen, with the payment of its sale,
LEMMA LineIsSeen ==
  ASSUME HistoryInv, NEW k \in Lines
  PROVE  /\ Touched(k, AllEvents)
         /\ ItemCreated(k[1], k[2]) \in AllEvents
         /\ Payment(k[1]) \in AllEvents
<1> DEFINE s == k[1]
           t == k[2]
<1>1. s \in DOMAIN sales /\ t \in Line(s)
  BY LineParts
<1>2. ItemCreated(s, t) \in SaleEvents(s) /\ Payment(s) \in SaleEvents(s)
  BY <1>1, EventKinds
<1>3. ItemCreated(s, t) \in AllEvents /\ Payment(s) \in AllEvents
  BY <1>1, <1>2 DEF AllEvents
<1>4. Of(ItemCreated(s, t), k)
  BY ItemParts DEF Of
<1> QED
  BY <1>3, <1>4 DEF Touched

\* with its tickets if they were issued,
LEMMA IssuedLines ==
  ASSUME HistoryInv, NEW k \in Lines
  PROVE  (\E e \in AllEvents : Of(e, k) /\ e.type = "ticket.issued") <=> sales[k[1]].issuedAt > 0
<1> DEFINE s == k[1]
           t == k[2]
<1>1. s \in DOMAIN sales /\ t \in Line(s)
  BY LineParts
<1>2. ASSUME NEW e \in AllEvents, Of(e, k), e.type = "ticket.issued" PROVE sales[s].issuedAt > 0
  <2>1. PICK x \in DOMAIN sales : e \in SaleEvents(x)
    BY DEF AllEvents
  <2>2. Determined(e, x)
    BY <2>1, EventDetermined
  <2>3. x = s /\ sales[x].issuedAt > 0
    BY <1>2, <2>2 DEF Determined, Of
  <2> QED
    BY <2>3
<1>3. ASSUME sales[s].issuedAt > 0
      PROVE  \E e \in AllEvents : Of(e, k) /\ e.type = "ticket.issued"
  <2> DEFINE e == TicketIssued(s, t, 1)
             u == <<t, 1>>
  <2>1. u \in Units(s) /\ u[1] = t /\ u[2] = 1
    BY <1>1, FirstUnit
  <2>2. e = TicketIssued(s, u[1], u[2])
    BY <2>1
  <2> HIDE DEF u
  <2>3. e \in SaleEvents(s)
    BY <1>1, <1>3, <2>1, <2>2, EventKinds
  <2>4. e \in AllEvents
    BY <1>1, <2>3 DEF AllEvents
  <2>5. e.type = "ticket.issued" /\ Of(e, k)
    BY IssuedParts DEF Of
  <2> QED
    BY <2>4, <2>5
<1> QED
  BY <1>2, <1>3

\* and with its check-ins.
LEMMA CheckedInLines ==
  ASSUME HistoryInv, NEW k \in Lines
  PROVE  (\E e \in AllEvents : Of(e, k) /\ e.type = "checkin.completed") <=>
           \E u \in DOMAIN sales[k[1]].checkIns : u[1] = k[2]
<1> DEFINE s == k[1]
           t == k[2]
           D == DOMAIN sales[s].checkIns
<1>1. s \in DOMAIN sales /\ t \in Line(s)
  BY LineParts
<1>2. ASSUME NEW e \in AllEvents, Of(e, k), e.type = "checkin.completed"
      PROVE  \E u \in D : u[1] = t
  <2>1. PICK x \in DOMAIN sales : e \in SaleEvents(x)
    BY DEF AllEvents
  <2>2. Determined(e, x)
    BY <2>1, EventDetermined
  <2>3. x = s /\ <<e.ticket, e.id>> \in D
    BY <1>2, <2>2 DEF Determined, Of
  <2>4. <<e.ticket, e.id>>[1] = t
    BY <1>2 DEF Of
  <2> QED
    BY <2>3, <2>4
<1>3. ASSUME NEW u \in D, u[1] = t
      PROVE  \E e \in AllEvents : Of(e, k) /\ e.type = "checkin.completed"
  <2> DEFINE a == u[1]
             b == u[2]
             e == CheckedIn(s, a, b)
  <2>1. e \in SaleEvents(s)
    BY <1>1, EventKinds
  <2>2. e \in AllEvents
    BY <1>1, <2>1 DEF AllEvents
  <2> HIDE DEF a, b
  <2> DEFINE x == e
  <2>3. x = CheckedIn(s, a, b)
    OBVIOUS
  <2> HIDE DEF x, e
  <2>4. x.type = "checkin.completed" /\ x.sale = s /\ x.ticket = a
    <3> HIDE DEF s, t, D
    <3> QED
      BY <2>3 DEF CheckedIn, Event
  <2>5. Of(x, k)
    BY <1>3, <2>4 DEF Of, a
  <2> QED
    BY <2>2, <2>4, <2>5 DEF x
<1> QED
  BY <1>2, <1>3

\* So that its record is what the tables say.
LEMMA LineRecordSays ==
  ASSUME HistoryInv, NEW k \in Lines, NEW r, RecordSays(r, k, AllEvents)
  PROVE  r = LineRecord(k) /\ r.at # 0 /\ r.provider # ""
<1> DEFINE s == k[1]
           w == sales[s]
           q == LineRecord(k)
<1>1. s \in DOMAIN sales
  BY LineParts
<1>2. w.createdAt \in Int /\ w.createdAt # 0 /\ w.itemsAt \in Int /\ w.itemsAt # 0
  <2>1. w.createdAt \in Int \ {0} /\ w.itemsAt \in Nat \ {0}
    BY <1>1, RowOf, Zenon DEF RowType
  <2> QED
    BY <2>1
<1>3. w.provider # ""
  BY <1>1, RowOf DEF RowType
<1>4. r.paid <=> w.payment = "APPROVED"
  BY LineIsSeen DEF RecordSays, PaymentSays
<1>5. r.provider = w.provider
  BY LineIsSeen DEF RecordSays, PaymentSays
<1>6. r.issued <=> w.issuedAt > 0
  BY IssuedLines DEF RecordSays, StageSays
<1>7. r.checkedIn <=> \E u \in DOMAIN w.checkIns : u[1] = k[2]
  BY CheckedInLines DEF RecordSays, StageSays
<1>8. r.accepted /\ (r.pending <=> w.status \in {"PENDING_PAYMENT", "COMPLETED"})
  BY LineIsSeen DEF RecordSays, AcceptedSays, ReachedPending
<1>9. r.at = IF w.createdAt < w.itemsAt THEN w.createdAt ELSE w.itemsAt
  BY LineIsSeen DEF RecordSays, AcceptedSays
<1>10. r.at = Min({w.createdAt, w.itemsAt})
  <2> DEFINE a == w.createdAt
             b == w.itemsAt
             S == {a} \cup {b}
             m == Min(S)
  <2>1. a \in Int /\ b \in Int
    BY <1>2
  <2>2. IsFiniteSet(S) /\ S \subseteq Int /\ S # {}
    <3>1. IsFiniteSet({a}) /\ IsFiniteSet({b})
      BY FS_Singleton
    <3> HIDE DEF a, b
    <3> QED
      BY <2>1, <3>1, FS_Union
  <2>3. m \in S /\ \A y \in S : m <= y
    <3> HIDE DEF S
    <3> QED
      BY <2>2, LeastInt
  <2> HIDE DEF m, a, b
  <2>4. m = IF a < b THEN a ELSE b
    BY <2>1, <2>3
  <2>5. S = {a, b}
    OBVIOUS
  <2> QED
    BY <1>9, <2>4, <2>5 DEF a, b, m
<1>11. r.accepted \in BOOLEAN /\ r.pending \in BOOLEAN /\ r.paid \in BOOLEAN
       /\ r.issued \in BOOLEAN /\ r.checkedIn \in BOOLEAN /\ r = [x \in Fields |-> r[x]]
  BY DEF RecordSays, IsRecord
<1>12. /\ q.at = Min({w.createdAt, w.itemsAt}) /\ q.accepted = TRUE
       /\ q.pending = (w.status \in {"PENDING_PAYMENT", "COMPLETED"})
       /\ q.paid = (w.payment = "APPROVED") /\ q.provider = w.provider
       /\ q.issued = (w.issuedAt > 0)
       /\ q.checkedIn = (\E u \in DOMAIN w.checkIns : u[1] = k[2])
  BY DEF LineRecord
<1>13. q = [x \in DOMAIN q |-> q[x]] /\ DOMAIN q = Fields
  BY DEF LineRecord, Fields
<1> HIDE DEF q, w
<1>14. /\ r.accepted = q.accepted /\ r.pending = q.pending /\ r.paid = q.paid
       /\ r.issued = q.issued /\ r.checkedIn = q.checkedIn
  <2> DEFINE reached == w.status \in {"PENDING_PAYMENT", "COMPLETED"}
             issued == w.issuedAt > 0
  <2>1. (r.pending <=> reached) /\ (r.issued <=> issued) /\ q.pending = reached /\ q.issued = issued
       /\ reached \in BOOLEAN /\ issued \in BOOLEAN
    BY <1>6, <1>8, <1>12
  <2> HIDE DEF reached, issued
  <2>2. r.paid = q.paid
    BY <1>4, <1>11, <1>12, Zenon
  <2>3. r.issued = q.issued
    BY <1>11, <2>1, Zenon
  <2>4. r.checkedIn = q.checkedIn
    BY <1>7, <1>11, <1>12, Zenon
  <2>5. r.pending = q.pending
    BY <1>11, <2>1
  <2>6. r.accepted = q.accepted
    BY <1>8, <1>11, <1>12, Zenon
  <2> QED
    BY <2>2, <2>3, <2>4, <2>5, <2>6
<1>15. r.at = q.at /\ r.provider = q.provider
  BY <1>5, <1>10, <1>12
<1>16. \A x \in Fields : r[x] = q[x]
  BY <1>14, <1>15 DEF Fields
<1>17. r = q
  BY <1>11, <1>13, <1>16
<1>18. r.at # 0
  BY <1>2, <1>9
<1> QED
  BY <1>3, <1>5, <1>17, <1>18 DEF q

\* The funnel, line by line.
LEMMA FunnelIs ==
  ASSUME HistoryInv
  PROVE  FunnelRecords(Everything) = [k \in Lines |-> LineRecord(k)]
<1> DEFINE built == FoldLeft(AddToFunnel, EmptyFunnel, Everything).records
           D == {k \in DOMAIN built : built[k].at # 0}
<1>1. FunnelRecords(Everything) =
        [k \in D |-> [built[k] EXCEPT !.provider = IF @ = "" THEN "unknown" ELSE @]]
  BY DEF FunnelRecords, EmptyFunnel
<1>2. DOMAIN built = {k \in Lines : Touched(k, AllEvents)}
  BY FunnelOfAll DEF FunnelSays
<1>3. DOMAIN built = Lines
  BY <1>2, LineIsSeen
<1>4. \A k \in Lines : RecordSays(built[k], k, AllEvents)
  BY <1>3, FunnelOfAll DEF FunnelSays
<1> HIDE DEF built
<1>5. \A k \in Lines : built[k] = LineRecord(k) /\ built[k].at # 0 /\ built[k].provider # ""
  BY <1>4, LineRecordSays
<1>6. D = Lines
  BY <1>3, <1>5
<1>7. ASSUME NEW k \in Lines
      PROVE  [built[k] EXCEPT !.provider = IF @ = "" THEN "unknown" ELSE @] = LineRecord(k)
  <2> DEFINE r == built[k]
  <2>1. r = LineRecord(k) /\ r.provider # "" /\ r = [x \in Fields |-> r[x]]
    BY <1>4, <1>5 DEF RecordSays, IsRecord
  <2> HIDE DEF r
  <2>2. [r EXCEPT !.provider = IF @ = "" THEN "unknown" ELSE @] = r
    BY <2>1 DEF Fields
  <2> QED
    BY <2>1, <2>2 DEF r
<1> HIDE DEF D
<1> QED
  BY <1>1, <1>6, <1>7

\* Which is the property.
LEMMA InvGivesFunnel == HistoryInv => FunnelMatchesTables
<1> SUFFICES ASSUME HistoryInv PROVE FunnelMatchesTables
  OBVIOUS
<1> DEFINE records == FunnelRecords(Everything)
<1>1. records = [k \in Lines |-> LineRecord(k)]
  BY FunnelIs
<1>2. DOMAIN records = Lines /\ \A k \in DOMAIN records : records[k] = LineRecord(k)
  BY <1>1
<1> HIDE DEF records
<1> QED
  BY <1>2 DEF FunnelMatchesTables, Lines, LineRecord, records

\* buildFunnelRecords, which reads events in the order of their times, ends
\* with what the tables say of every line, in whatever order clocks that
\* disagree put the events.
THEOREM FunnelSound == HistorySpec => []FunnelMatchesTables
BY HistoryInvariant, InvGivesFunnel, PTL

-----------------------------------------------------------------------------
(* The funnel: segments and their stages.                                  *)

\* There are finitely many lines.
LEMMA LinesFinite ==
  ASSUME HistoryInv
  PROVE  IsFiniteSet(Lines)
<1> DEFINE P == {{s} \X Line(s) : s \in DOMAIN sales}
<1>1. IsFiniteSet(DOMAIN sales)
  BY InvByRows DEF Common
<1>2. IsFiniteSet(P)
  <2> DEFINE f == [s \in DOMAIN sales |-> {s} \X Line(s)]
  <2>1. f \in Surjection(DOMAIN sales, P)
    BY DEF Surjection
  <2> HIDE DEF f, P
  <2> QED
    BY <1>1, <2>1, FS_Surjection
<1>3. \A L \in P : IsFiniteSet(L)
  <2> SUFFICES ASSUME NEW s \in DOMAIN sales PROVE IsFiniteSet({s} \X Line(s))
    OBVIOUS
  <2>1. IsFiniteSet({s})
    BY FS_Singleton
  <2>2. IsFiniteSet(Line(s))
    BY UnitsOf
  <2> QED
    BY <2>1, <2>2, FS_Product
<1> HIDE DEF P
<1>4. IsFiniteSet(UNION P)
  BY <1>2, <1>3, FS_UNION
<1> QED
  BY <1>4 DEF Lines, P

\* The stages of a line follow one another, unless its sale was reset.
LEMMA StagesFollow ==
  ASSUME HistoryInv, NEW k \in Lines
  PROVE  LET r == LineRecord(k)
         IN /\ r.accepted = TRUE
            /\ r.paid => r.pending
            /\ (k[1] \notin reopened \/ ~(sales[k[1]].issuedAt > 0)) => (r.issued => r.paid)
            /\ r.checkedIn => r.issued
<1> DEFINE w == sales[k[1]]
           r == LineRecord(k)
<1>1. RowInOrder(k[1], w, now, reopened)
  BY LineParts, RowOf
<1>2. /\ r.accepted = TRUE /\ (r.pending <=> w.status \in {"PENDING_PAYMENT", "COMPLETED"})
      /\ (r.paid <=> w.payment = "APPROVED") /\ (r.issued <=> w.issuedAt > 0)
      /\ (r.checkedIn <=> \E u \in DOMAIN w.checkIns : u[1] = k[2])
  BY DEF LineRecord
<1> HIDE DEF r, w
<1>3. <<w.status, w.payment>> \in {<<"PENDING_PAYMENT", "PENDING">>,
                                   <<"COMPLETED", "APPROVED">>, <<"FAILED", "FAILED">>}
  BY <1>1 DEF RowInOrder
<1>4. w.issuedAt > 0 => w.status = "COMPLETED" \/ k[1] \in reopened
  BY <1>1 DEF RowInOrder
<1>5. \A u \in DOMAIN w.checkIns : w.issuedAt > 0
  BY <1>1 DEF RowInOrder
<1>6. (w.payment = "APPROVED" <=> w.status = "COMPLETED")
  BY <1>3
<1> QED
  BY <1>2, <1>4, <1>5, <1>6 DEF r, w

\* Trials and successes of a step, of the lines of a segment.
StepOf(inside, i) ==
  [trials |-> Cardinality({k \in inside : LineRecord(k)[Steps[i][1]]}),
   successes |-> Cardinality({k \in inside : LineRecord(k)[Steps[i][2]]})]
LineSegment(k, size) == SegmentOf(k, LineRecord(k), size)
InSegment(g) == {k \in Lines : LineSegment(k, g.size) = g}

\* The segments of the funnel, by the lines in them.
LEMMA SegmentsAre ==
  ASSUME HistoryInv
  PROVE  LET segments == FunnelSegments(Everything)
         IN /\ DOMAIN segments = {LineSegment(k, size) : k \in Lines, size \in Sizes}
            /\ \A g \in DOMAIN segments : \A i \in 1 .. 4 :
                 segments[g][i] = StepOf(InSegment(g), i)
<1> DEFINE records == FunnelRecords(Everything)
           accepted == {k \in DOMAIN records : records[k].accepted}
           segments == FunnelSegments(Everything)
           inside(g) == {k \in accepted : SegmentOf(k, records[k], g.size) = g}
<1>1. segments =
        [g \in {SegmentOf(k, records[k], size) : k \in accepted, size \in Sizes} |->
           [i \in DOMAIN Steps |->
             [trials |-> Cardinality({k \in inside(g) : records[k][Steps[i][1]]}),
              successes |-> Cardinality({k \in inside(g) : records[k][Steps[i][2]]})]]]
  BY DEF FunnelSegments
<1>2. DOMAIN records = Lines /\ \A k \in Lines : records[k] = LineRecord(k)
  BY FunnelIs
<1> HIDE DEF records
<1>3. accepted = Lines
  BY <1>2, StagesFollow
<1> HIDE DEF accepted, segments
<1>4. {SegmentOf(k, records[k], size) : k \in accepted, size \in Sizes} =
        {LineSegment(k, size) : k \in Lines, size \in Sizes}
  BY <1>2, <1>3 DEF LineSegment
<1>5. \A g : inside(g) = InSegment(g)
  BY <1>2, <1>3 DEF InSegment, LineSegment
<1>6. \A g : \A x : {k \in inside(g) : records[k][x]} = {k \in InSegment(g) : LineRecord(k)[x]}
  <2> SUFFICES ASSUME NEW g, NEW x
               PROVE  {k \in inside(g) : records[k][x]} = {k \in InSegment(g) : LineRecord(k)[x]}
    OBVIOUS
  <2>1. \A k \in InSegment(g) : k \in Lines
    BY DEF InSegment
  <2> HIDE DEF inside
  <2> QED
    BY <1>2, <1>5, <2>1
<1>7. DOMAIN Steps = 1 .. 4
  BY DEF Steps
<1> HIDE DEF inside
<1>8. DOMAIN segments = {LineSegment(k, size) : k \in Lines, size \in Sizes}
  BY <1>1, <1>4
<1>9. ASSUME NEW g \in DOMAIN segments, NEW i \in 1 .. 4
      PROVE  segments[g][i] = StepOf(InSegment(g), i)
  <2>1. segments[g][i] =
             [trials |-> Cardinality({k \in inside(g) : records[k][Steps[i][1]]}),
              successes |-> Cardinality({k \in inside(g) : records[k][Steps[i][2]]})]
    BY <1>1, <1>7
  <2> QED
    BY <1>6, <2>1 DEF StepOf
<1> QED
  BY <1>8, <1>9 DEF segments

\* Sum of the trials of segments.
LEMMA TrialsAreSums ==
  ASSUME NEW W, IsFiniteSet(W), NEW segments, \A g \in W : segments[g][1].trials \in Int
  PROVE  Sum(W, LAMBDA g : segments[g][1].trials) = SumF(W, [g \in W |-> segments[g][1].trials])
<1> DEFINE f == [g \in W |-> segments[g][1].trials]
           R(g) == [s \in SUBSET W |->
                      IF s = {} THEN 0 ELSE segments[Chosen(s)][1].trials + g[s \ {Chosen(s)}]]
           h == CHOOSE g : g = R(g)
<1>1. \A x \in W : f[x] \in Int
  OBVIOUS
<1>2. \A g : R(g) = FoldOf(g, W, f)
  BY <1>1, ChosenFold DEF FoldOf
<1> HIDE DEF f
<1>3. h = R(h)
  <2>1. \E g : g = R(g)
    <3> HIDE DEF R
    <3> QED
      BY <1>1, <1>2, ChosenFold
  <2> QED
    BY <2>1
<1>4. Sum(W, LAMBDA g : segments[g][1].trials) = h[W]
  BY DEF Sum, MapThenSumSet, MapThenFoldSet, Chosen
<1> HIDE DEF h, R
<1>5. h[W] = SumF(W, f)
  BY <1>1, <1>2, <1>3, ChosenFold
<1> QED
  BY <1>4, <1>5 DEF f

\* No stage has more lines than the one before.
LEMMA SegmentCascades ==
  ASSUME HistoryInv, NEW g, NEW i \in 1 .. 4,
         \A s \in reopened : sales[s].issuedAt > 0 => g.ticket \notin Line(s)
  PROVE  StepOf(InSegment(g), i).successes <= StepOf(InSegment(g), i).trials
<1> DEFINE A == {k \in InSegment(g) : LineRecord(k)[Steps[i][1]]}
           B == {k \in InSegment(g) : LineRecord(k)[Steps[i][2]]}
<1>1. ASSUME NEW k \in InSegment(g) PROVE LineRecord(k)[Steps[i][2]] => LineRecord(k)[Steps[i][1]]
  <2> DEFINE r == LineRecord(k)
  <2>1. k \in Lines /\ g.ticket = k[2]
    BY DEF InSegment, LineSegment, SegmentOf
  <2>2. k[1] \in reopened => ~(sales[k[1]].issuedAt > 0)
    BY <2>1, LineParts
  <2>3. r.accepted = TRUE /\ (r.paid => r.pending) /\ (r.issued => r.paid) /\ (r.checkedIn => r.issued)
    BY <2>1, <2>2, StagesFollow
  <2> HIDE DEF r
  <2>4. CASE i = 1
    BY <2>3, <2>4 DEF Steps, r
  <2>5. CASE i = 2
    BY <2>3, <2>5 DEF Steps, r
  <2>6. CASE i = 3
    BY <2>3, <2>6 DEF Steps, r
  <2>7. CASE i = 4
    BY <2>3, <2>7 DEF Steps, r
  <2> QED
    BY <2>4, <2>5, <2>6, <2>7
<1>2. B \in SUBSET A
  BY <1>1
<1>3. A \in SUBSET Lines
  BY DEF InSegment
<1>4. StepOf(InSegment(g), i).successes = Cardinality(B) /\ StepOf(InSegment(g), i).trials = Cardinality(A)
  BY DEF StepOf
<1> HIDE DEF A, B
<1>5. Cardinality(B) <= Cardinality(A)
  BY <1>2, <1>3, LinesFinite, FS_Subset
<1> QED
  BY <1>4, <1>5

\* The segments of a size count every line once.
LEMMA SegmentsCountLines ==
  ASSUME HistoryInv, NEW size \in Sizes
  PROVE  LET segments == FunnelSegments(Everything)
         IN Sum({g \in DOMAIN segments : g.size = size}, LAMBDA g : segments[g][1].trials)
              = Cardinality(Lines)
<1> DEFINE segments == FunnelSegments(Everything)
           W == {g \in DOMAIN segments : g.size = size}
           E == [g \in W |-> InSegment(g)]
           t == [g \in W |-> segments[g][1].trials]
<1>1. /\ DOMAIN segments = {LineSegment(k, x) : k \in Lines, x \in Sizes}
      /\ \A g \in DOMAIN segments : \A i \in 1 .. 4 : segments[g][i] = StepOf(InSegment(g), i)
  BY SegmentsAre
<1> HIDE DEF segments
<1>2. \A k : \A x : LineSegment(k, x).size = x
  BY DEF LineSegment, SegmentOf
<1>3. W = {LineSegment(k, size) : k \in Lines}
  BY <1>1, <1>2
<1>4. IsFiniteSet(W)
  <2> DEFINE f == [k \in Lines |-> LineSegment(k, size)]
  <2>1. f \in Surjection(Lines, W)
    BY <1>3 DEF Surjection
  <2> HIDE DEF f, W
  <2> QED
    BY <2>1, LinesFinite, FS_Surjection
<1>5. \A g \in W : t[g] = Cardinality(E[g]) /\ IsFiniteSet(E[g])
  <2> SUFFICES ASSUME NEW g \in W PROVE t[g] = Cardinality(E[g]) /\ IsFiniteSet(E[g])
    OBVIOUS
  <2>1. segments[g][1] = StepOf(InSegment(g), 1)
    BY <1>1
  <2>2. Steps[1][1] = "accepted"
    BY DEF Steps
  <2>3. \A k \in InSegment(g) : k \in Lines /\ LineRecord(k)["accepted"] = TRUE
    BY StagesFollow DEF InSegment
  <2>4. {k \in InSegment(g) : LineRecord(k)[Steps[1][1]]} = InSegment(g)
    BY <2>2, <2>3
  <2>5. segments[g][1].trials = Cardinality(InSegment(g))
    BY <2>1, <2>4 DEF StepOf
  <2>6. IsFiniteSet(InSegment(g))
    BY LinesFinite, FS_Subset DEF InSegment
  <2> QED
    BY <2>5, <2>6
<1>6. \A v \in W : \A g \in W : v # g => E[v] \cap E[g] = {}
  BY DEF InSegment
<1>7. Lines = UNION {E[g] : g \in W}
  <2>1. \A k \in Lines : \E g \in W : k \in E[g]
    BY <1>2, <1>3 DEF InSegment
  <2>2. \A g \in W : \A k \in E[g] : k \in Lines
    BY DEF InSegment
  <2> HIDE DEF E, W
  <2> QED
    BY <2>1, <2>2
<1>8. \A g \in W : segments[g][1].trials \in Int
  <2>1. \A g \in W : t[g] \in Nat
    <3> HIDE DEF E, t, W
    <3> QED
      BY <1>5, FS_CardinalityType
  <2>2. \A g \in W : t[g] = segments[g][1].trials
    OBVIOUS
  <2> HIDE DEF E, t, W
  <2>3. \A g \in W : segments[g][1].trials \in Nat
    BY <2>1, <2>2
  <2> QED
    BY <2>3
<1>9. SumF(W, t) = Cardinality(Lines)
  <2> HIDE DEF E, t, W
  <2> QED
    BY <1>4, <1>5, <1>6, <1>7, LinesFinite, SumCardinalities
<1> HIDE DEF W
<1>10. Sum(W, LAMBDA g : segments[g][1].trials) = SumF(W, t)
  BY <1>4, <1>8, TrialsAreSums
<1> QED
  BY <1>9, <1>10 DEF W, segments

\* Which is the property.
LEMMA InvGivesCascades == HistoryInv => FunnelCascades
<1> SUFFICES ASSUME HistoryInv PROVE FunnelCascades
  OBVIOUS
<1> DEFINE segments == FunnelSegments(Everything)
<1>1. DOMAIN Steps = 1 .. 4
  BY DEF Steps
<1>2. \A g \in DOMAIN segments : \A i \in 1 .. 4 : segments[g][i] = StepOf(InSegment(g), i)
  BY SegmentsAre
<1>3. \A size \in Sizes :
        Sum({g \in DOMAIN segments : g.size = size}, LAMBDA g : segments[g][1].trials)
          = Cardinality(Lines)
  BY SegmentsCountLines
<1>4. ASSUME NEW g \in DOMAIN segments, NEW i \in 1 .. 4
      PROVE  \/ segments[g][i].successes <= segments[g][i].trials
             \/ \E s \in reopened : sales[s].issuedAt > 0 /\ g.ticket \in Line(s)
  <2> SUFFICES ASSUME \A s \in reopened : sales[s].issuedAt > 0 => g.ticket \notin Line(s)
               PROVE  segments[g][i].successes <= segments[g][i].trials
    OBVIOUS
  <2>1. segments[g][i] = StepOf(InSegment(g), i)
    BY <1>2
  <2> HIDE DEF segments
  <2> QED
    BY <2>1, SegmentCascades
<1> HIDE DEF segments
<1> QED
  BY <1>1, <1>3, <1>4 DEF FunnelCascades, Lines, segments

\* No stage of the funnel has more successes than trials, unless a sale with
\* tickets was reset; and the segments of each window size count every line
\* once.
THEOREM CascadesSound == HistorySpec => []FunnelCascades
BY HistoryInvariant, InvGivesCascades, PTL

\* The sales of the history are those of the tables.
LEMMA EverythingIs ==
  ASSUME HistoryInv
  PROVE  /\ EventsOf(Everything) = AllEvents
         /\ {e.sale : e \in AllEvents} = DOMAIN sales
         /\ Distinct(Everything) /\ Ordered(Everything)
<1>1. Keyed(AllEvents)
  BY EventsKeyed
<1>2. LET n == Cardinality(AllEvents)
      IN /\ n \in Nat /\ Everything \in [1 .. n -> AllEvents] /\ Len(Everything) = n
         /\ \A e \in AllEvents : \E i \in 1 .. n : Everything[i] = e
         /\ \A i \in 1 .. n : \A j \in 1 .. n : i < j => Earlier(Everything[i], Everything[j])
  BY <1>1, SortedEnumerates DEF Everything
<1>3. EventsOf(Everything) = AllEvents
  BY <1>2 DEF EventsOf
<1>4. Distinct(Everything)
  <2> DEFINE n == Cardinality(AllEvents)
  <2>1. \A i \in 1 .. n : \A j \in 1 .. n : i # j => Everything[i] # Everything[j]
    <3> SUFFICES ASSUME NEW i \in 1 .. n, NEW j \in 1 .. n, i # j, Everything[i] = Everything[j]
                 PROVE  FALSE
      OBVIOUS
    <3>1. i < j \/ j < i
      BY <1>2
    <3>2. Earlier(Everything[i], Everything[i])
      BY <1>2, <3>1
    <3>3. Everything[i] \in AllEvents
      BY <1>2
    <3> QED
      BY <1>1, <3>2, <3>3, EarlierIrreflexive
  <2> HIDE DEF n
  <2> QED
    BY <1>2, <2>1 DEF Distinct, n
<1>5. {e.sale : e \in AllEvents} = DOMAIN sales
  <2>1. ASSUME NEW e \in AllEvents PROVE e.sale \in DOMAIN sales
    <3>1. PICK s \in DOMAIN sales : e \in SaleEvents(s)
      BY DEF AllEvents
    <3>2. e.sale = s
      BY <3>1, EventDetermined DEF Determined
    <3> QED
      BY <3>2
  <2>2. ASSUME NEW s \in DOMAIN sales PROVE \E e \in AllEvents : e.sale = s
    <3>1. SaleCreated(s) \in AllEvents
      BY EventKinds DEF AllEvents
    <3>2. SaleCreated(s).sale = s
      BY SaleCreatedParts
    <3> QED
      BY <3>1, <3>2
  <2> QED
    BY <2>1, <2>2
<1>6. Ordered(Everything)
  <2>1. \A i \in DOMAIN Everything : Everything[i] \in AllEvents
    BY <1>3 DEF EventsOf
  <2>2. IsFiniteSet(DOMAIN Everything)
    BY <1>4, FS_Interval DEF Distinct
  <2>3. Timed(Everything)
    BY <2>1, <2>2, EventsKeyed DEF Timed
  <2>4. \A e \in Items(Everything) : e.quantity \in Nat /\ e.quantity > 0
    BY <1>3, EventsKeyed DEF Items
  <2> QED
    BY <2>3, <2>4 DEF Ordered
<1> QED
  BY <1>3, <1>4, <1>5, <1>6

-----------------------------------------------------------------------------
(* The export and the summary: their sums.                                 *)

\* The sums of the summary and of the export, as SumF.
LEMMA TicketSum ==
  ASSUME NEW T, IsFiniteSet(T), NEW items, \A t \in T : items[t] \in Int
  PROVE  SumOver(T, LAMBDA t : items[t]) = SumF(T, [t \in T |-> items[t]])
<1> DEFINE f == [t \in T |-> items[t]]
           R(g) == [s \in SUBSET T |->
                      IF s = {} THEN 0 ELSE items[Chosen(s)] + g[s \ {Chosen(s)}]]
           h == CHOOSE g : g = R(g)
<1>1. \A x \in T : f[x] \in Int
  OBVIOUS
<1>2. \A g : R(g) = FoldOf(g, T, f)
  BY <1>1, ChosenFold DEF FoldOf
<1> HIDE DEF f
<1>3. h = R(h)
  <2>1. \E g : g = R(g)
    <3> HIDE DEF R
    <3> QED
      BY <1>1, <1>2, ChosenFold
  <2> QED
    BY <2>1
<1>4. SumOver(T, LAMBDA t : items[t]) = h[T]
  BY DEF SumOver, MapThenSumSet, MapThenFoldSet, Chosen
<1> HIDE DEF h, R
<1>5. h[T] = SumF(T, f)
  BY <1>1, <1>2, <1>3, ChosenFold
<1> QED
  BY <1>4, <1>5 DEF f

LEMMA ItemTotalSum ==
  ASSUME NEW S, IsFiniteSet(S), \A q \in S : ItemTotal(q) \in Int
  PROVE  SumOver(S, ItemTotal) = SumF(S, [q \in S |-> ItemTotal(q)])
<1> DEFINE f == [q \in S |-> ItemTotal(q)]
           R(g) == [s \in SUBSET S |->
                      IF s = {} THEN 0 ELSE ItemTotal(Chosen(s)) + g[s \ {Chosen(s)}]]
           h == CHOOSE g : g = R(g)
<1>1. \A x \in S : f[x] \in Int
  OBVIOUS
<1>2. \A g : R(g) = FoldOf(g, S, f)
  BY <1>1, ChosenFold DEF FoldOf
<1> HIDE DEF f
<1>3. h = R(h)
  <2>1. \E g : g = R(g)
    <3> HIDE DEF R
    <3> QED
      BY <1>1, <1>2, ChosenFold
  <2> QED
    BY <2>1
<1>4. SumOver(S, ItemTotal) = h[S]
  BY DEF SumOver, MapThenSumSet, MapThenFoldSet, Chosen
<1> HIDE DEF h, R
<1>5. h[S] = SumF(S, f)
  BY <1>1, <1>2, <1>3, ChosenFold
<1> QED
  BY <1>4, <1>5 DEF f

LEMMA DemandSum ==
  ASSUME NEW events, NEW S, IsFiniteSet(S), \A q \in S : Demand(events, q) \in Int
  PROVE  Sum(S, LAMBDA q : Demand(events, q)) = SumF(S, [q \in S |-> Demand(events, q)])
<1> DEFINE f == [q \in S |-> Demand(events, q)]
           R(g) == [s \in SUBSET S |->
                      IF s = {} THEN 0 ELSE Demand(events, Chosen(s)) + g[s \ {Chosen(s)}]]
           h == CHOOSE g : g = R(g)
<1>1. \A x \in S : f[x] \in Int
  OBVIOUS
<1>2. \A g : R(g) = FoldOf(g, S, f)
  BY <1>1, ChosenFold DEF FoldOf
<1> HIDE DEF f
<1>3. h = R(h)
  <2>1. \E g : g = R(g)
    <3> HIDE DEF R
    <3> QED
      BY <1>1, <1>2, ChosenFold
  <2> QED
    BY <2>1
<1>4. Sum(S, LAMBDA q : Demand(events, q)) = h[S]
  BY DEF Sum, MapThenSumSet, MapThenFoldSet, Chosen
<1> HIDE DEF h, R
<1>5. h[S] = SumF(S, f)
  BY <1>1, <1>2, <1>3, ChosenFold
<1> QED
  BY <1>4, <1>5 DEF f

LEMMA LineSum ==
  ASSUME NEW S, IsFiniteSet(S), \A q \in S : Cardinality(Line(q)) \in Int
  PROVE  Sum(S, LAMBDA q : Cardinality(Line(q))) = SumF(S, [q \in S |-> Cardinality(Line(q))])
<1> DEFINE f == [q \in S |-> Cardinality(Line(q))]
           R(g) == [s \in SUBSET S |->
                      IF s = {} THEN 0 ELSE Cardinality(Line(Chosen(s))) + g[s \ {Chosen(s)}]]
           h == CHOOSE g : g = R(g)
<1>1. \A x \in S : f[x] \in Int
  OBVIOUS
<1>2. \A g : R(g) = FoldOf(g, S, f)
  BY <1>1, ChosenFold DEF FoldOf
<1> HIDE DEF f
<1>3. h = R(h)
  <2>1. \E g : g = R(g)
    <3> HIDE DEF R
    <3> QED
      BY <1>1, <1>2, ChosenFold
  <2> QED
    BY <2>1
<1>4. Sum(S, LAMBDA q : Cardinality(Line(q))) = h[S]
  BY DEF Sum, MapThenSumSet, MapThenFoldSet, Chosen
<1> HIDE DEF h, R
<1>5. h[S] = SumF(S, f)
  BY <1>1, <1>2, <1>3, ChosenFold
<1> QED
  BY <1>4, <1>5 DEF f

LEMMA SuccessesAreSums ==
  ASSUME NEW W, IsFiniteSet(W), NEW segments,
         \A g \in W : segments[g][2].successes \in Int
  PROVE  Sum(W, LAMBDA g : segments[g][2].successes) = SumF(W, [g \in W |-> segments[g][2].successes])
<1> DEFINE f == [g \in W |-> segments[g][2].successes]
           R(g) == [s \in SUBSET W |->
                      IF s = {} THEN 0 ELSE segments[Chosen(s)][2].successes + g[s \ {Chosen(s)}]]
           h == CHOOSE g : g = R(g)
<1>1. \A x \in W : f[x] \in Int
  OBVIOUS
<1>2. \A g : R(g) = FoldOf(g, W, f)
  BY <1>1, ChosenFold DEF FoldOf
<1> HIDE DEF f
<1>3. h = R(h)
  <2>1. \E g : g = R(g)
    <3> HIDE DEF R
    <3> QED
      BY <1>1, <1>2, ChosenFold
  <2> QED
    BY <2>1
<1>4. Sum(W, LAMBDA g : segments[g][2].successes) = h[W]
  BY DEF Sum, MapThenSumSet, MapThenFoldSet, Chosen
<1> HIDE DEF h, R
<1>5. h[W] = SumF(W, f)
  BY <1>1, <1>2, <1>3, ChosenFold
<1> QED
  BY <1>4, <1>5 DEF f

LEMMA CheckInsAreSums ==
  ASSUME NEW W, IsFiniteSet(W), NEW windows, \A w \in W : windows[w].checkIns \in Int
  PROVE  Sum(W, LAMBDA w : windows[w].checkIns) = SumF(W, [w \in W |-> windows[w].checkIns])
<1> DEFINE f == [w \in W |-> windows[w].checkIns]
           R(g) == [s \in SUBSET W |->
                      IF s = {} THEN 0 ELSE windows[Chosen(s)].checkIns + g[s \ {Chosen(s)}]]
           h == CHOOSE g : g = R(g)
<1>1. \A x \in W : f[x] \in Int
  OBVIOUS
<1>2. \A g : R(g) = FoldOf(g, W, f)
  BY <1>1, ChosenFold DEF FoldOf
<1> HIDE DEF f
<1>3. h = R(h)
  <2>1. \E g : g = R(g)
    <3> HIDE DEF R
    <3> QED
      BY <1>1, <1>2, ChosenFold
  <2> QED
    BY <2>1
<1>4. Sum(W, LAMBDA w : windows[w].checkIns) = h[W]
  BY DEF Sum, MapThenSumSet, MapThenFoldSet, Chosen
<1> HIDE DEF h, R
<1>5. h[W] = SumF(W, f)
  BY <1>1, <1>2, <1>3, ChosenFold
<1> QED
  BY <1>4, <1>5 DEF f

LEMMA CheckedInSum ==
  ASSUME NEW S, IsFiniteSet(S), \A q \in S : Cardinality(DOMAIN sales[q].checkIns) \in Int
  PROVE  SumOver(S, LAMBDA q : Cardinality(DOMAIN sales[q].checkIns)) = SumF(S, [q \in S |-> Cardinality(DOMAIN sales[q].checkIns)])
<1> DEFINE f == [q \in S |-> Cardinality(DOMAIN sales[q].checkIns)]
           R(g) == [s \in SUBSET S |->
                      IF s = {} THEN 0 ELSE Cardinality(DOMAIN sales[Chosen(s)].checkIns) + g[s \ {Chosen(s)}]]
           h == CHOOSE g : g = R(g)
<1>1. \A x \in S : f[x] \in Int
  OBVIOUS
<1>2. \A g : R(g) = FoldOf(g, S, f)
  BY <1>1, ChosenFold DEF FoldOf
<1> HIDE DEF f
<1>3. h = R(h)
  <2>1. \E g : g = R(g)
    <3> HIDE DEF R
    <3> QED
      BY <1>1, <1>2, ChosenFold
  <2> QED
    BY <2>1
<1>4. SumOver(S, LAMBDA q : Cardinality(DOMAIN sales[q].checkIns)) = h[S]
  BY DEF SumOver, MapThenSumSet, MapThenFoldSet, Chosen
<1> HIDE DEF h, R
<1>5. h[S] = SumF(S, f)
  BY <1>1, <1>2, <1>3, ChosenFold
<1> QED
  BY <1>4, <1>5 DEF f

-----------------------------------------------------------------------------
(* The export and the summary: the sample of the priors.                   *)

SalesCompleted == {s \in DOMAIN sales : sales[s].status = "COMPLETED"}

\* A sale is completed in the events if it is in its row.
LEMMA CompletedIs ==
  ASSUME HistoryInv, NEW s \in DOMAIN sales
  PROVE  Completed(Everything, s) <=> sales[s].status = "COMPLETED"
<1> DEFINE r == sales[s]
<1>1. EventsOf(Everything) = AllEvents
  BY EverythingIs
<1>2. <<r.status, r.payment>> \in {<<"PENDING_PAYMENT", "PENDING">>,
                                   <<"COMPLETED", "APPROVED">>, <<"FAILED", "FAILED">>}
  BY RowOf DEF RowInOrder
<1>3. r.payment = "APPROVED" => r.status = "COMPLETED"
  <2> HIDE DEF r
  <2> QED
    BY <1>2
<1>4. ASSUME r.status = "COMPLETED" PROVE Completed(Everything, s)
  <2> DEFINE e == SaleCreated(s)
  <2>1. e \in AllEvents
    BY EventKinds DEF AllEvents
  <2>2. e.sale = s /\ e.type = "sale.created" /\ e.status = "COMPLETED"
    BY <1>4, SaleCreatedParts
  <2> HIDE DEF e
  <2> QED
    BY <1>1, <2>1, <2>2 DEF Completed
<1>5. ASSUME NEW e \in AllEvents, e.sale = s,
             \/ e.type = "sale.created" /\ e.status = "COMPLETED"
             \/ e.type = "payment.processed" /\ e.status = "APPROVED"
      PROVE  r.status = "COMPLETED"
  <2>1. PICK q \in DOMAIN sales : e \in SaleEvents(q)
    BY DEF AllEvents
  <2>2. Determined(e, q) /\ q = s
    BY <1>5, <2>1, EventDetermined DEF Determined
  <2>3. CASE e.type = "sale.created"
    <3>1. e = SaleCreated(s) /\ e.status = "COMPLETED"
      BY <1>5, <2>2, <2>3 DEF Determined
    <3> QED
      BY <3>1, SaleCreatedParts
  <2>4. CASE e.type = "payment.processed"
    <3>1. e = Payment(s) /\ e.status = "APPROVED"
      BY <1>5, <2>2, <2>4 DEF Determined
    <3> QED
      BY <1>3, <3>1, PaymentParts
  <2> QED
    BY <1>5, <2>3, <2>4
<1> QED
  BY <1>1, <1>4, <1>5 DEF Completed

\* What the events say that a sale orders is what its row says.
LEMMA DemandIs ==
  ASSUME HistoryInv, NEW s \in DOMAIN sales
  PROVE  Demand(Everything, s) = ItemTotal(s) /\ ItemTotal(s) \in Nat
<1> DEFINE items == sales[s].items
           I == {e \in Items(Everything) : e.sale = s}
           L == Line(s)
           b == [t \in L |-> ItemCreated(s, t)]
           q == [e \in I |-> e.quantity]
           f == [t \in Ticket |-> items[t]]
<1>1. items \in [Ticket -> Nat]
  BY RowOf, Zenon DEF RowType
<1>2. IsFiniteSet(Ticket) /\ L \in SUBSET Ticket /\ IsFiniteSet(L)
  BY UnitsOf, HistoryAssumption
<1>3. \A e : e \in I <=> (e \in AllEvents /\ e.type = "sale.item.created" /\ e.sale = s)
  BY EverythingIs DEF Items
<1>4. I = {b[t] : t \in L}
  <2>1. ASSUME NEW t \in L PROVE b[t] \in I
    <3> DEFINE e == ItemCreated(s, t)
    <3>1. e \in AllEvents
      BY EventKinds DEF AllEvents
    <3>2. e.type = "sale.item.created" /\ e.sale = s
      BY ItemParts
    <3> HIDE DEF I
    <3> QED
      BY <1>3, <3>1, <3>2
  <2>2. ASSUME NEW e \in I PROVE \E t \in L : e = b[t]
    <3>1. PICK x \in DOMAIN sales : e \in SaleEvents(x)
      BY <1>3 DEF AllEvents
    <3>2. Determined(e, x)
      BY <3>1, EventDetermined
    <3>3. x = s /\ e.type = "sale.item.created"
      BY <1>3, <3>2 DEF Determined
    <3>4. e.ticket \in L /\ e = ItemCreated(s, e.ticket)
      BY <3>2, <3>3 DEF Determined
    <3> HIDE DEF L
    <3> QED
      BY <3>4
  <2> HIDE DEF I, b, L
  <2> QED
    BY <2>1, <2>2
<1>5. \A t \in L : b[t].ticket = t /\ b[t].quantity = items[t]
  BY ItemParts
<1>6. \A t \in L : \A u \in L : t # u => b[t] # b[u]
  <2> HIDE DEF b, L
  <2> QED
    BY <1>5
<1>7. IsFiniteSet(I)
  <2>1. DOMAIN b = L
    OBVIOUS
  <2> HIDE DEF b, I
  <2> QED
    BY <1>2, <1>4, <2>1, FiniteRange
<1>8. \A e \in I : e.quantity \in Nat /\ e.quantity > 0
  BY <1>3, EventsKeyed
<1>9. Demand(Everything, s) = SumF(I, q)
  <2>1. Demand(Everything, s) = Sum(I, Quantity)
    BY DEF Demand
  <2> HIDE DEF I
  <2> QED
    BY <1>7, <1>8, <2>1, QuantitySum
<1>10. ItemTotal(s) = SumF(Ticket, f)
  <2>1. \A t \in Ticket : items[t] \in Int
    BY <1>1
  <2>2. ItemTotal(s) = SumOver(Ticket, LAMBDA t : items[t])
    BY DEF ItemTotal
  <2> HIDE DEF items
  <2> QED
    BY <1>2, <2>1, <2>2, TicketSum
<1>11. \A t \in Ticket : f[t] \in Nat /\ f[t] = items[t]
  BY <1>1
<1>12. SumF(L, f) = SumF(I, q)
  <2>1. \A x \in I : q[x] \in Int
    BY <1>8
  <2>2. \A t \in L : f[t] = q[b[t]]
    BY <1>2, <1>4, <1>5, <1>11
  <2> HIDE DEF b, q, I, L, f
  <2> QED
    BY <1>2, <1>4, <1>6, <2>1, <2>2, SumReindex
<1>13. SumF(Ticket, f) = SumF(L, f)
  <2> DEFINE R == Ticket \ L
  <2>1. R \in SUBSET Ticket /\ L \cap R = {} /\ L \cup R = Ticket
    BY <1>2
  <2>2. IsFiniteSet(R)
    BY <1>2, <2>1, FS_Subset
  <2>3. \A t \in R : f[t] = 0
    <3>1. \A t \in R : t \in Ticket /\ ~(items[t] > 0)
      BY DEF Line
    <3> HIDE DEF f, R, items
    <3> QED
      BY <1>11, <3>1
  <2>4. SumF(R, f) = 0
    <3> HIDE DEF f, R
    <3> QED
      BY <2>2, <2>3, SumZero
  <2>5. \A t \in L \cup R : f[t] \in Int
    BY <1>11, <2>1
  <2> HIDE DEF f, R, L
  <2>6. SumF(L \cup R, f) = SumF(L, f) + SumF(R, f)
    BY <1>2, <2>1, <2>2, <2>5, SumUnion
  <2>7. SumF(L, f) \in Int
    <3>1. \A t \in L : f[t] \in Int
      BY <1>2, <1>11
    <3> QED
      BY <1>2, <3>1, SumRemove
  <2> DEFINE whole == SumF(L \cup R, f)
             part == SumF(L, f)
             rest == SumF(R, f)
  <2>8. whole = part
    <3>1. whole = part + rest /\ part \in Int /\ rest = 0
      BY <2>4, <2>6, <2>7
    <3> HIDE DEF whole, part, rest
    <3> QED
      BY <3>1
  <2> QED
    BY <2>1, <2>8
<1>14. SumF(Ticket, f) \in Nat
  <2> HIDE DEF f
  <2> QED
    BY <1>2, <1>11, SumAtLeast
<1> HIDE DEF f, q, I, L
<1> QED
  BY <1>9, <1>10, <1>12, <1>13, <1>14

\* The sample of the priors, sale by sale.
LEMMA SampleIs ==
  ASSUME HistoryInv
  PROVE  LET sample == SampleSize(Everything)
         IN /\ sample.saleCount = Cardinality(DOMAIN sales)
            /\ sample.completedSaleCount = Cardinality(SalesCompleted)
            /\ sample.totalItems = SumF(DOMAIN sales, [s \in DOMAIN sales |-> ItemTotal(s)])
            /\ sample.completedItems = SumF(SalesCompleted, [s \in SalesCompleted |-> ItemTotal(s)])
            /\ sample.demands =
                 [s \in {c \in SalesCompleted : ItemTotal(c) > 0} |-> ItemTotal(s)]
<1> DEFINE saleIds == {e.sale : e \in EventsOf(Everything)}
           completed == {s \in saleIds : Completed(Everything, s)}
           sample == SampleSize(Everything)
<1>1. saleIds = DOMAIN sales
  BY EverythingIs
<1>2. completed = SalesCompleted
  BY <1>1, CompletedIs DEF SalesCompleted
<1>3. sample =
        [saleCount |-> Cardinality(saleIds),
         completedSaleCount |-> Cardinality(completed),
         cancelledSaleCount |-> Cardinality(saleIds) - Cardinality(completed),
         totalItems |-> Sum(saleIds, LAMBDA s : Demand(Everything, s)),
         completedItems |-> Sum(completed, LAMBDA s : Demand(Everything, s)),
         demands |-> [s \in {c \in completed : Demand(Everything, c) > 0} |-> Demand(Everything, s)]]
  BY DEF SampleSize
<1> HIDE DEF saleIds, completed, sample
<1>4. IsFiniteSet(DOMAIN sales) /\ SalesCompleted \in SUBSET DOMAIN sales /\ IsFiniteSet(SalesCompleted)
  <2>1. IsFiniteSet(DOMAIN sales)
    BY InvByRows DEF Common
  <2>2. SalesCompleted \in SUBSET DOMAIN sales
    BY DEF SalesCompleted
  <2> QED
    BY <2>1, <2>2, FS_Subset
<1>5. ASSUME NEW S \in SUBSET DOMAIN sales, IsFiniteSet(S)
      PROVE  Sum(S, LAMBDA s : Demand(Everything, s)) = SumF(S, [s \in S |-> ItemTotal(s)])
  <2>1. \A s \in S : Demand(Everything, s) = ItemTotal(s) /\ Demand(Everything, s) \in Int
    BY DemandIs
  <2>2. Sum(S, LAMBDA s : Demand(Everything, s)) = SumF(S, [s \in S |-> Demand(Everything, s)])
    BY <1>5, <2>1, DemandSum
  <2>3. [s \in S |-> Demand(Everything, s)] = [s \in S |-> ItemTotal(s)]
    BY <2>1
  <2> QED
    BY <2>2, <2>3
<1>6. [s \in {c \in completed : Demand(Everything, c) > 0} |-> Demand(Everything, s)] =
        [s \in {c \in SalesCompleted : ItemTotal(c) > 0} |-> ItemTotal(s)]
  <2>1. \A c \in SalesCompleted : Demand(Everything, c) = ItemTotal(c)
    BY <1>4, DemandIs
  <2>2. {c \in completed : Demand(Everything, c) > 0} = {c \in SalesCompleted : ItemTotal(c) > 0}
    BY <1>2, <2>1
  <2> QED
    BY <2>1, <2>2
<1>7. /\ sample.saleCount = Cardinality(saleIds)
      /\ sample.completedSaleCount = Cardinality(completed)
      /\ sample.totalItems = Sum(saleIds, LAMBDA s : Demand(Everything, s))
      /\ sample.completedItems = Sum(completed, LAMBDA s : Demand(Everything, s))
      /\ sample.demands =
           [s \in {c \in completed : Demand(Everything, c) > 0} |-> Demand(Everything, s)]
  BY <1>3
<1>8. sample.totalItems = SumF(DOMAIN sales, [s \in DOMAIN sales |-> ItemTotal(s)])
  BY <1>1, <1>4, <1>5, <1>7
<1>9. sample.completedItems = SumF(SalesCompleted, [s \in SalesCompleted |-> ItemTotal(s)])
  BY <1>2, <1>4, <1>5, <1>7
<1> QED
  BY <1>1, <1>2, <1>6, <1>7, <1>8, <1>9 DEF sample

-----------------------------------------------------------------------------
(* The export and the summary: payments and emails.                        *)

\* The earliest of events that happened at all, or 0 for none.
LEMMA EarliestHappened ==
  ASSUME NEW events, Timed(events), NEW E, E \subseteq EventsOf(events), \A e \in E : e.at # 0
  PROVE  MinOrZero({e.at : e \in E}) # 0 <=> E # {}
<1> DEFINE f == [e \in E |-> e.at]
           S == {e.at : e \in E}
<1>1. IsFiniteSet(E)
  BY TimedEvents, FS_Subset
<1>2. f \in Surjection(E, S)
  BY DEF Surjection
<1>3. S \subseteq Int /\ 0 \notin S
  BY TimedEvents
<1>4. S = {} <=> E = {}
  OBVIOUS
<1> HIDE DEF f, S
<1>5. IsFiniteSet(S)
  BY <1>1, <1>2, FS_Surjection
<1>6. S # {} => Min(S) \in S
  BY <1>3, <1>5, LeastInt
<1>7. MinOrZero(S) # 0 <=> E # {}
  BY <1>3, <1>4, <1>6 DEF MinOrZero
<1> QED
  BY <1>7 DEF S

LEMMA EverythingTimed ==
  ASSUME HistoryInv
  PROVE  Timed(Everything)
BY EverythingIs DEF Ordered

\* Every sale was accepted; it was paid if it is completed, and its email went
\* out if the row says so.
LEMMA TimesOfSale ==
  ASSUME HistoryInv, NEW s \in DOMAIN sales
  PROVE  /\ AcceptedAt(Everything, s) # 0
         /\ PaymentAt(Everything, s) # 0 <=> s \in SalesCompleted
         /\ EmailSentAt(Everything, s) # 0 <=> sales[s].sentAt > 0
<1> DEFINE r == sales[s]
           A == {e \in EventsOf(Everything) :
                   e.sale = s /\ e.type \in {"sale.created", "sale.item.created"}}
           P == {e \in EventsOf(Everything) :
                   e.sale = s /\ e.type = "payment.processed" /\ e.status = "APPROVED"}
           M == {e \in EventsOf(Everything) : e.sale = s /\ e.type = "email.sent"}
<1>1. /\ AcceptedAt(Everything, s) = MinOrZero({e.at : e \in A})
      /\ PaymentAt(Everything, s) = MinOrZero({e.at : e \in P})
      /\ EmailSentAt(Everything, s) = MinOrZero({e.at : e \in M})
  BY DEF AcceptedAt, PaymentAt, EmailSentAt, Earliest
<1>2. EventsOf(Everything) = AllEvents /\ Timed(Everything)
  BY EverythingIs, EverythingTimed
<1>3. r.createdAt # 0 /\ r.processedAt # 0 /\ r.itemsAt # 0 /\ r.sentAt \in Nat
  <2>1. /\ r.createdAt \in Int \ {0} /\ r.processedAt \in Int \ {0}
        /\ r.itemsAt \in Nat \ {0} /\ r.sentAt \in Nat
    BY RowOf, Zenon DEF RowType
  <2> HIDE DEF r
  <2> QED
    BY <2>1
<1>4. <<r.status, r.payment>> \in {<<"PENDING_PAYMENT", "PENDING">>,
                                   <<"COMPLETED", "APPROVED">>, <<"FAILED", "FAILED">>}
  BY RowOf DEF RowInOrder
<1>5. r.payment = "APPROVED" <=> s \in SalesCompleted
  <2>1. r.payment = "APPROVED" <=> r.status = "COMPLETED"
    <3> HIDE DEF r
    <3> QED
      BY <1>4
  <2> QED
    BY <2>1 DEF SalesCompleted
<1>6. \A e \in AllEvents : e.sale = s => Determined(e, s)
  <2> SUFFICES ASSUME NEW e \in AllEvents, e.sale = s PROVE Determined(e, s)
    OBVIOUS
  <2>1. PICK q \in DOMAIN sales : e \in SaleEvents(q)
    BY DEF AllEvents
  <2>2. Determined(e, q)
    BY <2>1, EventDetermined
  <2> QED
    BY <2>2 DEF Determined
<1>7. \A e \in A : e.at # 0
  <2> SUFFICES ASSUME NEW e \in A PROVE e.at # 0
    OBVIOUS
  <2>1. Determined(e, s) /\ e.type \in {"sale.created", "sale.item.created"}
    BY <1>2, <1>6
  <2>2. CASE e.type = "sale.created"
    <3>1. e = SaleCreated(s)
      BY <2>1, <2>2 DEF Determined
    <3> QED
      BY <1>3, <3>1, SaleCreatedParts
  <2>3. CASE e.type = "sale.item.created"
    <3>1. e = ItemCreated(s, e.ticket)
      BY <2>1, <2>3 DEF Determined
    <3>2. e.at = r.itemsAt
      BY <3>1, ItemParts
    <3> QED
      BY <1>3, <3>2
  <2> QED
    BY <2>1, <2>2, <2>3
<1>8. A # {}
  <2>1. SaleCreated(s) \in AllEvents
    BY EventKinds DEF AllEvents
  <2>2. SaleCreated(s) \in A
    BY <1>2, <2>1, SaleCreatedParts
  <2> QED
    BY <2>2
<1>9. \A e \in P : e.at # 0 /\ s \in SalesCompleted
  <2> SUFFICES ASSUME NEW e \in P PROVE e.at # 0 /\ s \in SalesCompleted
    OBVIOUS
  <2>1. e = Payment(s) /\ e.status = "APPROVED"
    BY <1>2, <1>6 DEF Determined
  <2> QED
    BY <1>3, <1>5, <2>1, PaymentParts
<1>10. s \in SalesCompleted => P # {}
  <2> SUFFICES ASSUME s \in SalesCompleted PROVE P # {}
    OBVIOUS
  <2>1. Payment(s) \in AllEvents
    BY EventKinds DEF AllEvents
  <2>2. Payment(s) \in P
    BY <1>2, <1>5, <2>1, PaymentParts
  <2> QED
    BY <2>2
<1>11. \A e \in M : e.at # 0 /\ r.sentAt # 0
  <2> SUFFICES ASSUME NEW e \in M PROVE e.at # 0 /\ r.sentAt # 0
    OBVIOUS
  <2>1. e = EmailSent(s) /\ r.sentAt # 0
    BY <1>2, <1>6 DEF Determined
  <2> QED
    BY <2>1, EmailParts
<1>12. r.sentAt # 0 => M # {}
  <2> SUFFICES ASSUME r.sentAt # 0 PROVE M # {}
    OBVIOUS
  <2>1. EmailSent(s) \in AllEvents
    BY EventKinds DEF AllEvents
  <2>2. EmailSent(s) \in M
    BY <1>2, <2>1, EmailParts
  <2> QED
    BY <2>2
<1>13. A \subseteq EventsOf(Everything) /\ P \subseteq EventsOf(Everything)
       /\ M \subseteq EventsOf(Everything)
  OBVIOUS
<1> HIDE DEF A, P, M
<1>14. /\ MinOrZero({e.at : e \in A}) # 0 <=> A # {}
       /\ MinOrZero({e.at : e \in P}) # 0 <=> P # {}
       /\ MinOrZero({e.at : e \in M}) # 0 <=> M # {}
  BY <1>2, <1>7, <1>9, <1>11, <1>13, EarliestHappened
<1>15. r.sentAt # 0 <=> r.sentAt > 0
  <2> DEFINE t == r.sentAt
  <2>1. t \in Nat
    BY <1>3
  <2> HIDE DEF t
  <2>2. t # 0 <=> t > 0
    BY <2>1
  <2> QED
    BY <2>2 DEF t
<1> HIDE DEF r
<1>16. /\ AcceptedAt(Everything, s) # 0
       /\ PaymentAt(Everything, s) # 0 <=> s \in SalesCompleted
       /\ EmailSentAt(Everything, s) # 0 <=> r.sentAt > 0
  BY <1>1, <1>8, <1>9, <1>10, <1>11, <1>12, <1>14, <1>15
<1> QED
  BY <1>16 DEF r

\* The analyses of time_to_payment and time_to_email_sent.
LEMMA EventCountsAre ==
  ASSUME HistoryInv, DOMAIN sales # {}
  PROVE  LET analyses == SurvivalAnalyses(Everything, now)
         IN /\ analyses[1].eventCount = Cardinality(SalesCompleted)
            /\ analyses[2].eventCount = Cardinality({s \in DOMAIN sales : sales[s].sentAt > 0})
<1> DEFINE all == EventsOf(Everything)
           saleIds == {e.sale : e \in all}
           accepted == [s \in saleIds |-> AcceptedAt(Everything, s)]
           paid == [s \in saleIds |-> PaymentAt(Everything, s)]
           sent == [s \in saleIds |-> EmailSentAt(Everything, s)]
           observations == SurvivalObservations(Everything, now)
           o1 == Observations(accepted, paid, now)
           o2 == Observations(accepted, sent, now)
           analyses == SurvivalAnalyses(Everything, now)
<1>1. DOMAIN observations = {1, 2, 3} /\ observations[1] = o1 /\ observations[2] = o2
  <2>1. \E o3 : observations = << o1, o2, o3 >>
    BY DEF SurvivalObservations
  <2> HIDE DEF o1, o2, observations
  <2> QED
    BY <2>1
<1>2. saleIds = DOMAIN sales
  BY EverythingIs
<1>3. /\ DOMAIN accepted = DOMAIN sales
      /\ \A s \in DOMAIN sales : accepted[s] # 0
      /\ \A s \in DOMAIN sales : paid[s] # 0 <=> s \in SalesCompleted
      /\ \A s \in DOMAIN sales : sent[s] # 0 <=> sales[s].sentAt > 0
  BY <1>2, TimesOfSale
<1> HIDE DEF accepted, paid, sent
<1>4. /\ DOMAIN o1 = DOMAIN sales /\ DOMAIN o2 = DOMAIN sales
      /\ \A s \in DOMAIN sales : o1[s].observed <=> s \in SalesCompleted
      /\ \A s \in DOMAIN sales : o2[s].observed <=> sales[s].sentAt > 0
  BY <1>3 DEF Observations
<1> HIDE DEF o1, o2
<1>5. analyses = [i \in {j \in DOMAIN observations : DOMAIN observations[j] # {}} |->
                    Analysis(observations[i])]
  BY DEF SurvivalAnalyses
<1> HIDE DEF observations, analyses
<1>6. analyses[1] = Analysis(o1) /\ analyses[2] = Analysis(o2)
  BY <1>1, <1>4, <1>5
<1>7. \A o : Analysis(o).eventCount = Cardinality({k \in DOMAIN o : o[k].observed})
  BY DEF Analysis
<1>8. {k \in DOMAIN o1 : o1[k].observed} = SalesCompleted
  BY <1>4 DEF SalesCompleted
<1>9. {k \in DOMAIN o2 : o2[k].observed} = {s \in DOMAIN sales : sales[s].sentAt > 0}
  BY <1>4
<1>10. /\ analyses[1].eventCount = Cardinality(SalesCompleted)
       /\ analyses[2].eventCount = Cardinality({s \in DOMAIN sales : sales[s].sentAt > 0})
  BY <1>6, <1>7, <1>8, <1>9
<1> QED
  BY <1>10 DEF analyses

-----------------------------------------------------------------------------
(* The export and the summary: the mode.                                   *)

\* The mode of a finite number of demands is one of them.
LEMMA ModeIsOne ==
  ASSUME NEW demands, IsFiniteSet(DOMAIN demands), DOMAIN demands # {},
         \A s \in DOMAIN demands : demands[s] \in Int
  PROVE  /\ \E s \in DOMAIN demands : demands[s] = Mode(demands)
         /\ Deviations(demands) < Cardinality(DOMAIN demands)
<1> DEFINE D == DOMAIN demands
           times(v) == Cardinality({s \in D : demands[s] = v})
           values == {demands[s] : s \in D}
           counts == {times(v) : v \in values}
           best == {v \in values : \A w \in values : times(w) <= times(v)}
           mode == Mode(demands)
<1>1. IsFiniteSet(values) /\ values \subseteq Int /\ values # {}
  <2>1. IsFiniteSet({demands[s] : s \in DOMAIN demands})
    BY FiniteRange
  <2> QED
    BY <2>1
<1>2. \A v \in values : times(v) \in Nat
  BY FS_Subset, FS_CardinalityType
<1>3. IsFiniteSet(counts)
  <2> DEFINE f == [v \in values |-> times(v)]
  <2>1. f \in Surjection(values, counts)
    BY DEF Surjection
  <2> HIDE DEF f, values, counts
  <2> QED
    BY <1>1, <2>1, FS_Surjection
<1>4. counts \subseteq Int /\ counts # {}
  <2> HIDE DEF times
  <2> QED
    BY <1>1, <1>2
<1>5. PICK m \in counts : \A n \in counts : n <= m
  <2> HIDE DEF counts
  <2> QED
    BY <1>3, <1>4, GreatestInt
<1>6. best # {}
  <2>1. PICK v \in values : times(v) = m
    BY <1>5
  <2>2. \A w \in values : times(w) <= times(v)
    BY <1>5, <2>1
  <2> QED
    BY <2>2
<1>7. Mode(demands) = MinOrZero(best)
  BY DEF Mode, Range
<1>8. best \in SUBSET values
  OBVIOUS
<1> HIDE DEF best, counts, times
<1>9. Mode(demands) \in values
  <2>1. IsFiniteSet(best) /\ best \subseteq Int
    BY <1>1, <1>8, FS_Subset
  <2>2. Min(best) \in best
    BY <1>6, <2>1, LeastInt
  <2> QED
    BY <1>6, <1>7, <1>8, <2>2 DEF MinOrZero
<1>10. PICK s \in D : demands[s] = mode
  BY <1>9
<1>11. Deviations(demands) < Cardinality(D)
  <2> DEFINE F == {x \in D : demands[x] # mode}
  <2>1. Deviations(demands) = Cardinality(F)
    BY DEF Deviations
  <2>2. F \in SUBSET D /\ F # D
    BY <1>10
  <2> HIDE DEF F, D, mode
  <2>3. IsFiniteSet(D)
    BY DEF D
  <2>4. Cardinality(F) <= Cardinality(D) /\ Cardinality(F) # Cardinality(D)
    BY <2>2, <2>3, FS_Subset
  <2>5. Cardinality(F) \in Nat /\ Cardinality(D) \in Nat
    BY <2>2, <2>3, FS_Subset, FS_CardinalityType
  <2> QED
    BY <2>1, <2>4, <2>5
<1> QED
  BY <1>10, <1>11

\* The sample of the priors, sale by sale: the size of it that the exporter counts,
\* and its mode.
LEMMA SampleAgrees ==
  ASSUME HistoryInv
  PROVE  LET sample == SampleSize(Everything)
         IN /\ sample.saleCount = SalesSummary.saleCount
            /\ sample.completedSaleCount = SalesSummary.completedSaleCount
            /\ sample.totalItems = SalesSummary.totalItems
            /\ DOMAIN sample.demands # {} =>
                 /\ Deviations(sample.demands) < Cardinality(DOMAIN sample.demands)
                 /\ sample.completedItems >= Mode(sample.demands)
            /\ SalesSummary.completedSaleCount = Cardinality(SalesCompleted)
<1> DEFINE sample == SampleSize(Everything)
           T == [s \in DOMAIN sales |-> ItemTotal(s)]
           C == [s \in SalesCompleted |-> ItemTotal(s)]
           demands == [s \in {c \in SalesCompleted : ItemTotal(c) > 0} |-> ItemTotal(s)]
<1>1. /\ sample.saleCount = Cardinality(DOMAIN sales)
      /\ sample.completedSaleCount = Cardinality(SalesCompleted)
      /\ sample.totalItems = SumF(DOMAIN sales, T)
      /\ sample.completedItems = SumF(SalesCompleted, C)
      /\ sample.demands = demands
  BY SampleIs
<1> HIDE DEF sample
<1>2. /\ SalesSummary.saleCount = Cardinality(DOMAIN sales)
      /\ SalesSummary.completedSaleCount = Cardinality(SalesCompleted)
      /\ SalesSummary.totalItems = SumOver(DOMAIN sales, ItemTotal)
  BY DEF SalesSummary, SalesCompleted
<1>3. IsFiniteSet(DOMAIN sales) /\ SalesCompleted \in SUBSET DOMAIN sales /\ IsFiniteSet(SalesCompleted)
  <2>1. IsFiniteSet(DOMAIN sales)
    BY InvByRows DEF Common
  <2>2. SalesCompleted \in SUBSET DOMAIN sales
    BY DEF SalesCompleted
  <2> QED
    BY <2>1, <2>2, FS_Subset
<1>4. \A s \in DOMAIN sales : ItemTotal(s) \in Nat
  BY DemandIs
<1>5. SumOver(DOMAIN sales, ItemTotal) = SumF(DOMAIN sales, T)
  <2>1. \A q \in DOMAIN sales : ItemTotal(q) \in Int
    BY <1>4
  <2> QED
    BY <1>3, <2>1, ItemTotalSum
<1>6. /\ IsFiniteSet(DOMAIN demands)
      /\ \A s \in DOMAIN demands : demands[s] \in Int /\ s \in SalesCompleted /\ demands[s] = C[s]
  <2>1. IsFiniteSet({c \in SalesCompleted : ItemTotal(c) > 0})
    BY <1>3, FS_Subset
  <2>2. \A s \in SalesCompleted : ItemTotal(s) \in Int
    BY <1>3, <1>4
  <2> QED
    BY <2>1, <2>2
<1>7. SumF(SalesCompleted, C) \in Nat /\ \A s \in SalesCompleted : C[s] <= SumF(SalesCompleted, C)
  <2>1. \A s \in SalesCompleted : C[s] \in Nat
    BY <1>3, <1>4
  <2> HIDE DEF C
  <2> QED
    BY <1>3, <2>1, SumAtLeast
<1> HIDE DEF T, C, demands
<1>8. ASSUME DOMAIN demands # {}
      PROVE  /\ Deviations(demands) < Cardinality(DOMAIN demands)
             /\ SumF(SalesCompleted, C) >= Mode(demands)
  <2>1. /\ \E s \in DOMAIN demands : demands[s] = Mode(demands)
        /\ Deviations(demands) < Cardinality(DOMAIN demands)
    BY <1>6, <1>8, ModeIsOne
  <2>2. PICK s \in DOMAIN demands : demands[s] = Mode(demands)
    BY <2>1
  <2>3. Mode(demands) \in Int /\ Mode(demands) <= SumF(SalesCompleted, C)
    BY <1>6, <1>7, <2>2
  <2> QED
    BY <1>7, <2>1, <2>3
<1>9. sample.totalItems = SalesSummary.totalItems
  BY <1>1, <1>2, <1>5
<1> QED
  BY <1>1, <1>2, <1>8, <1>9 DEF sample

-----------------------------------------------------------------------------
(* The export and the summary: the priors of the stages.                   *)

PaidLines == {k \in Lines : LineRecord(k)["paid"]}
PaidIn(g) == {k \in InSegment(g) : LineRecord(k)["paid"]}

\* The lines of the sales that are completed, counted sale by sale.
LEMMA PaidLinesAre ==
  ASSUME HistoryInv
  PROVE  Sum(SalesCompleted, LAMBDA q : Cardinality(Line(q))) = Cardinality(PaidLines)
<1> DEFINE E == [s \in SalesCompleted |-> {s} \X Line(s)]
           e == [s \in SalesCompleted |-> Cardinality(Line(s))]
<1>1. IsFiniteSet(SalesCompleted) /\ SalesCompleted \in SUBSET DOMAIN sales
  <2>1. IsFiniteSet(DOMAIN sales)
    BY InvByRows DEF Common
  <2>2. SalesCompleted \in SUBSET DOMAIN sales
    BY DEF SalesCompleted
  <2> QED
    BY <2>1, <2>2, FS_Subset
<1>2. \A s \in SalesCompleted : /\ IsFiniteSet(E[s]) /\ e[s] = Cardinality(E[s])
                                /\ Cardinality(Line(s)) \in Int
  <2> SUFFICES ASSUME NEW s \in SalesCompleted
               PROVE  /\ IsFiniteSet({s} \X Line(s)) /\ Cardinality(Line(s)) \in Int
                      /\ Cardinality(Line(s)) = Cardinality({s} \X Line(s))
    OBVIOUS
  <2>1. IsFiniteSet({s}) /\ Cardinality({s}) = 1
    BY FS_Singleton
  <2>2. IsFiniteSet(Line(s))
    BY <1>1, UnitsOf
  <2>3. Cardinality(Line(s)) \in Nat
    BY <2>2, FS_CardinalityType
  <2>4. /\ IsFiniteSet({s} \X Line(s))
        /\ Cardinality({s} \X Line(s)) = Cardinality({s}) * Cardinality(Line(s))
    BY <2>1, <2>2, FS_Product
  <2> QED
    BY <2>1, <2>3, <2>4
<1>3. \A s \in SalesCompleted : \A q \in SalesCompleted : s # q => E[s] \cap E[q] = {}
  OBVIOUS
<1>4. ASSUME NEW s \in DOMAIN sales
      PROVE  sales[s].payment = "APPROVED" <=> s \in SalesCompleted
  <2> DEFINE r == sales[s]
  <2>1. <<r.status, r.payment>> \in {<<"PENDING_PAYMENT", "PENDING">>,
                                     <<"COMPLETED", "APPROVED">>, <<"FAILED", "FAILED">>}
    BY RowOf DEF RowInOrder
  <2>2. r.payment = "APPROVED" <=> r.status = "COMPLETED"
    <3> HIDE DEF r
    <3> QED
      BY <2>1
  <2> QED
    BY <2>2 DEF SalesCompleted
<1>5. PaidLines = UNION {E[s] : s \in SalesCompleted}
  <2>1. \A k \in Lines : /\ k[1] \in DOMAIN sales /\ k[2] \in Line(k[1]) /\ k = <<k[1], k[2]>>
    BY DEF Lines
  <2>2. \A k \in Lines : LineRecord(k)["paid"] <=> sales[k[1]].payment = "APPROVED"
    BY DEF LineRecord
  <2>3. \A k \in PaidLines : k[1] \in SalesCompleted /\ k \in E[k[1]]
    BY <1>4, <2>1, <2>2 DEF PaidLines
  <2>4. ASSUME NEW s \in SalesCompleted, NEW k \in E[s] PROVE k \in PaidLines
    <3>1. k \in Lines /\ k[1] = s
      BY <1>1 DEF Lines
    <3> QED
      BY <1>1, <1>4, <2>2, <3>1 DEF PaidLines
  <2> HIDE DEF E
  <2> QED
    BY <2>3, <2>4
<1>6. IsFiniteSet(PaidLines)
  BY LinesFinite, FS_Subset DEF PaidLines
<1> HIDE DEF E, e
<1>7. SumF(SalesCompleted, e) = Cardinality(PaidLines)
  BY <1>1, <1>2, <1>3, <1>5, <1>6, SumCardinalities
<1>8. Sum(SalesCompleted, LAMBDA q : Cardinality(Line(q))) = SumF(SalesCompleted, e)
  BY <1>1, <1>2, LineSum DEF e
<1> QED
  BY <1>7, <1>8

\* The priors of the step from pending to paid count every line once for each size.
LEMMA PriorsCountLines ==
  ASSUME HistoryInv
  PROVE  StagePriors(FunnelSegments(Everything))[2].successes =
           Cardinality(Sizes) * Cardinality(PaidLines)
<1> DEFINE segments == FunnelSegments(Everything)
           D == DOMAIN segments
           n == Cardinality(PaidLines)
           won == [g \in D |-> segments[g][2].successes]
           ofSize == [size \in Sizes |-> {g \in D : g.size = size}]
           perSize == [size \in Sizes |-> SumF(ofSize[size], won)]
<1>1. /\ D = {LineSegment(k, x) : k \in Lines, x \in Sizes}
      /\ \A g \in D : segments[g][2] = StepOf(InSegment(g), 2)
  <2>1. 2 \in 1 .. 4
    OBVIOUS
  <2> QED
    BY <2>1, SegmentsAre
<1>2. IsFiniteSet(Sizes) /\ IsFiniteSet(Lines) /\ IsFiniteSet(PaidLines)
  BY DurationAssumption, LinesFinite, FS_Subset DEF PaidLines
<1>3. StagePriors(segments)[2].successes = Sum(D, LAMBDA g : segments[g][2].successes)
  <2>1. DOMAIN Steps = 1 .. 4
    BY DEF Steps
  <2> QED
    BY <2>1 DEF StagePriors
<1> HIDE DEF segments
<1>4. IsFiniteSet(D)
  <2> DEFINE f == [p \in Lines \X Sizes |-> LineSegment(p[1], p[2])]
  <2>1. f \in Surjection(Lines \X Sizes, D)
    <3>1. \A k \in Lines : \A x \in Sizes : <<k, x>> \in Lines \X Sizes /\ f[<<k, x>>] = LineSegment(k, x)
      OBVIOUS
    <3>2. f \in [Lines \X Sizes -> D]
      BY <1>1
    <3>3. ASSUME NEW g \in D PROVE \E p \in Lines \X Sizes : f[p] = g
      <4>1. PICK k \in Lines, x \in Sizes : g = LineSegment(k, x)
        BY <1>1
      <4> HIDE DEF f
      <4> QED
        BY <3>1, <4>1
    <3> HIDE DEF f, D
    <3> QED
      BY <3>2, <3>3 DEF Surjection
  <2>2. IsFiniteSet(Lines \X Sizes)
    BY <1>2, FS_Product
  <2> HIDE DEF f, D
  <2> QED
    BY <2>1, <2>2, FS_Surjection
<1>5. \A g \in D : won[g] = Cardinality(PaidIn(g)) /\ IsFiniteSet(PaidIn(g)) /\ won[g] \in Nat
  <2> SUFFICES ASSUME NEW g \in D
               PROVE  won[g] = Cardinality(PaidIn(g)) /\ IsFiniteSet(PaidIn(g)) /\ won[g] \in Nat
    OBVIOUS
  <2>1. segments[g][2] = StepOf(InSegment(g), 2)
    BY <1>1
  <2>2. Steps[2][2] = "paid"
    BY DEF Steps
  <2>3. segments[g][2].successes = Cardinality(PaidIn(g))
    BY <2>1, <2>2 DEF StepOf, PaidIn
  <2>4. PaidIn(g) \in SUBSET Lines
    BY DEF PaidIn, InSegment
  <2>5. IsFiniteSet(PaidIn(g))
    BY <1>2, <2>4, FS_Subset
  <2>6. Cardinality(PaidIn(g)) \in Nat
    BY <2>5, FS_CardinalityType
  <2> QED
    BY <2>3, <2>5, <2>6
<1>6. \A k : \A x : LineSegment(k, x).size = x
  BY DEF LineSegment, SegmentOf
<1>7. \A g \in D : g.size \in Sizes
  BY <1>1, <1>6
<1>8. \A x \in Sizes : ofSize[x] \in SUBSET D /\ \A g \in ofSize[x] : g.size = x
  OBVIOUS
<1>9. \A x \in Sizes : IsFiniteSet(ofSize[x])
  <2> HIDE DEF ofSize, D
  <2> QED
    BY <1>4, <1>8, FS_Subset
<1>10. ASSUME NEW x \in Sizes PROVE SumF(ofSize[x], won) = n
  <2> DEFINE W == ofSize[x]
             E == [g \in W |-> PaidIn(g)]
  <2>1. W \in SUBSET D /\ IsFiniteSet(W)
    BY <1>8, <1>9
  <2>2. \A g \in W : g.size = x
    BY <1>8
  <2>3. \A k \in Lines : LineSegment(k, x) \in W
    BY <1>1, <1>6
  <2> HIDE DEF W
  <2>4. \A g \in W : IsFiniteSet(E[g]) /\ won[g] = Cardinality(E[g])
    <3> HIDE DEF won
    <3> QED
      BY <1>5, <2>1
  <2>5. \A v \in W : \A g \in W : v # g => E[v] \cap E[g] = {}
    BY <2>2 DEF PaidIn, InSegment
  <2>6. PaidLines = UNION {E[g] : g \in W}
    <3>1. \A k \in PaidLines : LineSegment(k, x) \in W /\ k \in E[LineSegment(k, x)]
      BY <1>6, <2>3 DEF PaidLines, PaidIn, InSegment
    <3>2. \A g \in W : \A k \in E[g] : k \in PaidLines
      BY DEF PaidLines, PaidIn, InSegment
    <3> HIDE DEF E
    <3> QED
      BY <3>1, <3>2
  <2> HIDE DEF E, won
  <2>7. SumF(W, won) = Cardinality(PaidLines)
    BY <1>2, <2>1, <2>4, <2>5, <2>6, SumCardinalities
  <2> QED
    BY <2>7 DEF W
<1>11. SumF(Sizes, perSize) = SumF(D, won)
  <2>1. \A x \in Sizes : \A y \in Sizes : x # y => ofSize[x] \cap ofSize[y] = {}
    <3> HIDE DEF ofSize
    <3> QED
      BY <1>8
  <2>2. D = UNION {ofSize[x] : x \in Sizes}
    <3>1. \A g \in D : g \in ofSize[g.size] /\ g.size \in Sizes
      BY <1>7
    <3> HIDE DEF ofSize, D
    <3> QED
      BY <1>8, <3>1
  <2>3. \A x \in Sizes : \A g \in ofSize[x] : won[g] \in Int
    <3> HIDE DEF ofSize, won, D
    <3> QED
      BY <1>5, <1>8
  <2>4. \A x \in Sizes : perSize[x] = SumF(ofSize[x], won)
    OBVIOUS
  <2> HIDE DEF ofSize, won, perSize, D
  <2>5. SumF(Sizes, perSize) = SumF(UNION {ofSize[x] : x \in Sizes}, won)
    BY <1>2, <1>9, <2>1, <2>3, <2>4, SumOfSums
  <2> QED
    BY <2>2, <2>5
<1>12. n \in Nat /\ Cardinality(Sizes) \in Nat
  BY <1>2, FS_CardinalityType
<1>13. \A x \in Sizes : perSize[x] = n
  BY <1>10
<1> HIDE DEF n, perSize, won, D
<1>14. SumF(Sizes, perSize) = Cardinality(Sizes) * n
  <2> DEFINE m == Cardinality(Sizes)
             total == SumF(Sizes, perSize)
  <2>1. \A x \in Sizes : perSize[x] \in Int /\ n <= perSize[x] /\ perSize[x] <= n
    BY <1>12, <1>13
  <2>2. n \in Int
    BY <1>12
  <2>3. n * m <= total /\ total <= n * m
    BY <1>2, <2>1, <2>2, SumBounds
  <2>4. total \in Int
    BY <1>2, <2>1, SumRemove
  <2>5. m \in Nat
    BY <1>12
  <2>6. n * m = m * n /\ n * m \in Int
    BY <2>2, <2>5
  <2> HIDE DEF m, total
  <2>7. total = n * m
    BY <2>3, <2>4, <2>6
  <2>8. total = m * n
    BY <2>6, <2>7
  <2> QED
    BY <2>8 DEF m, total
<1>15. Sum(D, LAMBDA g : segments[g][2].successes) = SumF(D, won)
  <2>1. \A g \in D : segments[g][2].successes \in Int
    <3>1. \A g \in D : won[g] = segments[g][2].successes
      BY DEF won
    <3> QED
      BY <1>5, <3>1
  <2> QED
    BY <1>4, <2>1, SuccessesAreSums DEF won
<1> QED
  BY <1>3, <1>11, <1>14, <1>15 DEF n, segments

-----------------------------------------------------------------------------
(* The export and the summary: check-ins.                                  *)

CheckInEvents == {e \in AllEvents : e.type = "checkin.completed"}
CheckInsOf(s) == {e \in AllEvents : e.type = "checkin.completed" /\ e.sale = s}

\* A check-in is one event, whatever the unit.
LEMMA CheckInsCounted ==
  ASSUME HistoryInv, NEW s \in DOMAIN sales
  PROVE  /\ IsFiniteSet(CheckInsOf(s))
         /\ Cardinality(CheckInsOf(s)) = Cardinality(DOMAIN sales[s].checkIns)
         /\ Cardinality(DOMAIN sales[s].checkIns) \in Int
<1> DEFINE U == DOMAIN sales[s].checkIns
           C == CheckInsOf(s)
           f == [u \in U |-> CheckedIn(s, u[1], u[2])]
<1>1. IsFiniteSet(U)
  BY RowOf DEF RowType
<1>2. \A u \in U : u = <<u[1], u[2]>>
  BY PairsOfUnits
<1>3. ASSUME NEW u \in U
      PROVE  f[u] \in C /\ f[u].ticket = u[1] /\ f[u].id = u[2]
  <2> DEFINE a == u[1]
             b == u[2]
             e == CheckedIn(s, a, b)
  <2>1. e \in AllEvents
    BY EventKinds DEF AllEvents
  <2>2. f[u] = e
    OBVIOUS
  <2> HIDE DEF a, b
  <2>3. e.type = "checkin.completed" /\ e.sale = s /\ e.ticket = a /\ e.id = b
    BY DEF CheckedIn, Event
  <2> HIDE DEF e, f
  <2>4. e \in C
    BY <2>1, <2>3 DEF CheckInsOf
  <2> QED
    BY <2>2, <2>3, <2>4 DEF a, b
<1>4. ASSUME NEW e \in C PROVE \E u \in U : f[u] = e
  <2>1. e \in AllEvents /\ e.type = "checkin.completed" /\ e.sale = s
    BY DEF CheckInsOf
  <2>2. PICK q \in DOMAIN sales : e \in SaleEvents(q)
    BY <2>1 DEF AllEvents
  <2>3. Determined(e, q) /\ q = s
    BY <2>1, <2>2, EventDetermined DEF Determined
  <2> DEFINE a == e.ticket
             b == e.id
  <2>4. e = CheckedIn(s, a, b) /\ <<a, b>> \in U
    BY <2>1, <2>3 DEF Determined
  <2> HIDE DEF a, b
  <2>5. f[<<a, b>>] = CheckedIn(s, a, b)
    BY <2>4
  <2> QED
    BY <2>4, <2>5
<1>5. \A u \in U : \A v \in U : f[u] = f[v] => u = v
  <2> HIDE DEF f, U
  <2> QED
    BY <1>2, <1>3
<1>6. DOMAIN f = U /\ f = [u \in U |-> f[u]]
  OBVIOUS
<1> HIDE DEF f, U, C
<1>7. f \in [U -> C]
  BY <1>3, <1>6
<1>8. f \in Bijection(U, C)
  BY <1>4, <1>5, <1>6, <1>7 DEF Bijection, Injection, Surjection, IsInjective
<1>9. IsFiniteSet(C) /\ Cardinality(C) = Cardinality(U)
  BY <1>1, <1>8, FS_Bijection DEF ExistsBijection
<1>10. Cardinality(U) \in Nat
  BY <1>1, FS_CardinalityType
<1> QED
  BY <1>9, <1>10 DEF C, U

\* The check-ins that the exporter counts in the rows are the events.
LEMMA CheckedInAre ==
  ASSUME HistoryInv
  PROVE  SalesSummary.checkedIn = Cardinality(CheckInEvents) /\ IsFiniteSet(CheckInEvents)
<1> DEFINE S == DOMAIN sales
           E == [s \in S |-> CheckInsOf(s)]
           e == [s \in S |-> Cardinality(DOMAIN sales[s].checkIns)]
<1>1. IsFiniteSet(S)
  BY InvByRows DEF Common
<1>2. \A s \in S : /\ IsFiniteSet(E[s]) /\ e[s] = Cardinality(E[s])
                   /\ Cardinality(DOMAIN sales[s].checkIns) \in Int
  BY CheckInsCounted
<1>3. \A s \in S : \A q \in S : s # q => E[s] \cap E[q] = {}
  BY DEF CheckInsOf
<1>4. CheckInEvents = UNION {E[s] : s \in S}
  <2>1. \A x \in CheckInEvents : x.sale \in S
    BY EverythingIs DEF CheckInEvents
  <2>2. \A x \in CheckInEvents : x \in E[x.sale]
    BY <2>1 DEF CheckInEvents, CheckInsOf
  <2>3. \A s \in S : \A x \in E[s] : x \in CheckInEvents
    BY DEF CheckInEvents, CheckInsOf
  <2> HIDE DEF E
  <2> QED
    BY <2>1, <2>2, <2>3
<1>5. IsFiniteSet(CheckInEvents)
  BY EventsKeyed, FS_Subset DEF CheckInEvents, Keyed
<1>6. SalesSummary.checkedIn = SumOver(S, LAMBDA q : Cardinality(DOMAIN sales[q].checkIns))
  BY DEF SalesSummary
<1>7. SumOver(S, LAMBDA q : Cardinality(DOMAIN sales[q].checkIns)) = SumF(S, e)
  BY <1>1, <1>2, CheckedInSum
<1> HIDE DEF E, e, S
<1>8. SumF(S, e) = Cardinality(CheckInEvents)
  BY <1>1, <1>2, <1>3, <1>4, <1>5, SumCardinalities
<1> QED
  BY <1>5, <1>6, <1>7, <1>8

\* The windows of a size count each of them once.
LEMMA WindowCheckIns ==
  ASSUME HistoryInv
  PROVE  LET windows == Windows(Everything)
         IN Sum({w \in DOMAIN windows : w.size = StockoutSize}, LAMBDA w : windows[w].checkIns)
              = SalesSummary.checkedIn
<1> DEFINE windows == Windows(Everything)
           W == {w \in DOMAIN windows : w.size = StockoutSize}
           inside(w) == {e \in AllEvents : WindowOf(e, w.size) = w}
           E == [w \in W |-> {e \in CheckInEvents : WindowOf(e, StockoutSize) = w}]
           c == [w \in W |-> windows[w].checkIns]
<1>1. EventsOf(Everything) = AllEvents
  BY EverythingIs
<1>2. StockoutSize \in Sizes
  BY DemandAssumption
<1>3. windows = [w \in {WindowOf(e, size) : e \in AllEvents, size \in Sizes} |-> Counts(inside(w))]
  BY <1>1 DEF Windows
<1> HIDE DEF windows
<1>4. \A e : \A x : WindowOf(e, x).size = x
  BY DEF WindowOf
<1>5. W = {WindowOf(e, StockoutSize) : e \in AllEvents}
  <2>1. DOMAIN windows = {WindowOf(e, size) : e \in AllEvents, size \in Sizes}
    BY <1>3
  <2> QED
    BY <1>2, <1>4, <2>1
<1>6. IsFiniteSet(AllEvents) /\ IsFiniteSet(CheckInEvents)
  BY EventsKeyed, CheckedInAre DEF Keyed
<1>7. IsFiniteSet(W)
  <2> DEFINE f == [e \in AllEvents |-> WindowOf(e, StockoutSize)]
  <2>1. f \in Surjection(AllEvents, W)
    BY <1>5 DEF Surjection
  <2> HIDE DEF f, W
  <2> QED
    BY <1>6, <2>1, FS_Surjection
<1>8. \A w \in W : /\ c[w] = Cardinality(E[w]) /\ IsFiniteSet(E[w])
                   /\ windows[w].checkIns \in Int
  <2> SUFFICES ASSUME NEW w \in W
               PROVE  /\ c[w] = Cardinality(E[w]) /\ IsFiniteSet(E[w])
                      /\ windows[w].checkIns \in Int
    OBVIOUS
  <2>1. w \in DOMAIN windows /\ w.size = StockoutSize
    OBVIOUS
  <2>2. windows[w] = Counts(inside(w))
    BY <1>3, <2>1
  <2> DEFINE F == {e \in inside(w) : e.type = "checkin.completed"}
             n == windows[w].checkIns
  <2>3. n = Cardinality(F)
    BY <2>2 DEF Counts
  <2>4. F = E[w]
    BY <2>1 DEF CheckInEvents
  <2>5. E[w] \in SUBSET CheckInEvents
    OBVIOUS
  <2>6. c[w] = n
    OBVIOUS
  <2> HIDE DEF E, F, n, c, inside, W
  <2>7. IsFiniteSet(E[w])
    BY <1>6, <2>5, FS_Subset
  <2>8. Cardinality(E[w]) \in Nat
    BY <2>7, FS_CardinalityType
  <2>9. n \in Int
    BY <2>3, <2>4, <2>8
  <2> QED
    BY <2>3, <2>4, <2>6, <2>7, <2>9 DEF n
<1>9. \A v \in W : \A w \in W : v # w => E[v] \cap E[w] = {}
  OBVIOUS
<1>10. CheckInEvents = UNION {E[w] : w \in W}
  <2>1. \A e \in CheckInEvents : WindowOf(e, StockoutSize) \in W
    BY <1>5 DEF CheckInEvents
  <2>2. \A e \in CheckInEvents : e \in E[WindowOf(e, StockoutSize)]
    BY <2>1
  <2>3. \A w \in W : \A e \in E[w] : e \in CheckInEvents
    OBVIOUS
  <2> HIDE DEF E, W
  <2> QED
    BY <2>1, <2>2, <2>3
<1>11. SumF(W, c) = Cardinality(CheckInEvents)
  <2> HIDE DEF E, c, W
  <2> QED
    BY <1>6, <1>7, <1>8, <1>9, <1>10, SumCardinalities
<1>12. Sum(W, LAMBDA w : windows[w].checkIns) = SumF(W, c)
  <2> HIDE DEF W
  <2> QED
    BY <1>7, <1>8, CheckInsAreSums
<1>13. Sum(W, LAMBDA w : windows[w].checkIns) = SalesSummary.checkedIn
  BY <1>11, <1>12, CheckedInAre
<1> QED
  BY <1>13 DEF W, windows

\* Which is the property, part by part.
LEMMA InvGivesExports == HistoryInv => ExportsAgree
<1> SUFFICES ASSUME HistoryInv PROVE ExportsAgree
  OBVIOUS
<1> DEFINE events == Everything
           sample == SampleSize(events)
           analyses == SurvivalAnalyses(events, now)
           priors == StagePriors(FunnelSegments(events))
           windows == Windows(events)
           emailed == {s \in DOMAIN sales : sales[s].sentAt > 0}
<1>1. /\ sample.saleCount = SalesSummary.saleCount
      /\ sample.completedSaleCount = SalesSummary.completedSaleCount
      /\ sample.totalItems = SalesSummary.totalItems
      /\ DOMAIN sample.demands # {} =>
           /\ Deviations(sample.demands) < Cardinality(DOMAIN sample.demands)
           /\ sample.completedItems >= Mode(sample.demands)
      /\ SalesSummary.completedSaleCount = Cardinality(SalesCompleted)
  BY SampleAgrees
<1>2. ASSUME sample.saleCount > 0
      PROVE  /\ analyses[1].eventCount = SalesSummary.completedSaleCount
             /\ analyses[2].eventCount = Cardinality(emailed)
  <2>1. DOMAIN sales # {}
    <3>1. sample.saleCount = Cardinality(DOMAIN sales)
      BY SampleIs
    <3> HIDE DEF sample
    <3> QED
      BY <1>2, <3>1, FS_EmptySet
  <2> QED
    BY <1>1, <2>1, EventCountsAre
<1>3. priors[2].successes =
        Cardinality(Sizes) * Sum(SalesCompleted, LAMBDA q : Cardinality(Line(q)))
  BY PriorsCountLines, PaidLinesAre
<1>4. Sum({w \in DOMAIN windows : w.size = StockoutSize}, LAMBDA w : windows[w].checkIns)
        = SalesSummary.checkedIn
  BY WindowCheckIns
<1> HIDE DEF sample, analyses, priors, windows
<1> QED
  BY <1>1, <1>2, <1>3, <1>4
  DEF ExportsAgree, SalesCompleted, sample, analyses, priors, windows

\* The priors, the analyses and the windows, counted from events, agree with
\* the summary that cmd/optiflow-export counts from rows, in every state of the
\* tables.
THEOREM ExportsSound == HistorySpec => []ExportsAgree
BY HistoryInvariant, InvGivesExports, PTL
=============================================================================
