----------------------------- MODULE ApiProofs ------------------------------
(***************************************************************************)
(* Two components of the API, first the totals of a sale (SaleTotal), then  *)
(* the rate limiter (RateLimiter).                                          *)
(***************************************************************************)
EXTENDS SaleTotal, RateLimiter, TLAPS

(***************************************************************************)
(* What validateSaleRequest accepts can be stored and paid.  The inductive   *)
(* invariant says that the totals of the API are exact and within the limit, *)
(* and that persistSale follows them line by line.                           *)
(***************************************************************************)
MaxLine == MaxTicketQuantity * MaxMoneyAmountInCents

Bounded == 0 .. MaxMoneyAmountInCents
GoodLine == [quantity : 1 .. MaxTicketQuantity, unitPrice : 1 .. MaxMoneyAmountInCents]

TotalInv ==
  /\ step \in {"validate", "refused", "published", "persisted"}
  /\ lines \in Seq(GoodLine)
  /\ totals \in Seq(1 .. MaxMoneyAmountInCents)
  /\ Len(totals) = Len(lines)
  /\ step \in {"published", "persisted"} => lines # <<>>
  /\ at \in 0 .. Len(lines)
  /\ totalAmount = Before(at + 1)
  /\ step = "persisted" => at = Len(lines)
  /\ \A i \in DOMAIN lines :
       totals[i] = Before(i) + lines[i].quantity * lines[i].unitPrice

\* The amount of a line within its bounds is far from the end of a word.
LEMMA ProductBounded ==
  ASSUME ConstantsFit,
         NEW q \in 1 .. MaxTicketQuantity, NEW p \in 1 .. MaxMoneyAmountInCents
  PROVE  q * p \in 1 .. MaxLine
<1>1. MaxTicketQuantity \in Nat /\ MaxMoneyAmountInCents \in Nat
  BY DEF ConstantsFit
<1>2. q * p \in Nat /\ q * p >= 1
  BY <1>1
<1>3. q * p <= MaxTicketQuantity * p
  BY <1>1
<1>4. MaxTicketQuantity * p <= MaxLine
  BY <1>1 DEF MaxLine
<1> QED
  BY <1>1, <1>2, <1>3, <1>4 DEF MaxLine

LEMMA WrapExact ==
  ASSUME ConstantsFit, NEW n \in Int, -HalfWord <= n, n < HalfWord
  PROVE  Wrap(n) = n
<1>1. HalfWord \in Nat
  BY DEF ConstantsFit
<1>2. n + HalfWord \in Nat /\ n + HalfWord < 2 * HalfWord
  BY <1>1
<1>3. (n + HalfWord) % (2 * HalfWord) = n + HalfWord
  BY <1>1, <1>2
<1> QED
  BY <1>1, <1>3 DEF Wrap

\* What the arithmetic below needs of the constants.
LEMMA Room ==
  ASSUME ConstantsFit
  PROVE  /\ MaxLine \in Nat /\ MaxMoneyAmountInCents \in Nat /\ HalfWord \in Nat
         /\ MaxLine + MaxMoneyAmountInCents < HalfWord
BY DEF ConstantsFit, MaxLine

LEMMA AmountExact ==
  ASSUME ConstantsFit, NEW line \in GoodLine
  PROVE  /\ Amount(line) = line.quantity * line.unitPrice
         /\ Amount(line) \in 1 .. MaxLine
<1>1. line.quantity \in 1 .. MaxTicketQuantity /\ line.unitPrice \in 1 .. MaxMoneyAmountInCents
  BY DEF GoodLine
<1>2. line.quantity * line.unitPrice \in 1 .. MaxLine
  BY <1>1, ProductBounded
<1>3. /\ line.quantity * line.unitPrice \in Int
      /\ -HalfWord <= line.quantity * line.unitPrice
      /\ line.quantity * line.unitPrice < HalfWord
  BY <1>2, Room
<1> QED
  BY <1>2, <1>3, WrapExact DEF Amount

LEMMA TotalInRange ==
  ASSUME ConstantsFit, TotalInv, NEW i \in 1 .. Len(lines)
  PROVE  totals[i] \in 1 .. MaxMoneyAmountInCents
<1> DEFINE amounts == 1 .. MaxMoneyAmountInCents
<1>1. totals \in Seq(amounts) /\ i \in 1 .. Len(totals)
  BY DEF TotalInv
<1> HIDE DEF amounts
<1>2. totals[i] \in amounts
  BY <1>1
<1> QED
  BY <1>2 DEF amounts

\* Totals are bounded, the one before the first line included.
LEMMA BeforeBounded ==
  ASSUME ConstantsFit, TotalInv, NEW i \in 1 .. Len(lines) + 1
  PROVE  Before(i) \in Bounded
<1>1. CASE i = 1
  BY <1>1, Room DEF Before, Bounded
<1>2. CASE i # 1
  <2>1. i - 1 \in 1 .. Len(totals)
    BY <1>2 DEF TotalInv
  <2> QED
    BY <1>2, <2>1, Room DEF TotalInv, Before, Bounded
<1> QED
  BY <1>1, <1>2

LEMMA InitTotal ==
  ASSUME ConstantsFit, TotalInit
  PROVE  TotalInv
BY DEF TotalInit, TotalInv, Before

\* The comparison refuses exactly the lines that exceed the limit.
LEMMA AcceptedLine ==
  ASSUME ConstantsFit, TotalInv, NEW line \in Line, LineAccepted(line)
  PROVE  /\ line \in GoodLine
         /\ SoFar \in Bounded
         /\ Wrap(SoFar + Amount(line)) = SoFar + line.quantity * line.unitPrice
         /\ SoFar + line.quantity * line.unitPrice \in 1 .. MaxMoneyAmountInCents
<1>1. line \in GoodLine
  <2>1. line.quantity \in Int /\ line.unitPrice \in Int
    BY Room DEF Line, Word
  <2> QED
    BY <2>1 DEF ConstantsFit, LineAccepted, Line, GoodLine
<1>2. SoFar \in Bounded
  <2>1. Len(lines) + 1 \in 1 .. Len(lines) + 1
    BY DEF TotalInv
  <2> QED
    BY <2>1, BeforeBounded DEF SoFar
<1>3. /\ Amount(line) = line.quantity * line.unitPrice
      /\ Amount(line) \in 1 .. MaxLine
  BY <1>1, AmountExact
<1>4. Wrap(MaxMoneyAmountInCents - Amount(line)) = MaxMoneyAmountInCents - Amount(line)
  BY <1>3, WrapExact, Room
<1>5. SoFar + Amount(line) \in 1 .. MaxMoneyAmountInCents
  BY <1>2, <1>3, <1>4, Room DEF LineAccepted, Bounded
<1>6. Wrap(SoFar + Amount(line)) = SoFar + Amount(line)
  BY <1>5, WrapExact, Room
<1> QED
  BY <1>1, <1>2, <1>3, <1>5, <1>6

LEMMA ValidateTotal ==
  ASSUME ConstantsFit, TotalInv, NEW line \in Line, ValidateLine(line)
  PROVE  TotalInv'
<1>1. CASE step' = "refused" /\ UNCHANGED <<lines, totals>>
  BY <1>1 DEF TotalInv, ValidateLine, Before
<1>2. CASE /\ LineAccepted(line)
           /\ lines' = Append(lines, line)
           /\ totals' = Append(totals, Wrap(SoFar + Amount(line)))
           /\ UNCHANGED step
  <2> DEFINE sum == SoFar + line.quantity * line.unitPrice
  <2>1. /\ line \in GoodLine /\ SoFar \in Bounded
        /\ Wrap(SoFar + Amount(line)) = sum /\ sum \in 1 .. MaxMoneyAmountInCents
    BY <1>2, AcceptedLine
  <2>2. totals' = Append(totals, sum)
    BY <1>2, <2>1
  <2> HIDE DEF sum
  <2>3. /\ lines' \in Seq(GoodLine) /\ Len(lines') = Len(lines) + 1
        /\ totals' \in Seq(1 .. MaxMoneyAmountInCents) /\ Len(totals') = Len(lines')
        /\ lines' # <<>>
    BY <1>2, <2>1, <2>2 DEF TotalInv
  <2>4. \A i \in DOMAIN lines : lines'[i] = lines[i] /\ totals'[i] = totals[i]
    BY <1>2, <2>2 DEF TotalInv
  <2>5. lines'[Len(lines) + 1] = line /\ totals'[Len(lines) + 1] = sum
    BY <1>2, <2>2 DEF TotalInv
  <2>6. \A i \in 1 .. Len(lines) + 1 : Before(i)' = Before(i)
    BY <2>4 DEF Before, TotalInv
  <2>7. at' = at /\ totalAmount' = totalAmount /\ step = "validate" /\ step' = step
    BY <1>2 DEF ValidateLine
  <2>8. at' \in 0 .. Len(lines') /\ totalAmount' = Before(at + 1)'
    BY <2>3, <2>6, <2>7 DEF TotalInv
  <2>9. \A i \in DOMAIN lines' :
          totals'[i] = Before(i)' + lines'[i].quantity * lines'[i].unitPrice
    <3> SUFFICES ASSUME NEW i \in DOMAIN lines'
                 PROVE totals'[i] = Before(i)' + lines'[i].quantity * lines'[i].unitPrice
      OBVIOUS
    <3>1. i \in 1 .. Len(lines) + 1
      BY <2>3 DEF TotalInv
    <3>2. CASE i = Len(lines) + 1
      BY <2>5, <2>6, <3>1, <3>2 DEF sum, SoFar
    <3>3. CASE i # Len(lines) + 1
      <4>1. i \in DOMAIN lines
        BY <3>1, <3>3 DEF TotalInv
      <4> QED
        BY <2>4, <2>6, <3>1, <4>1 DEF TotalInv
    <3> QED
      BY <3>2, <3>3
  <2> QED
    BY <2>3, <2>7, <2>8, <2>9 DEF TotalInv
<1> QED
  BY <1>1, <1>2 DEF ValidateLine

\* persistSale adds up to the totals that the API computed.
LEMMA AddTotal ==
  ASSUME ConstantsFit, TotalInv, AddLine
  PROVE  TotalInv'
<1>1. at + 1 \in DOMAIN lines /\ at \in Nat /\ at < Len(lines)
  BY DEF TotalInv, AddLine
<1>2. lines[at + 1] \in GoodLine
  BY <1>1 DEF TotalInv
<1>3. Amount(lines[at + 1]) = lines[at + 1].quantity * lines[at + 1].unitPrice
  BY <1>2, AmountExact
<1>4. totals[at + 1] = totalAmount + Amount(lines[at + 1])
  BY <1>1, <1>3 DEF TotalInv
<1>5. totals[at + 1] \in 1 .. MaxMoneyAmountInCents
  BY <1>1, TotalInRange DEF TotalInv
<1>6. totalAmount' = totals[at + 1]
  BY <1>4, <1>5, WrapExact, Room DEF AddLine
<1>7. totalAmount' = Before(at + 1)'
  <2>1. at' = at + 1 /\ at' + 1 # 1 /\ (at' + 1) - 1 = at + 1 /\ totals' = totals
    BY <1>1 DEF AddLine
  <2> QED
    BY <1>6, <2>1 DEF Before
<1>8. /\ UNCHANGED <<step, lines, totals>>
      /\ at' \in 0 .. Len(lines) /\ step = "published"
  BY <1>1 DEF AddLine
<1>9. \A i \in DOMAIN lines : Before(i)' = Before(i)
  BY <1>8 DEF Before
<1> QED
  BY <1>7, <1>8, <1>9 DEF TotalInv

\* The CHECK constraints hold of whatever the API has accepted.
LEMMA AcceptedStorable ==
  ASSUME ConstantsFit, TotalInv
  PROVE  Storable
<1>1. totalAmount \in Bounded
  <2>1. at + 1 \in 1 .. Len(lines) + 1
    BY DEF TotalInv
  <2> QED
    BY <2>1, BeforeBounded DEF TotalInv
<1>2. \A i \in DOMAIN lines : lines[i] \in GoodLine
  BY DEF TotalInv
<1> QED
  BY <1>1, <1>2 DEF ConstantsFit, Storable, Bounded, GoodLine

LEMMA StepTotal ==
  ASSUME ConstantsFit, TotalInv, [TotalNext]_totalVars
  PROVE  TotalInv'
<1>1. ASSUME NEW line \in Line, ValidateLine(line) PROVE TotalInv'
  BY <1>1, ValidateTotal
<1>2. CASE Publish
  BY <1>2 DEF Publish, TotalInv, Before
<1>3. CASE AddLine
  BY <1>3, AddTotal
<1>4. CASE Redeliver
  BY <1>4 DEF Redeliver, TotalInv, Before
<1>5. CASE Persist
  <2>1. step' = "persisted"
    BY <1>5, AcceptedStorable DEF Persist
  <2> QED
    BY <1>5, <2>1 DEF Persist, TotalInv, Before
<1>6. CASE UNCHANGED totalVars
  BY <1>6 DEF totalVars, TotalInv, Before
<1> QED
  BY <1>1, <1>2, <1>3, <1>4, <1>5, <1>6 DEF TotalNext

LEMMA TotalInvPayable ==
  ASSUME ConstantsFit, TotalInv
  PROVE  AcceptedIsPayable
<1>1. ASSUME step = "persisted"
      PROVE  Payable(totalAmount) /\ totalAmount = totals[Len(lines)]
  <2>1. Len(lines) \in Nat /\ Len(lines) # 0 /\ at = Len(lines)
    BY <1>1 DEF TotalInv
  <2>2. totalAmount = totals[Len(lines)]
    BY <2>1 DEF TotalInv, Before
  <2>3. totals[Len(lines)] \in 1 .. MaxMoneyAmountInCents
    BY <2>1, TotalInRange
  <2> QED
    BY <2>2, <2>3 DEF Payable, ConstantsFit
<1> QED
  BY <1>1 DEF TotalInv, AcceptedIsPayable

\* Whatever 64-bit quantities and prices a request contains, and however often
\* its message is delivered: an accepted sale satisfies every constraint of the
\* tables, has the total that the API computed, and can be paid.
\* (validateSaleRequest, persistSale, validatePaymentRequest.)
THEOREM AcceptedPayable ==
  ASSUME ConstantsFit
  PROVE  TotalSpec => []AcceptedIsPayable
<1>1. TotalInit => TotalInv
  BY InitTotal
<1>2. TotalInv /\ [TotalNext]_totalVars => TotalInv'
  BY StepTotal
<1>3. TotalInv => AcceptedIsPayable
  BY TotalInvPayable
<1> QED
  BY <1>1, <1>2, <1>3, PTL DEF TotalSpec

-----------------------------------------------------------------------------
(***************************************************************************)
(* The rate limiter never overdraws a bucket, and answers like one that     *)
(* never forgets a visitor, for every number of clients, spellings and      *)
(* waiting requests and for every burst, price, time to live and wait that  *)
(* satisfy the assumptions.  TypeOK is inductive: it says that a bucket was *)
(* last drawn from at most MaxWait after the time at which its visitor is   *)
(* said to have been seen, which with TtlAssumption makes every forgotten   *)
(* bucket a full one.                                                       *)
(***************************************************************************)
USE ClientOfAssumption, BucketAssumption, TimeAssumption, IdleAssumption

\* The tokens of a bucket of the past stay within its capacity.
LEMMA TokensInRange ==
  ASSUME NEW v \in Visitor, now \in Nat, v.last <= now
  PROVE  Tokens(v) \in 0 .. Capacity
<1>1. v.tokens \in 0 .. Capacity /\ v.last \in Nat /\ Capacity \in Nat
  BY DEF Visitor
<1> QED
  BY <1>1 DEF Tokens, Min2

\* What Allow makes of a visitor is a visitor seen at the time of the request.
LEMMA ChargedVisitor ==
  ASSUME NEW v \in Visitor, now \in Nat, v.last <= now
  PROVE  /\ Charge(v) \in Visitor
         /\ Charge(v).lastSeen = v.lastSeen
         /\ Charge(v).last \in {v.last, now}
<1>1. Tokens(v) \in 0 .. Capacity
  BY TokensInRange
<1>2. CASE Affordable(v)
  <2>1. Tokens(v) - Cost \in 0 .. Capacity
    BY <1>1, <1>2 DEF Affordable
  <2> QED
    BY <1>2, <2>1 DEF Charge, Visitor
<1>3. CASE ~Affordable(v)
  BY <1>3 DEF Charge
<1> QED
  BY <1>2, <1>3

LEMMA InitTypeOK == LimiterInit => TypeOK
BY DEF LimiterInit, TypeOK, Waiting

\* The visitor that Allow finds or makes.
Visited(r) ==
  LET t == request[r].now
      key == request[r].client
  IN Seen(IF key \in Remembered(t) THEN limiters[key] ELSE NewVisitor(t), t)

LEMMA VisitedVisitor ==
  ASSUME TypeOK, NEW r \in Request, Waiting(r)
  PROVE  /\ request[r].client \in Client
         /\ request[r].now \in Nat
         /\ Visited(r) \in Visitor
         /\ Visited(r).last <= now
         /\ Visited(r).lastSeen = request[r].now
         /\ now <= Visited(r).lastSeen + MaxWait
<1>1. request[r] \in [client : Client, now : Nat] /\ now \in Nat
  BY DEF TypeOK, Waiting
<1>2. now - request[r].now <= MaxWait /\ request[r].now <= now
  BY DEF TypeOK
<1> DEFINE t == request[r].now
           key == request[r].client
<1>3. CASE key \in Remembered(t)
  <2>1. limiters[key] \in Visitor /\ limiters[key].last <= now
    BY <1>3 DEF TypeOK, Remembered
  <2> QED
    BY <1>1, <1>2, <1>3, <2>1 DEF Visited, Seen, Visitor
<1>4. CASE key \notin Remembered(t)
  <2>1. NewVisitor(t) \in Visitor /\ NewVisitor(t).last = now
    BY <1>1 DEF NewVisitor, Visitor
  <2> QED
    BY <1>1, <1>2, <1>4, <2>1 DEF Visited, Seen, Visitor
<1> QED
  BY <1>3, <1>4

LEMMA AllowTypeOK ==
  ASSUME TypeOK, NEW r \in Request, Allow(r)
  PROVE  TypeOK'
<1> DEFINE t == request[r].now
           key == request[r].client
<1>1. Waiting(r) /\ now' = now /\ request' = [request EXCEPT ![r] = Idle]
  BY DEF Allow
<1>2. /\ limiters' = [c \in Remembered(t) \cup {key} |->
                        IF c = key THEN Charge(Visited(r)) ELSE limiters[c]]
      /\ answer' = [client |-> key, allowed |-> Affordable(Visited(r))]
  BY DEF Allow, Visited
<1>3. now \in Nat
  BY DEF TypeOK
<1>4. /\ Charge(Visited(r)) \in Visitor
      /\ Charge(Visited(r)).last <= now
      /\ Charge(Visited(r)).last <= Charge(Visited(r)).lastSeen + MaxWait
  <2>1. /\ Charge(Visited(r)) \in Visitor
        /\ Charge(Visited(r)).lastSeen = Visited(r).lastSeen
        /\ Charge(Visited(r)).last \in {Visited(r).last, now}
    BY <1>1, <1>3, VisitedVisitor, ChargedVisitor
  <2>2. Visited(r).last \in Nat /\ Visited(r).lastSeen \in Nat
    BY <1>1, VisitedVisitor DEF Visitor
  <2> QED
    BY <1>1, <1>3, <2>1, <2>2, VisitedVisitor
<1>5. key \in Client
  BY <1>1, VisitedVisitor
<1>6. DOMAIN limiters' \subseteq Client
  BY <1>2, <1>5 DEF TypeOK, Remembered
<1>7. ASSUME NEW c \in DOMAIN limiters'
      PROVE  /\ limiters'[c] \in Visitor
             /\ limiters'[c].last <= now'
             /\ limiters'[c].last <= limiters'[c].lastSeen + MaxWait
  <2>1. CASE c = key
    BY <1>1, <1>2, <1>4, <2>1
  <2>2. CASE c # key
    <3>1. c \in DOMAIN limiters /\ limiters'[c] = limiters[c]
      BY <1>2, <1>7, <2>2 DEF Remembered
    <3> QED
      BY <1>1, <3>1 DEF TypeOK
  <2> QED
    BY <2>1, <2>2
<1>8. answer' \in {NoAnswer} \cup [client : Client, allowed : BOOLEAN]
  <2>1. Affordable(Visited(r)) \in BOOLEAN
    BY DEF Affordable
  <2> QED
    BY <1>2, <1>5, <2>1
<1>9. /\ request' \in [Request -> {Idle} \cup [client : Client, now : Nat]]
      /\ \A q \in Request : Waiting(q)' =>
           /\ request'[q].now <= now'
           /\ now' - request'[q].now <= MaxWait
  BY <1>1 DEF TypeOK, Waiting
<1> QED
  BY <1>1, <1>6, <1>7, <1>8, <1>9 DEF TypeOK

LEMMA NextTypeOK == TypeOK /\ [LimiterNext]_vars => TypeOK'
<1> SUFFICES ASSUME TypeOK, [LimiterNext]_vars PROVE TypeOK'
  OBVIOUS
<1>1. CASE Tick
  BY <1>1 DEF TypeOK, Tick, Waiting, Visitor
<1>2. ASSUME NEW r \in Request, Allow(r) PROVE TypeOK'
  BY <1>2, AllowTypeOK
<1>3. ASSUME NEW r \in Request, NEW a \in Address, Arrive(r, a) PROVE TypeOK'
  <2>1. now \in Nat /\ [client |-> ClientOf[a], now |-> now]
                          \in [client : Client, now : Nat]
    BY DEF TypeOK
  <2> QED
    BY <1>3, <2>1 DEF TypeOK, Arrive, Waiting
<1>4. CASE UNCHANGED vars
  BY <1>4 DEF TypeOK, vars, Waiting
<1> QED
  BY <1>1, <1>2, <1>3, <1>4 DEF LimiterNext

\* No bucket is ever overdrawn or overfull, and its last draw lies at most
\* MaxWait after the recorded visit (rate_limit.go, allow and prune).
THEOREM LimiterTypeCorrect == LimiterSpec => []TypeOK
BY InitTypeOK, NextTypeOK, PTL DEF LimiterSpec

-----------------------------------------------------------------------------
\* The level of a client's bucket, as the refinement mapping gives it.
Level(c) == IF c \in DOMAIN limiters THEN Tokens(limiters[c]) ELSE Capacity

\* prune forgets full buckets only.
LEMMA ForgottenIsFull ==
  ASSUME TypeOK, NEW r \in Request, Waiting(r),
         NEW c \in DOMAIN limiters, c \notin Remembered(request[r].now)
  PROVE  Tokens(limiters[c]) = Capacity
<1>1. /\ limiters[c] \in Visitor
      /\ limiters[c].last <= limiters[c].lastSeen + MaxWait
  BY DEF TypeOK
<1>2. request[r].now \in Nat /\ request[r].now <= now /\ now \in Nat
  BY DEF TypeOK, Waiting
<1>3. request[r].now - limiters[c].lastSeen > Ttl
  BY <1>1, <1>2 DEF Remembered, Visitor
<1>4. now - limiters[c].last >= Capacity
  BY <1>1, <1>2, <1>3, TtlAssumption DEF Visitor
<1> QED
  BY <1>1, <1>2, <1>4 DEF Tokens, Min2, Visitor

\* Allow finds the bucket at the client's level.
LEMMA VisitedLevel ==
  ASSUME TypeOK, NEW r \in Request, Waiting(r)
  PROVE  Tokens(Visited(r)) = Level(request[r].client)
<1> DEFINE t == request[r].now
           key == request[r].client
<1>0. now \in Nat /\ t \in Nat
  BY DEF TypeOK, Waiting
<1>1. CASE key \in Remembered(t)
  <2>1. limiters[key] \in Visitor /\ key \in DOMAIN limiters
    BY <1>1 DEF TypeOK, Remembered
  <2>2. /\ Visited(r).tokens = limiters[key].tokens
        /\ Visited(r).last = limiters[key].last
    BY <1>1, <2>1 DEF Visited, Seen, Visitor
  <2> QED
    BY <2>1, <2>2 DEF Level, Tokens
<1>2. CASE key \notin Remembered(t)
  <2>1. Visited(r).tokens = Capacity /\ Visited(r).last = now
    BY <1>2 DEF Visited, Seen, NewVisitor
  <2>2. Tokens(Visited(r)) = Capacity
    BY <1>0, <2>1 DEF Tokens, Min2
  <2>3. Level(key) = Capacity
    BY <1>2, ForgottenIsFull DEF Level
  <2> QED
    BY <2>2, <2>3
<1> QED
  BY <1>1, <1>2

\* A bucket whose visitor Allow does not serve keeps its level.
LEMMA OthersKeepLevel ==
  ASSUME TypeOK, NEW r \in Request, Allow(r),
         NEW c \in Client, c # request[r].client
  PROVE  Level(c)' = Level(c)
<1> DEFINE t == request[r].now
<1>1. Waiting(r) /\ now' = now
  BY DEF Allow
<1>2. /\ DOMAIN limiters' = Remembered(t) \cup {request[r].client}
      /\ c \in Remembered(t) => limiters'[c] = limiters[c]
  BY DEF Allow
<1>3. CASE c \in Remembered(t)
  <2>1. c \in DOMAIN limiters /\ c \in DOMAIN limiters'
    BY <1>2, <1>3 DEF Remembered
  <2>2. Tokens(limiters[c])' = Tokens(limiters[c])
    BY <1>1, <1>2, <1>3 DEF Tokens
  <2> QED
    BY <2>1, <2>2 DEF Level
<1>4. CASE c \in DOMAIN limiters /\ c \notin Remembered(t)
  <2>1. Tokens(limiters[c]) = Capacity
    BY <1>1, <1>4, ForgottenIsFull
  <2>2. c \notin DOMAIN limiters'
    BY <1>2, <1>4
  <2> QED
    BY <1>4, <2>1, <2>2 DEF Level
<1>5. CASE c \notin DOMAIN limiters
  <2>1. c \notin DOMAIN limiters'
    BY <1>2, <1>5 DEF Remembered
  <2> QED
    BY <1>5, <2>1 DEF Level
<1> QED
  BY <1>3, <1>4, <1>5

\* Allow charges the bucket that it serves, or leaves it as it is.
LEMMA ServedLevel ==
  ASSUME TypeOK, NEW r \in Request, Allow(r),
         NEW key \in Client, key = request[r].client
  PROVE  /\ Level(key)' = IF Level(key) >= Cost THEN Level(key) - Cost
                                                ELSE Level(key)
         /\ answer' = [client |-> key, allowed |-> Level(key) >= Cost]
<1> DEFINE v == Visited(r)
<1>1. Waiting(r) /\ now' = now
  BY DEF Allow
<1>2. /\ limiters'[key] = Charge(v) /\ key \in DOMAIN limiters'
      /\ answer' = [client |-> key, allowed |-> Affordable(v)]
  BY DEF Allow, Visited
<1>3. v \in Visitor /\ v.last <= now
  BY <1>1, VisitedVisitor
<1>4. Tokens(v) = Level(key)
  BY <1>1, VisitedLevel
<1>5. now \in Nat
  BY DEF TypeOK
<1>6. Tokens(v) \in 0 .. Capacity
  BY <1>3, <1>5, TokensInRange
<1>7. Level(key)' = Tokens(Charge(v))
  BY <1>1, <1>2 DEF Level, Tokens
<1>8. answer' = [client |-> key, allowed |-> Level(key) >= Cost]
  BY <1>2, <1>4, Zenon DEF Affordable
<1>9. CASE Affordable(v)
  <2>1. Charge(v).tokens = Tokens(v) - Cost /\ Charge(v).last = now
    BY <1>3, <1>9 DEF Charge, Visitor
  <2>2. Tokens(Charge(v)) = Tokens(v) - Cost
    BY <1>5, <1>6, <2>1 DEF Tokens, Min2
  <2>3. Level(key) >= Cost
    BY <1>4, <1>9 DEF Affordable
  <2> QED
    BY <1>4, <1>7, <1>8, <2>2, <2>3
<1>10. CASE ~Affordable(v)
  <2>1. Charge(v) = v /\ ~(Level(key) >= Cost)
    BY <1>4, <1>10 DEF Charge, Affordable
  <2>2. Level(key)' = IF Level(key) >= Cost THEN Level(key) - Cost
                                            ELSE Level(key)
    BY <1>4, <1>7, <2>1
  <2> QED
    BY <1>8, <2>2
<1> QED
  BY <1>9, <1>10

\* A tick lets one unit flow into every bucket that is not full.
LEMMA TickFills ==
  ASSUME TypeOK, Tick, NEW c \in Client
  PROVE  Level(c)' = IF Level(c) < Capacity THEN Level(c) + 1 ELSE Capacity
<1>1. now' = now + 1 /\ limiters' = limiters /\ now \in Nat
  BY DEF Tick, TypeOK
<1>2. CASE c \in DOMAIN limiters
  <2>1. limiters[c] \in Visitor /\ limiters[c].last <= now
    BY <1>2 DEF TypeOK
  <2>2. limiters[c].tokens \in 0 .. Capacity /\ limiters[c].last \in Nat
    BY <2>1 DEF Visitor
  <2>3. /\ Level(c) = Tokens(limiters[c])
        /\ Level(c)' = Tokens(limiters[c])'
    BY <1>1, <1>2 DEF Level
  <2>4. Tokens(limiters[c])' =
          Min2(Capacity, limiters[c].tokens + ((now + 1) - limiters[c].last))
    BY <1>1, Zenon DEF Tokens
  <2> QED
    BY <1>1, <2>1, <2>2, <2>3, <2>4 DEF Tokens, Min2
<1>3. CASE c \notin DOMAIN limiters
  BY <1>1, <1>3 DEF Level
<1> QED
  BY <1>2, <1>3

\* Every step of the limiter is a step of buckets that last for ever.
LEMMA StepNeverForgets ==
  TypeOK /\ [LimiterNext]_vars => [Buckets!Next]_Buckets!vars
<1> SUFFICES ASSUME TypeOK, [LimiterNext]_vars
             PROVE  Buckets!Next \/ UNCHANGED Buckets!vars
  OBVIOUS
<1> DEFINE level == [c \in Client |-> Level(c)]
<1>0. level = [c \in Client |-> IF c \in DOMAIN limiters
                                  THEN Tokens(limiters[c]) ELSE Capacity]
  BY DEF Level
<1>1. CASE Tick
  <2>1. level' = [c \in Client |-> IF level[c] < Capacity THEN level[c] + 1
                                                          ELSE Capacity]
    BY <1>1, TickFills
  <2>2. answer' = answer
    BY <1>1 DEF Tick
  <2>3. Buckets!Refill
    BY <1>0, <2>1, <2>2 DEF Buckets!Refill, Level
  <2> QED
    BY <2>3 DEF Buckets!Next
<1>2. ASSUME NEW r \in Request, Allow(r) PROVE Buckets!Next
  <2>0. Waiting(r)
    BY <1>2 DEF Allow
  <2> PICK key \in Client : key = request[r].client
    BY <2>0, VisitedVisitor
  <2>1. /\ Level(key)' = IF Level(key) >= Cost THEN Level(key) - Cost
                                               ELSE Level(key)
        /\ answer' = [client |-> key, allowed |-> Level(key) >= Cost]
    BY <1>2, ServedLevel
  <2>2. \A c \in Client : c # key => Level(c)' = Level(c)
    BY <1>2, OthersKeepLevel
  <2>3. level[key] = Level(key)
    BY <2>1
  <2>4. level' = [c \in Client |-> IF c = key THEN Level(key)' ELSE Level(c)]
    BY <2>2
  <2>5. CASE Level(key) >= Cost
    <3>1. Level(key)' = Level(key) - Cost
      BY <2>1, <2>5
    <3>2. level' = [level EXCEPT ![key] = @ - Cost]
      BY <2>3, <2>4, <3>1, Zenon
    <3>3. answer' = [client |-> key, allowed |-> TRUE]
      BY <2>1, <2>5
    <3>4. Buckets!Admit(key)
      BY <1>0, <2>3, <2>5, <3>2, <3>3 DEF Buckets!Admit, Level
    <3> QED
      BY <2>1, <3>4 DEF Buckets!Next
  <2>6. CASE ~(Level(key) >= Cost)
    <3>1. Level(key)' = Level(key)
      BY <2>1, <2>6
    <3>2. level' = level
      BY <2>4, <3>1, Zenon
    <3>3. answer' = [client |-> key, allowed |-> FALSE]
      <4> DEFINE enough == Level(key) >= Cost
      <4>1. enough \in BOOLEAN /\ ~enough
        BY <2>6
      <4>2. answer' = [client |-> key, allowed |-> enough]
        BY <2>1
      <4> HIDE DEF enough
      <4> QED
        BY <4>1, <4>2
    <3>4. Level(key) < Cost
      <4>1. now \in Nat
        BY DEF TypeOK
      <4>2. Tokens(Visited(r)) \in 0 .. Capacity
        BY <2>0, <4>1, VisitedVisitor, TokensInRange
      <4>3. Level(key) \in 0 .. Capacity
        BY <2>0, <4>2, VisitedLevel
      <4> QED
        BY <2>6, <4>3
    <3>5. Buckets!Refuse(key)
      BY <1>0, <2>3, <3>2, <3>3, <3>4 DEF Buckets!Refuse, Level
    <3> QED
      BY <2>1, <3>5 DEF Buckets!Next
  <2> QED
    BY <2>5, <2>6
<1>3. ASSUME NEW r \in Request, NEW a \in Address, Arrive(r, a)
      PROVE  UNCHANGED Buckets!vars
  BY <1>3 DEF Arrive, Buckets!vars, Tokens
<1>4. CASE UNCHANGED vars
  BY <1>4 DEF vars, Buckets!vars, Tokens
<1> QED
  BY <1>1, <1>2, <1>3, <1>4 DEF LimiterNext

LEMMA InitNeverForgets == LimiterInit => Buckets!Init
BY DEF LimiterInit, Buckets!Init

\* Although prune hands out full buckets to visitors it has forgotten, with
\* stamps that are late and out of order, every request is answered as by
\* buckets that last for ever (rate_limit.go, allow).
THEOREM LimiterNeverForgets == LimiterSpec => NeverForgets
BY InitNeverForgets, StepNeverForgets, LimiterTypeCorrect, PTL
   DEF LimiterSpec, NeverForgets, Buckets!Spec
=============================================================================
