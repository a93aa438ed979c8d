------------------------------ MODULE SaleTotal ------------------------------
(***************************************************************************)
(* The total of a sale, computed twice: by validateSaleRequest, which has to *)
(* keep it within what the service handles, and by persistSale, which trusts *)
(* the lines it gets and leaves the rest to the CHECK constraints of the     *)
(* tables.  A request is decoded into integers of 64 bits, of any value, and *)
(* Go's arithmetic wraps around.                                             *)
(*                                                                          *)
(* The code's constants (internal/events/events.go, migrations/00001) are    *)
(* beyond TLC's integers of 32 bits: what they have to satisfy is            *)
(* ConstantsFit, and ApiProofs proves the rest for all that do.              *)
(***************************************************************************)
EXTENDS Integers, Sequences

CONSTANTS
  MaxMoneyAmountInCents,  \* 10^9
  MaxTicketQuantity,      \* 10^6
  MaxStoredAmount,        \* 10^9: the CHECK constraints on amounts
  MaxInteger,             \* 2^31 - 1: INTEGER in the tables
  HalfWord                \* 2^63: int in Go

\* The limits of the API are not above those of the tables, and a word holds
\* what two bounded numbers multiply to, added to a bounded total.
ConstantsFit ==
  /\ MaxMoneyAmountInCents \in Nat /\ MaxTicketQuantity \in Nat
  /\ MaxStoredAmount \in Nat /\ MaxInteger \in Nat /\ HalfWord \in Nat
  /\ MaxMoneyAmountInCents <= MaxStoredAmount
  /\ MaxTicketQuantity <= MaxInteger
  /\ MaxTicketQuantity * MaxMoneyAmountInCents + MaxMoneyAmountInCents < HalfWord

\* Go's int: two's complement.
Word == (-HalfWord) .. (HalfWord - 1)
Wrap(n) == ((n + HalfWord) % (2 * HalfWord)) - HalfWord

Line == [quantity : Word, unitPrice : Word]

VARIABLES
  step,         \* "validate", "refused", "published", "persisted", "violation"
  lines,        \* the lines that passed the loop of validateSaleRequest
  totals,       \* its totalAmount after each of them
  at,           \* how many of them persistSale has added up
  totalAmount   \* its totalAmount after these

totalVars == <<step, lines, totals, at, totalAmount>>

TotalInit ==
  /\ step = "validate"
  /\ lines = <<>> /\ totals = <<>>
  /\ at = 0 /\ totalAmount = 0

Amount(line) == Wrap(line.quantity * line.unitPrice)
Before(i) == IF i = 1 THEN 0 ELSE totals[i - 1]
SoFar == Before(Len(lines) + 1)

\* The order matters: only a line within its bounds is multiplied.
LineAccepted(line) ==
  /\ line.quantity > 0 /\ line.quantity <= MaxTicketQuantity
  /\ line.unitPrice > 0 /\ line.unitPrice <= MaxMoneyAmountInCents
  /\ ~(SoFar > Wrap(MaxMoneyAmountInCents - Amount(line)))

\* A line that passes may still be refused: for its ticket, stock or price.
ValidateLine(line) ==
  /\ step = "validate"
  /\ \/ /\ LineAccepted(line)
        /\ lines' = Append(lines, line)
        /\ totals' = Append(totals, Wrap(SoFar + Amount(line)))
        /\ UNCHANGED step
     \/ /\ step' = "refused"
        /\ UNCHANGED <<lines, totals>>
  /\ UNCHANGED <<at, totalAmount>>

\* validateSaleRequest returns nil, and sale.created is published.
Publish ==
  /\ step = "validate" /\ lines # <<>>
  /\ step' = "published"
  /\ UNCHANGED <<lines, totals, at, totalAmount>>

\* The first loop of persistSale.
AddLine ==
  /\ step = "published" /\ at < Len(lines)
  /\ at' = at + 1
  /\ totalAmount' = Wrap(totalAmount + Amount(lines[at + 1]))
  /\ UNCHANGED <<step, lines, totals>>

\* The message is delivered again.
Redeliver ==
  /\ step = "published"
  /\ at' = 0 /\ totalAmount' = 0
  /\ UNCHANGED <<step, lines, totals>>

\* The CHECK constraints of sales, sale_items and payments.
Storable ==
  /\ totalAmount >= 0 /\ totalAmount <= MaxStoredAmount
  /\ \A i \in DOMAIN lines :
       /\ lines[i].quantity > 0 /\ lines[i].quantity <= MaxInteger
       /\ lines[i].unitPrice > 0 /\ lines[i].unitPrice <= MaxStoredAmount

\* The INSERTs of persistSale.
Persist ==
  /\ step = "published" /\ at = Len(lines)
  /\ step' = IF Storable THEN "persisted" ELSE "violation"
  /\ UNCHANGED <<lines, totals, at, totalAmount>>

TotalNext ==
  \/ \E line \in Line : ValidateLine(line)
  \/ Publish \/ AddLine \/ Redeliver \/ Persist

TotalSpec == TotalInit /\ [][TotalNext]_totalVars

-----------------------------------------------------------------------------
\* validatePaymentRequest and validateCreatePaymentIntentRequest.
Payable(amount) == amount > 0 /\ amount <= MaxMoneyAmountInCents

\* A sale that the API has accepted is never refused by the tables, which would
\* send its message to the dead letters; its total is the one the API computed,
\* without overflow, and can be paid: processPaymentTx and CreatePaymentIntent
\* ask for exactly this amount, and their validation lets it pass.
AcceptedIsPayable ==
  /\ step # "violation"
  /\ step = "persisted" => /\ Payable(totalAmount)
                           /\ totalAmount = totals[Len(lines)]
  /\ \A i \in DOMAIN lines :
       totals[i] = Before(i) + lines[i].quantity * lines[i].unitPrice
=============================================================================
