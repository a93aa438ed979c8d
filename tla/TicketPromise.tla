---------------------------- MODULE TicketPromise ----------------------------
(***************************************************************************)
(* What the service promises to somebody who pays and to the staff at the   *)
(* door: a payment settles, once and for good, which tickets a sale is      *)
(* worth; only these are issued, however often the announcement of the      *)
(* payment is delivered; and an issued ticket lets one person in.           *)
(*                                                                          *)
(* The detailed specification is SalesSystem.                               *)
(***************************************************************************)
EXTENDS Integers

CONSTANTS
  Sale,         \* sales that a behaviour may contain
  Unit,         \* the single tickets that may be printed
  UnitsOf(_)    \* those that may belong to a sale

VARIABLES
  paid,         \* [Sale -> the units that its payment settled, {} before it]
  issued,       \* units whose QR codes exist
  admitted      \* [Unit -> how many people it let in]

vars == <<paid, issued, admitted>>

Init ==
  /\ paid     = [s \in Sale |-> {}]
  /\ issued   = {}
  /\ admitted = [u \in Unit |-> 0]

Pay(s, units) ==
  /\ paid[s] = {}
  /\ units \subseteq UnitsOf(s)
  /\ paid' = [paid EXCEPT ![s] = units]
  /\ UNCHANGED <<issued, admitted>>

\* All tickets of a sale, in one transaction.
Issue(s) ==
  /\ paid[s] # {}
  /\ issued' = issued \cup paid[s]
  /\ UNCHANGED <<paid, admitted>>

Admit(u) ==
  /\ u \in issued
  /\ admitted[u] = 0
  /\ admitted' = [admitted EXCEPT ![u] = 1]
  /\ UNCHANGED <<paid, issued>>

Next ==
  \/ \E s \in Sale : Issue(s) \/ \E units \in SUBSET UnitsOf(s) : Pay(s, units)
  \/ \E u \in Unit : Admit(u)

Spec == Init /\ [][Next]_vars
=============================================================================
