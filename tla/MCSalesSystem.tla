---------------------------- MODULE MCSalesSystem ----------------------------
(***************************************************************************)
(* Instances of SalesSystem for TLC: two units of each ticket type, so that *)
(* one sale may take two of them (when it is reopened) or two sales one.    *)
(***************************************************************************)
EXTENDS SalesSystem, TLC

CONSTANTS Quantities,   \* as in MCSales
          FurtherLines

MCRequests ==
  [kept : [Ticket -> Quantities \cup {0}], rest : [Ticket -> FurtherLines]]

MCStock == [t \in Ticket |-> 2]

\* Nothing distinguishes workers, gates or sales; used without liveness only.
Symmetry == Permutations(Sale) \cup Permutations(Worker) \cup Permutations(Gate)
=============================================================================
