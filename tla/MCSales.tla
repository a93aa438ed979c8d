------------------------------- MODULE MCSales -------------------------------
(***************************************************************************)
(* Instances of Sales for TLC.  Each ticket type has a stock that two sales *)
(* can exhaust, so that a reservation the API accepted may be refused.      *)
(***************************************************************************)
EXTENDS Sales

CONSTANTS Quantities,   \* quantities of the first line of a ticket
          FurtherLines  \* totals of its other lines: {0} when tickets differ

\* Every body over one quantity and one further total for each ticket.
MCRequests ==
  [kept : [Ticket -> Quantities \cup {0}], rest : [Ticket -> FurtherLines]]

\* Three units of each ticket type.
MCStock == [t \in Ticket |-> 3]
=============================================================================
