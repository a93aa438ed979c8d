----------------------------- MODULE MCRowLocks -----------------------------
EXTENDS RowLocks, TLC

CONSTANTS n1, n2, n3, s1, s2, e, c, d, t1, t2

\* Sales of two customers for one event, which name two ticket types in opposite
\* orders.
MCEvent == [s \in Sale |-> e]
MCCustomer == s1 :> c @@ s2 :> d
MCLines == s1 :> <<t1, t2>> @@ s2 :> <<t2, t1>>
Symmetry == Permutations({n1, n2, n3})
=============================================================================
