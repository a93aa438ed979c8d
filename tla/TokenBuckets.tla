---------------------------- MODULE TokenBuckets ----------------------------
(***************************************************************************)
(* What a limit on requests promises to its clients: everybody owns one     *)
(* bucket of tokens for ever, which fills up with time; a request is let    *)
(* in and pays while the bucket holds its price, and refused otherwise.     *)
(*                                                                          *)
(* The detailed specification, which forgets the clients it has not seen    *)
(* for a while, is RateLimiter.                                             *)
(***************************************************************************)
EXTENDS Integers

CONSTANTS
  Client,
  Capacity,     \* what a full bucket holds
  Cost,         \* the price of a request; one unit flows in per tick
  NoAnswer

VARIABLES
  level,        \* [Client -> units in the bucket]
  answer        \* the last answer given, with its client

vars == <<level, answer>>

Init ==
  /\ level = [c \in Client |-> Capacity]
  /\ answer = NoAnswer

Refill ==
  /\ level' = [c \in Client |->
                IF level[c] < Capacity THEN level[c] + 1 ELSE Capacity]
  /\ UNCHANGED answer

Admit(c) ==
  /\ level[c] >= Cost
  /\ level' = [level EXCEPT ![c] = @ - Cost]
  /\ answer' = [client |-> c, allowed |-> TRUE]

Refuse(c) ==
  /\ level[c] < Cost
  /\ answer' = [client |-> c, allowed |-> FALSE]
  /\ UNCHANGED level

Next ==
  \/ Refill
  \/ \E c \in Client : Admit(c) \/ Refuse(c)

Spec == Init /\ [][Next]_vars
=============================================================================
