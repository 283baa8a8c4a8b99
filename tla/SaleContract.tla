---------------------------- MODULE SaleContract ----------------------------
(***************************************************************************)
(* What the sale promises, without Redis, Streams, retries or crashes: a   *)
(* ticket is a unit of stock given to one user under one order number, and *)
(* an order is sold only against its own ticket. Neither is ever taken     *)
(* back: no code path of the repository releases a reservation.            *)
(***************************************************************************)
EXTENDS SaleBase

VARIABLES tickets, sold

Init ==
  /\ tickets = {}
  /\ sold = {}

Grant(t) ==
  /\ Cardinality(tickets) < InitialStock
  /\ \A x \in tickets : x.user # t.user /\ x.order # t.order
  /\ tickets' = tickets \cup {t}
  /\ UNCHANGED sold

Sell(t) ==
  /\ t \in tickets \ sold
  /\ sold' = sold \cup {t}
  /\ UNCHANGED tickets

Next == \E t \in Task : Grant(t) \/ Sell(t)

Spec == Init /\ [][Next]_<<tickets, sold>>
=============================================================================
