------------------------------ MODULE OrderBook ------------------------------
(***************************************************************************)
(* order-rpc's own tables (order/mysqlrepo/repository.go): seckill orders  *)
(* and the Outbox rows the same transaction writes.                        *)
(*                                                                         *)
(* CreateIdempotent is one transaction whose INSERT lets the unique key    *)
(* on order_no choose the winner, so it is one step.                       *)
(***************************************************************************)
EXTENDS SaleBase

VARIABLES
  orders,    \* orders, with their items
  outbox     \* order_outbox_events, by aggregate_key

orderVars == <<orders, outbox>>

OrderTypeOK ==
  /\ orders \in SUBSET Task
  /\ outbox \in SUBSET OrderNos

OrderInit ==
  /\ orders = {}
  /\ outbox = {}

Taken(t) == \E x \in orders : x.order = t.order

(* A replay of the same payload succeeds; another payload is a conflict. *)
CreateAnswer(t) == IF Taken(t) /\ t \notin orders THEN "conflict" ELSE "ok"

(* The event is written outside the transaction and may be lost. *)
CreateWithoutOutbox(t) ==
  /\ orders' = IF Taken(t) THEN orders ELSE orders \cup {t}
  /\ UNCHANGED outbox

CreateOrder(t) ==
  \/ /\ ~Taken(t)
     /\ orders' = orders \cup {t}
     /\ outbox' = outbox \cup {t.order}
  \/ /\ Taken(t)
     /\ UNCHANGED orderVars
=============================================================================
