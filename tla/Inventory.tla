------------------------------ MODULE Inventory ------------------------------
(***************************************************************************)
(* inventory-rpc's own tables for the item (mysqlrepo/reservation.go).     *)
(*                                                                         *)
(* ReserveSeckillStock is one step here. It looks the order number up,     *)
(* runs one transaction and, when that ends in a duplicate key or an empty *)
(* stock, looks up the row that won. The UPDATE of the item row serialises *)
(* the transactions, a reservation is never deleted and the stock never    *)
(* grows, so every interleaving answers as if the call had happened at its *)
(* transaction.                                                            *)
(***************************************************************************)
EXTENDS SaleBase

VARIABLES
  dbStock,        \* seckill_items.available_stock
  reservations    \* seckill_inventory_reservations

inventoryVars == <<dbStock, reservations>>

InventoryTypeOK ==
  /\ dbStock \in Nat
  /\ reservations \in SUBSET Task

InventoryInit ==
  /\ dbStock = InitialStock
  /\ reservations = {}

(* What inventory-rpc tells of the item: the stock it has left. *)
ListActivityItems == dbStock

ByOrderNo(t) == {r \in reservations : r.order = t.order}

ByUserItem(t) == {r \in reservations : r.user = t.user}

(* reserveOnce commits only if no unique key rejects the row and a unit is left. *)
CommitsWithoutStockCheck(t) == ByOrderNo(t) = {} /\ ByUserItem(t) = {}

Commits(t) ==
  /\ ByOrderNo(t) = {}
  /\ ByUserItem(t) = {}
  /\ dbStock > 0

(***************************************************************************)
(* The answer: a new reservation or a replay of the caller's own is "ok";  *)
(* so is the row the same user won under another order number. The rest,   *)
(* no stock or an order number that belongs to somebody else, is rejected. *)
(***************************************************************************)
ReserveAnswer(t) ==
  IF \/ Commits(t)
     \/ t \in reservations
     \/ ByOrderNo(t) = {} /\ ByUserItem(t) # {}
  THEN "ok"
  ELSE "rejected"

(* A rollback that does not undo the UPDATE when the INSERT finds a duplicate. *)
ReserveKeepsDecrement(t) ==
  /\ reservations' = IF Commits(t) THEN reservations \cup {t} ELSE reservations
  /\ dbStock' = IF dbStock > 0 THEN dbStock - 1 ELSE dbStock

Reserve(t) ==
  \/ /\ Commits(t)
     /\ reservations' = reservations \cup {t}
     /\ dbStock' = dbStock - 1
  \/ /\ ~Commits(t)
     /\ UNCHANGED inventoryVars
=============================================================================
