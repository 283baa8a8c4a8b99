------------------------------ MODULE SaleBase ------------------------------
(***************************************************************************)
(* What every part of the flash sale of one activity item shares: who      *)
(* buys, the order numbers seckill-rpc generates, and the task that        *)
(* travels from the Redis admission script through the Stream to           *)
(* inventory-rpc and order-rpc.                                            *)
(*                                                                         *)
(* One item is enough: every Redis key, Stream and row of the sale carries *)
(* the item's id, and no script or statement of the path touches two items.*)
(***************************************************************************)
EXTENDS Naturals, FiniteSets

CONSTANTS
  Users,         \* the buyers
  OrderNos,      \* the order numbers newStreamOrderNo can return, each once
  InitialStock   \* seckill_items.available_stock when the sale is set up

ASSUME SaleAssumption ==
  /\ IsFiniteSet(Users)
  /\ IsFiniteSet(OrderNos)
  /\ InitialStock \in Nat

(***************************************************************************)
(* The business content of a Stream message and of both write RPCs. The    *)
(* activity, the item, the reservation time and the frozen SKU snapshot    *)
(* are the same in every message that carries the same order number, so    *)
(* they tell no two messages apart.                                        *)
(***************************************************************************)
Task == [order : OrderNos, user : Users]
=============================================================================
