------------------------------ MODULE SaleSetup -----------------------------
(***************************************************************************)
(* How a sale is set up: seckill-rpc's activities and inventory-rpc's items*)
(* with the frozen snapshot of their SKU (activity_service.go, activity.go,*)
(* inventory_item.go, item.go and their servers). What happens to an item  *)
(* from then on is the subject of SeckillSale.                             *)
(***************************************************************************)
EXTENDS Catalog

VARIABLES
  activities,    \* how many seckill_activities there are, all disabled
  saleItems      \* seckill_items

saleVars == <<activities, saleItems>>

seckillError == [ErrInvalidArgument |-> "InvalidArgument", ErrConflict |-> "AlreadyExists"]

(* Times are counted in half milliseconds; the gateway sends milliseconds. *)
UnixMilli(time) == time \div 2

InsertActivity(r) == activities' = activities + 1 /\ Written(r, 200)

CreateActivity(r, startMs, endMs) ==
  IF endMs > startMs
    THEN InsertActivity(r)
    ELSE Fail(r, seckillError, "ErrInvalidArgument") /\ UNCHANGED activities

gatewayCreateActivity(r) ==
  /\ At(r, "createActivity", "call")
  /\ CreateActivity(r, UnixMilli(Arg(r).startAt), UnixMilli(Arg(r).endAt))
  /\ UNCHANGED <<products, saleItems>>

CreateSeckillItem(r, item) ==
  IF item.activity = 0 \/ item.code = "" \/ item.stock <= 0
    THEN Fail(r, seckillError, "ErrInvalidArgument")
    ELSE GoTo(r, "resolve")

gatewayCreateSeckillItem(r) ==
  /\ At(r, "createSeckillItem", "call")
  /\ CreateSeckillItem(r, Arg(r))
  /\ UNCHANGED <<products, saleVars>>

(* product-rpc's NotFound is not named by mapInventoryError either. *)
GetActiveSKUSnapshot(r) ==
  LET found == FindActiveSKU(Arg(r).code) IN
  /\ At(r, "createSeckillItem", "resolve")
  /\ IF found = {}
       THEN Fail(r, seckillError, productError["ErrSKUNotFound"])
       ELSE Set(r, [requests[r] EXCEPT !.got = found, !.step = "store"])
  /\ UNCHANGED <<products, saleVars>>

(* The unique key (activity_id, sku_id) decides. No key refers to the       *)
(* activity, which belongs to another service.                              *)
CreateInventoryItem(r) ==
  LET new == [activity |-> Arg(r).activity, snapshot |-> CHOOSE s \in requests[r].got : TRUE,
              stock |-> Arg(r).stock]
      taken == \E i \in saleItems :
                 i.activity = new.activity /\ i.snapshot.code = new.snapshot.code
  IN /\ At(r, "createSeckillItem", "store")
     /\ IF taken
          THEN Fail(r, seckillError, "ErrConflict") /\ UNCHANGED saleItems
          ELSE saleItems' = saleItems \cup {new} /\ Written(r, 200)
     /\ UNCHANGED <<products, activities>>

SaleSetupStep(r) ==
  \/ gatewayCreateActivity(r) \/ gatewayCreateSeckillItem(r)
  \/ GetActiveSKUSnapshot(r) \/ CreateInventoryItem(r)
=============================================================================
