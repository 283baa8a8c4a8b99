----------------------------- MODULE MCGateway ------------------------------
(* Gateway on a small instance: slots are interchangeable.                  *)
EXTENDS Gateway, TLC

Symmetry == Permutations(Slots)

MCGrants ==
  [admin |-> {"rbac:manage", "product:write", "seckill:write"}, customer |-> {}]

(* What is asked. *)
SKU(code, price) == [code |-> code, price |-> price]

Item(code, quantity) == [code |-> code, quantity |-> quantity]

Carts ==
  {<<>>, <<Item("", 1)>>, <<Item("a", 0)>>, <<Item("a", MaxQuantity)>>,
   <<Item("a", 1), Item("a", 1)>>, <<Item("a", 1), Item("b", 1)>>,
   <<Item("a", 2), Item("b", 1)>>}

Goods(activity, code, units) ==
  [activity |-> activity, code |-> code, stock |-> units]

NewSKUs ==
  {<<>>, <<SKU("c", 1), SKU("d", 1)>>, <<SKU("d", 1), SKU("c", 1)>>,
   <<SKU("c", -1)>>, <<SKU("c", 1), SKU("c", 1)>>, <<SKU("a", 1)>>}

MCInputs(op) ==
  CASE op \in {"register", "login"} -> [valid : BOOLEAN]
    [] op = "currentUser" -> {<<>>}
    [] op = "replaceRoles" ->
         [target : Users,
          roles : {<<>>, <<"customer">>, <<"admin", "admin">>, <<"unknown">>}]
    [] op = "createProduct" -> [name : {"new"}, skus : NewSKUs]
    [] op = "updateProduct" ->
         {[product |-> 0, name |-> "new"], [product |-> 9, name |-> "new"],
          [product |-> 1, name |-> "old"], [product |-> 1, name |-> "new"]}
    [] op = "updateProductStatus" -> [product : {1}, status : 1 .. 3]
    [] op = "getProduct" -> [product : {1, 9}]
    [] op = "createOrder" -> [items : Carts]
    [] op = "getOrder" -> [order : {1, 2}]
    [] op = "markRead" -> [order : {0, 1, 2}]
    [] op \in {"listProducts", "listNotifications"} -> [page : {0, 1, PageLimit}]
    [] op = "createActivity" -> [startAt : {0}, endAt : {1, 2}]
    [] op = "createSeckillItem" ->
         {Goods(0, "a", 1), Goods(1, "", 1), Goods(1, "a", 0), Goods(1, "a", 1),
          Goods(1, "z", 1)}

(* The operations that touch the same tables or rights, a group at a time,  *)
(* and of the ones that undo each other a third request.                    *)
MCMenus ==
  {[requests |-> 2, ops |->
      {"register", "login", "currentUser", "replaceRoles", "updateProductStatus"}],
   [requests |-> 2, ops |->
      {"createProduct", "updateProduct", "updateProductStatus", "listProducts",
       "getProduct", "createOrder", "createActivity", "createSeckillItem"}],
   [requests |-> 2, ops |-> {"createOrder", "getOrder", "listNotifications", "markRead"}],
   [requests |-> 3, ops |-> {"markRead"}],
   [requests |-> 3, ops |-> {"replaceRoles"}]}
=============================================================================
