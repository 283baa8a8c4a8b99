------------------------------- MODULE Gateway ------------------------------
(***************************************************************************)
(* The public API of v0.5 and the services behind it: every route of       *)
(* gateway_rpc.go and notification_rpc.go but the ones of the sale itself, *)
(* which SeckillSale models. Requests interleave statement by statement.   *)
(***************************************************************************)
EXTENDS Accounts, Inbox, SaleSetup

CONSTANTS
  Root,         \* the first administrator, made one by hand
  Inputs(_)     \* bounds: what the requests for an operation may ask for

ASSUME RootAssumption == Root \in Users

(* What decoding a body leaves of it: lists, strings and numbers. *)
ASSUME InputsAssumption ==
  /\ \A arg \in Inputs("replaceRoles") : arg.target \in Users
  /\ \A arg \in Inputs("createProduct") :
       arg.name \in STRING /\ arg.skus \in Seq([code : STRING, price : Int])
  /\ \A arg \in Inputs("updateProduct") : arg.name \in STRING
  /\ \A arg \in Inputs("createOrder") : arg.items \in Seq([code : STRING, quantity : Int])
  /\ \A arg \in Inputs("listProducts") \cup Inputs("listNotifications") : arg.page \in Int

VARIABLE history  \* of each request: what has been true since it arrived

shopVars == <<products, orders, readAt, saleVars>>
vars == <<requestVars, accountVars, shopVars, history>>

-----------------------------------------------------------------------------
(* What is asked. *)

(* Who reads the catalog does not matter. *)
Askers(op) == IF op \in {"listProducts", "getProduct"} THEN {Root} ELSE Users

Ask(r) ==
  \E op \in menu.ops : \E u \in Askers(op), arg \in Inputs(op) :
    Arrive(r, op, u, arg) /\ UNCHANGED <<accountVars, shopVars>>

-----------------------------------------------------------------------------
(* An installation with one administrator, two products and one order with  *)
(* its notification. Somebody else may have an account, be an administrator *)
(* too, or be disabled.                                                     *)

Somebody ==
  {[account |-> "absent", token |-> "none", roles |-> {}],
   [account |-> "active", token |-> "valid", roles |-> {}],
   [account |-> "active", token |-> "valid", roles |-> Roles],
   [account |-> "disabled", token |-> "valid", roles |-> {"customer"}]}

Forgotten == [held |-> FALSE, offers |-> {}]

ShopInit ==
  /\ RequestInit
  /\ \E s \in Somebody :
       /\ accounts = [u \in Users |-> IF u = Root THEN "active" ELSE s.account]
       /\ tokens = [u \in Users |-> IF u = Root THEN "valid" ELSE s.token]
       /\ roles = [u \in Users |-> IF u = Root THEN {"admin"} ELSE s.roles]
  /\ products = <<[name |-> "old", status |-> StatusActive, skus |-> <<[code |-> "a", price |-> 3]>>],
                  [name |-> "old", status |-> StatusActive, skus |-> <<[code |-> "b", price |-> 2]>>]>>
  /\ orders = <<[user |-> Root, total |-> 3, lines |->
                   <<[snapshot |-> [code |-> "a", name |-> "old", price |-> 3],
                      quantity |-> 1, subtotal |-> 3]>>]>>
  /\ readAt = [n \in {1} |-> 0]
  /\ activities = 0 /\ saleItems = {}
  /\ history = [r \in Slots |-> Forgotten]

-----------------------------------------------------------------------------
(* History: the permission a request needs was held, and these snapshots    *)
(* were on offer, at some time since it arrived.                            *)

Asks(r, ops) == Busy(r) /\ requests[r].op \in ops

HoldsNow(r) == Asks(r, AdminOps) /\ HasPermission(requests[r].user, Permission[requests[r].op])
OffersNow(r) == IF Asks(r, {"createOrder", "createSeckillItem"}) THEN SnapshotsOf(Active) ELSE {}

Remember ==
  history' = [r \in Slots |->
    LET old == IF Busy(r)' /\ ~Busy(r) THEN Forgotten ELSE history[r]
    IN [held |-> old.held \/ HoldsNow(r)',
        offers |-> IF Busy(r)' THEN old.offers \cup OffersNow(r)' ELSE {}]]

-----------------------------------------------------------------------------
(* The specification. *)

Serve(r) ==
  \/ AccountsStep(r) /\ UNCHANGED shopVars
  \/ CatalogStep(r) /\ UNCHANGED <<accountVars, orders, readAt, saleVars>>
  \/ CheckoutStep(r) /\ UNCHANGED <<accountVars, readAt, saleVars>>
  \/ InboxStep(r) /\ UNCHANGED <<accountVars, saleVars>>
  \/ SaleSetupStep(r) /\ UNCHANGED <<accountVars, orders, readAt>>
  \/ (Breaks(r) \/ GiveUp(r)) /\ UNCHANGED <<accountVars, shopVars>>

Consume == \E id \in DOMAIN orders : Deliver(id) /\ UNCHANGED <<accountVars, saleVars>>

(* Nothing more is asked. *)
Quiet ==
  /\ arrived = menu.requests /\ \A r \in Slots : ~Busy(r)
  /\ UNCHANGED vars

ShopNext ==
  \/ /\ \/ \E r \in Slots : Ask(r)
        \/ (\E r \in Slots : Serve(r)) /\ UNCHANGED <<arrived, menu>>
        \/ Consume /\ UNCHANGED <<arrived, menu>>
     /\ Remember
  \/ Quiet

ShopSpec == ShopInit /\ [][ShopNext]_vars

-----------------------------------------------------------------------------
(* Properties. *)

(* Every table and request keeps its type, and no page asked of MySQL is 0  *)
(* (its OFFSET would be negative), whatever the client asked for.           *)
ShopTypeOK ==
  /\ AccountsTypeOK
  /\ arrived \in 0 .. menu.requests
  /\ \A r \in Slots : requests[r].step \in Steps \cup {"idle"}
                      /\ requests[r].answer \in {0, 200, 400, 401, 403, 404, 409, 500, 503, 504}
  /\ \A r \in Slots : requests[r].step = "rows" => requests[r].got \subseteq 1 .. PageLimit
  /\ \A p \in Range(products) : p.status \in {StatusActive, StatusInactive}
  /\ \A o \in Range(orders) : o.user \in Users /\ o.total \in Int
  /\ Delivered \subseteq DOMAIN orders
  /\ activities \in Nat

(* 200 for a change means that the change is committed, and after any 4xx   *)
(* this request has written nothing, in whichever statement it was refused. *)
(* A 5xx leaves it open. Nothing is said of the reason given: a 404 may     *)
(* also mean that the row was as asked for already (a notification marked   *)
(* read again, a product or status left as it is).                          *)
AnswersAreTrue ==
  \A r \in Slots :
    LET q == requests[r] IN
    q.step = "done" =>
      /\ q.answer = 200 /\ q.op \in (AdminOps \cup {"register", "login", "createOrder", "markRead"})
           => q.wrote
      /\ q.answer \in 400 .. 499 => ~q.wrote

(* Roles are read for every request and never cached: what only an          *)
(* administrator may change was changed by somebody who held the permission *)
(* at some moment after asking, however roles were replaced meanwhile.      *)
ActedWithPermission ==
  \A r \in Slots : requests[r].wrote /\ requests[r].op \in AdminOps => history[r].held

(* Concurrent replacements of a user's roles never mix: whenever the roles  *)
(* change they become the set that one request asked for, never the union   *)
(* of two and never the empty set in between.                               *)
RolesAsRequested ==
  [][\A u \in Users : roles'[u] # roles[u] =>
       \E r \in Slots : /\ At(r, "replaceRoles", "assign")
                        /\ Arg(r).target = u /\ Requested(r) = roles'[u]]_vars

(* An order and a sale item are made only of what was for sale: each of     *)
(* their snapshots was on offer, with that name and price, at some moment   *)
(* after the request arrived, although they are fetched one by one while    *)
(* the catalog changes.                                                     *)
OffersOnly ==
  \A r \in Slots :
    Asks(r, {"createOrder", "createSeckillItem"}) =>
      requests[r].got \subseteq history[r].offers

(* What the lines of an order add up to, line by line. *)
ExactTotals(lines) ==
  LET sums[n \in 0 .. Len(lines)] == IF n = 0 THEN 0 ELSE sums[n - 1] + lines[n].subtotal
  IN sums

(* No order's amount has wrapped around: subtotals and total are the exact  *)
(* products and sum of its lines.                                           *)
TotalsExact ==
  \A o \in Range(orders) :
    /\ \A i \in DOMAIN o.lines :
         o.lines[i].subtotal = o.lines[i].snapshot.price * o.lines[i].quantity
    /\ o.total = ExactTotals(o.lines)[Len(o.lines)]

(* A notification is marked by its owner only, and the time of the first    *)
(* reading is never overwritten, even by two requests at once.              *)
ReadOnce ==
  [][\A id \in Delivered : readAt'[id] # readAt[id] =>
       /\ readAt[id] = 0
       /\ \E r \in Slots : At(r, "markRead", "call") /\ requests[r].user = orders[id].user]_vars

(* A product appears with all SKUs of its request or not at all, and two    *)
(* concurrent requests never bring the same SKU code into the catalog.      *)
CatalogWhole ==
  /\ \A i, j \in DOMAIN products : i # j => Codes(products[i]) \cap Codes(products[j]) = {}
  /\ \A i \in DOMAIN products : Cardinality(Codes(products[i])) = Len(products[i].skus)
=============================================================================
