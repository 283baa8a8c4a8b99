------------------------------ MODULE Checkout ------------------------------
(***************************************************************************)
(* order-rpc's ordinary orders (order.go, its repository and server): the  *)
(* lines are checked, every SKU's snapshot is fetched from product-rpc in  *)
(* turn, and order, lines and event are committed together. An order's ID  *)
(* is its place in orders; order numbers are random and never meet.        *)
(***************************************************************************)
EXTENDS Catalog

CONSTANTS
  MaxInt,         \* math.MaxInt64
  MaxQuantity     \* 100, the most of one SKU in an order

ASSUME CheckoutAssumption == MaxInt \in Nat /\ MaxQuantity \in Nat \ {0}

VARIABLE orders   \* orders with their order_items

orderError ==
  [ErrInvalidOrder |-> "InvalidArgument", ErrOrderNotFound |-> "NotFound",
   ErrOrderConflict |-> "AlreadyExists"]

Distinct(items) == \A i, j \in DOMAIN items : items[i].code = items[j].code => i = j

ValidItems(items) ==
  /\ items # <<>>
  /\ \A i \in DOMAIN items : items[i].code # "" /\ items[i].quantity \in 1 .. MaxQuantity
  /\ Distinct(items)

CreateOrder(r) ==
  IF ValidItems(Arg(r).items)
    THEN GoTo(r, "resolve")
    ELSE Fail(r, orderError, "ErrInvalidOrder")

gatewayCreateOrder(r) ==
  /\ At(r, "createOrder", "call")
  /\ CreateOrder(r)
  /\ UNCHANGED <<products, orders>>

(* product-rpc's NotFound is no error that order-rpc's mapError names, so   *)
(* the client is told 500.                                                  *)
GetOrderItemSnapshot(r, code) ==
  LET found == FindActiveSKU(code) IN
  IF found = {}
    THEN Fail(r, orderError, productError["ErrSKUNotFound"])
    ELSE Set(r, [requests[r] EXCEPT
           !.got = @ \cup found,
           !.step = IF Cardinality(requests[r].got) + 1 = Len(Arg(r).items) THEN "store" ELSE @])

(* The next line of the order. *)
ResolveLine(r) ==
  /\ At(r, "createOrder", "resolve")
  /\ GetOrderItemSnapshot(r, Arg(r).items[Cardinality(requests[r].got) + 1].code)
  /\ UNCHANGED <<products, orders>>

(* int64: a sum or product that does not fit wraps to the other end. *)
Wrap(n) == ((n + MaxInt + 1) % (2 * MaxInt + 2)) - MaxInt - 1

Line(item, snapshots) ==
  LET s == CHOOSE s \in snapshots : s.code = item.code
  IN [snapshot |-> s, quantity |-> item.quantity, subtotal |-> Wrap(s.price * item.quantity)]

AddLineUnchecked(sum, line) ==
  LET price == line.snapshot.price
      fits == price = 0 \/ line.quantity <= MaxInt \div price
  IN [fits |-> sum.fits /\ fits, total |-> Wrap(sum.total + line.subtotal)]

(* The total so far, with FALSE once a line does not fit. *)
AddLine(sum, line) ==
  LET price == line.snapshot.price
      fits == /\ price = 0 \/ line.quantity <= MaxInt \div price
              /\ sum.total <= MaxInt - line.subtotal
  IN [fits |-> sum.fits /\ fits, total |-> Wrap(sum.total + line.subtotal)]

(* The total after each line; nothing is added up before the first. *)
RunningTotals(lines) ==
  LET sums[n \in 0 .. Len(lines)] ==
        IF n = 0 THEN [fits |-> TRUE, total |-> 0] ELSE AddLine(sums[n - 1], lines[n])
  IN sums

normalizeItems(lines) == RunningTotals(lines)[Len(lines)]

(* One transaction: order, lines and event. *)
CreateIdempotent(r, lines, total) ==
  /\ orders' = Append(orders, [user |-> requests[r].user, lines |-> lines, total |-> total])
  /\ Written(r, 200)

StoreOrder(r) ==
  LET lines == [i \in DOMAIN Arg(r).items |-> Line(Arg(r).items[i], requests[r].got)]
      sum == normalizeItems(lines)
  IN /\ At(r, "createOrder", "store")
     /\ IF sum.fits
          THEN CreateIdempotent(r, lines, sum.total)
          ELSE Fail(r, orderError, "ErrInvalidOrder") /\ UNCHANGED orders
     /\ UNCHANGED products

FindOwned(u, id) == id \in DOMAIN orders /\ orders[id].user = u

(* Somebody else's order looks like none. *)
gatewayGetOrder(r) ==
  /\ At(r, "getOrder", "call")
  /\ IF FindOwned(requests[r].user, Arg(r).order)
       THEN Answer(r, 200)
       ELSE Fail(r, orderError, "ErrOrderNotFound")
  /\ UNCHANGED <<products, orders>>

CheckoutStep(r) ==
  gatewayCreateOrder(r) \/ ResolveLine(r) \/ StoreOrder(r) \/ gatewayGetOrder(r)
=============================================================================
