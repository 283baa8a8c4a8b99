------------------------------- MODULE Catalog ------------------------------
(***************************************************************************)
(* product-rpc: products and their SKUs (product.go, its repository and    *)
(* its server, with the gateway's conversions of adapters.go).             *)
(*                                                                         *)
(* A product's ID is its place in products. A SKU stands for its code,     *)
(* which a unique key keeps apart. The name stands for name and            *)
(* description. A SKU is always active: no operation changes its status.   *)
(***************************************************************************)
EXTENDS ShopBase, Functions

VARIABLE products     \* products with their product_skus, committed

StatusActive == 1
StatusInactive == 2

productError ==
  [ErrInvalidProduct |-> "InvalidArgument", ErrProductNotFound |-> "NotFound",
   ErrSKUNotFound |-> "NotFound", ErrProductConflict |-> "AlreadyExists"]

Known(id) == id \in 1 .. Len(products)
Codes(p) == {sku.code : sku \in Range(p.skus)}
AllCodes == UNION {Codes(p) : p \in Range(products)}

-----------------------------------------------------------------------------
(* Creating a product: the row of the product, then one SKU after another.  *)
(* An INSERT of a code that another transaction has inserted waits for the  *)
(* end of that transaction.                                                 *)

(* What Service.Create says of a request, or "" when it is in order. *)
CreateVerdict(arg) ==
  IF arg.name = "" \/ arg.skus = <<>> THEN "ErrInvalidProduct"
  ELSE LET bad == {i \in DOMAIN arg.skus : arg.skus[i].price < 0}
           twice == {i \in DOMAIN arg.skus : \E j \in 1 .. i - 1 : arg.skus[j].code = arg.skus[i].code}
       IN CASE bad \cup twice = {} -> ""
            [] \E i \in bad : \A j \in twice : i <= j -> "ErrInvalidProduct"
            [] OTHER -> "ErrProductConflict"

CreateProduct(r) ==
  IF CreateVerdict(Arg(r)) = ""
    THEN GoTo(r, "insert")
    ELSE Fail(r, productError, CreateVerdict(Arg(r)))

gatewayCreateProduct(r) ==
  /\ At(r, "createProduct", "call")
  /\ CreateProduct(r)
  /\ UNCHANGED products

Inserting(r) == At(r, "createProduct", "insert")
Pending(r) == IF Inserting(r) THEN requests[r].got ELSE {}
Complete(r) == Cardinality(requests[r].got) = Len(Arg(r).skus)
NextCode(r) == Arg(r).skus[Cardinality(requests[r].got) + 1].code

(* The transactions that hold the next code of r. *)
Holders(r) == {s \in Slots \ {r} : NextCode(r) \in Pending(s)}

InsertUnseen(r) ==
  /\ Inserting(r) /\ ~Complete(r)
  /\ IF NextCode(r) \in AllCodes
       THEN Fail(r, productError, "ErrProductConflict")
       ELSE Set(r, [requests[r] EXCEPT !.got = @ \cup {NextCode(r)}])
  /\ UNCHANGED products

InsertPartly(r) ==
  /\ Inserting(r) /\ ~Complete(r)
  /\ IF NextCode(r) \in AllCodes
       THEN /\ products' = Append(products,
                 [name |-> Arg(r).name, status |-> StatusInactive, skus |-> <<>>])
            /\ Written(r, 409)
       ELSE /\ Set(r, [requests[r] EXCEPT !.got = @ \cup {NextCode(r)}])
            /\ UNCHANGED products

InsertSKU(r) ==
  /\ Inserting(r) /\ ~Complete(r)
  /\ Holders(r) = {}
  /\ IF NextCode(r) \in AllCodes
       THEN Fail(r, productError, "ErrProductConflict")
       ELSE Set(r, [requests[r] EXCEPT !.got = @ \cup {NextCode(r)}])
  /\ UNCHANGED products

(* Two transactions wait for each other's codes: InnoDB rolls one back. *)
SKUDeadlock(r) ==
  /\ Inserting(r) /\ ~Complete(r)
  /\ \E s \in Holders(r) : ~Complete(s) /\ NextCode(s) \in Pending(r)
  /\ Answer(r, 500)
  /\ UNCHANGED products

CommitProduct(r) ==
  /\ Inserting(r) /\ Complete(r)
  /\ products' = Append(products,
       [name |-> Arg(r).name, status |-> StatusInactive, skus |-> Arg(r).skus])
  /\ Written(r, 200)

-----------------------------------------------------------------------------
(* Changing a product. MySQL counts the rows it changes, not the ones it    *)
(* finds, so an UPDATE to the same values is answered as not found.         *)

Update(r, id, p) ==
  IF Known(id) /\ products[id] # p
    THEN products' = [products EXCEPT ![id] = p] /\ Written(r, 200)
    ELSE Fail(r, productError, "ErrProductNotFound") /\ UNCHANGED products

UpdateProduct(r, id, name) ==
  IF id = 0 \/ name = ""
    THEN Fail(r, productError, "ErrInvalidProduct") /\ UNCHANGED products
    ELSE Update(r, id, [products[id] EXCEPT !.name = name])

gatewayUpdateProduct(r) ==
  /\ At(r, "updateProduct", "call")
  /\ UpdateProduct(r, Arg(r).product, Arg(r).name)

toProtoProductStatus(value) ==
  CASE value = StatusActive -> "ENABLED"
    [] value = StatusInactive -> "DISABLED"
    [] OTHER -> "UNSPECIFIED"

fromProtoStatusAsNumber(value) ==
  CASE value = "ENABLED" -> StatusActive
    [] value = "DISABLED" -> StatusInactive
    [] OTHER -> 3

fromProtoStatus(value) ==
  CASE value = "ENABLED" -> StatusActive
    [] value = "DISABLED" -> StatusInactive
    [] OTHER -> 0

UpdateStatus(r, id, status) == Update(r, id, [products[id] EXCEPT !.status = status])

SetStatus(r, id, status) ==
  IF id = 0 \/ status = 0
    THEN Fail(r, productError, "ErrInvalidProduct") /\ UNCHANGED products
    ELSE UpdateStatus(r, id, status)

gatewayUpdateProductStatus(r) ==
  /\ At(r, "updateProductStatus", "call")
  /\ SetStatus(r, Arg(r).product, fromProtoStatus(toProtoProductStatus(Arg(r).status)))

-----------------------------------------------------------------------------
(* Reading. *)

Active == {id \in DOMAIN products : products[id].status = StatusActive}

(* A page that the cut to 32 bits has made 0 becomes the first one. *)
ListPublic(page) == IF page <= 0 THEN 1 ELSE page

(* The total and the page are two SELECTs, so they need not agree. *)
gatewayListProducts(r) ==
  /\ At(r, "listProducts", "call")
  /\ Set(r, [requests[r] EXCEPT !.step = "rows", !.got = {ListPublic(AskedPage(Arg(r).page))}])
  /\ UNCHANGED products

ListActive(r) ==
  /\ At(r, "listProducts", "rows")
  /\ Answer(r, 200)
  /\ UNCHANGED products

FindActive(id) == id \in Active

gatewayGetProduct(r) ==
  /\ At(r, "getProduct", "call")
  /\ IF FindActive(Arg(r).product)
       THEN Answer(r, 200)
       ELSE Fail(r, productError, "ErrProductNotFound")
  /\ UNCHANGED products

(* The snapshots on offer: a SKU of an active product, frozen by value. *)
SnapshotsOf(ids) ==
  UNION {{[code |-> sku.code, name |-> products[id].name, price |-> sku.price] :
            sku \in Range(products[id].skus)} : id \in ids}

FindAnySKU(code) == {s \in SnapshotsOf(DOMAIN products) : s.code = code}

FindActiveSKU(code) == {s \in SnapshotsOf(Active) : s.code = code}

CatalogStep(r) ==
  \/ gatewayCreateProduct(r) \/ InsertSKU(r) \/ SKUDeadlock(r) \/ CommitProduct(r)
  \/ gatewayUpdateProduct(r) \/ gatewayUpdateProductStatus(r)
  \/ gatewayListProducts(r) \/ ListActive(r) \/ gatewayGetProduct(r)
=============================================================================
