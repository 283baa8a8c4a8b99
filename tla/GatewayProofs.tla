---------------------------- MODULE GatewayProofs ---------------------------
(***************************************************************************)
(* The public API for any number of requests at a time, any users, roles   *)
(* and arguments, and any limit of pages, quantities and amounts. ShopInv  *)
(* says what the handler of a request knows at each of its statements: who *)
(* it was permitted for, which rows it has locked, which codes it holds    *)
(* and which snapshots it has fetched.                                     *)
(***************************************************************************)
EXTENDS Gateway, FiniteSetTheorems, SequenceTheorems, TLAPS

Answers == {0, 200, 400, 401, 403, 404, 409, 500, 503, 504}

(* Strings; that the ones of ShopInit are among them is no fact the provers *)
(* know.                                                                    *)
Texts == STRING \cup {"a", "b", "old"}

SKURows == [code : Texts, price : Nat]
Snapshots == [code : Texts, name : Texts, price : Nat]
ProductRows == [name : Texts, status : {StatusActive, StatusInactive}, skus : Seq(SKURows)]

(* A request in progress, with what it may have read, and one that is over. *)
Things == Roles \cup Texts \cup Nat \cup Snapshots

Running ==
  [op : Ops, user : Users, arg : UNION {Inputs(op) : op \in Ops}, serial : Nat,
   step : Steps \ {"done"}, answer : {0, 504}, wrote : BOOLEAN,
   got : SUBSET Things]

Finished ==
  [step : {"idle", "done"}, op : Ops \cup {"none"}, wrote : BOOLEAN, answer : Answers]

(* The codes of the first n rows of a list, each of them once. *)
CodesUpTo(rows, n) == {rows[i].code : i \in 1 .. n}

(* What createProduct has inserted: the codes of some first SKUs. *)
InsertedSome(q) ==
  /\ q.arg.skus \in Seq(SKURows) /\ Distinct(q.arg.skus)
  /\ \E n \in 0 .. Len(q.arg.skus) : q.got = CodesUpTo(q.arg.skus, n)

(* What createOrder has fetched: one snapshot for each of the first n lines. *)
FetchedFirst(q, n) ==
  /\ q.got \subseteq Snapshots
  /\ \A s, t \in q.got : s.code = t.code => s = t
  /\ {s.code : s \in q.got} = CodesUpTo(q.arg.items, n)

(* What a handler knows at its next statement. *)
KnowsOK(q) ==
  /\ q.step \in {"authenticate", "permit", "call", "clear"} => q.got = {}
  /\ q.step = "permit" => q.op \in AdminOps
  /\ q.step = "rows" => q.got \subseteq 1 .. PageLimit
  /\ q.step = "roles" => q.op = "currentUser" \/ (q.op = "replaceRoles" /\ q.wrote = TRUE)
  /\ q.wrote = TRUE => q.op = "replaceRoles" /\ q.step = "roles"
  /\ q.op = "replaceRoles" /\ q.step \in {"clear", "assign"} => Range(q.arg.roles) \subseteq Roles
  /\ q.op = "createProduct" /\ q.step = "insert" => InsertedSome(q)
  /\ q.op = "createOrder" /\ q.step \in {"resolve", "store"} => ValidItems(q.arg.items)
  /\ q.op = "createOrder" /\ q.step = "resolve" =>
       \E n \in 0 .. Len(q.arg.items) - 1 : FetchedFirst(q, n)
  /\ q.op = "createOrder" /\ q.step = "store" => FetchedFirst(q, Len(q.arg.items))

RunningOK(q) == q \in Running /\ q.arg \in Inputs(q.op) /\ KnowsOK(q)

Writes == AdminOps \cup {"register", "login", "createOrder", "markRead"}

FinishedOK(q) ==
  /\ q \in Finished
  /\ q.answer = 200 /\ q.op \in Writes => q.wrote = TRUE
  /\ q.answer \in 400 .. 499 => q.wrote = FALSE

RequestInv ==
  /\ requests \in [Slots -> Running \cup Finished]
  /\ \A r \in Slots : RunningOK(requests[r]) \/ FinishedOK(requests[r])

-----------------------------------------------------------------------------
(* Answers. *)

LEMMA AdminOpsAre ==
  AdminOps = {"replaceRoles", "createProduct", "updateProduct", "updateProductStatus",
              "createActivity", "createSeckillItem"}
BY DEF AdminOps, Permission

(* No service has an error that would be answered otherwise. *)
LEMMA ErrorAnswers ==
  /\ \A e : writeRPCError(StatusError(userError, e)) \in {400, 401, 404, 409, 500}
  /\ \A e : writeRPCError(StatusError(productError, e)) \in {400, 404, 409, 500}
  /\ \A e : writeRPCError(StatusError(orderError, e)) \in {400, 404, 409, 500}
  /\ \A e : writeRPCError(StatusError(notificationError, e)) \in {400, 404, 500}
  /\ \A e : writeRPCError(StatusError(seckillError, e)) \in {400, 409, 500}
<1>1. ASSUME NEW e PROVE StatusError(userError, e) \in
        {"InvalidArgument", "AlreadyExists", "Unauthenticated", "NotFound", "FailedPrecondition", "Internal"}
  BY DEF StatusError, userError
<1>2. ASSUME NEW e PROVE StatusError(productError, e) \in
        {"InvalidArgument", "NotFound", "AlreadyExists", "Internal"}
  BY DEF StatusError, productError
<1>3. ASSUME NEW e PROVE StatusError(orderError, e) \in
        {"InvalidArgument", "NotFound", "AlreadyExists", "Internal"}
  BY DEF StatusError, orderError
<1>4. ASSUME NEW e PROVE StatusError(notificationError, e) \in
        {"InvalidArgument", "NotFound", "Internal"}
  BY DEF StatusError, notificationError
<1>5. ASSUME NEW e PROVE StatusError(seckillError, e) \in
        {"InvalidArgument", "AlreadyExists", "Internal"}
  BY DEF StatusError, seckillError
<1> QED
  BY <1>1, <1>2, <1>3, <1>4, <1>5 DEF writeRPCError

-----------------------------------------------------------------------------
(* Lists of rows with different codes. *)

(* As many codes as rows. *)
LEMMA CodesCounted ==
  ASSUME NEW S, NEW rows \in Seq(S), Distinct(rows), NEW n \in 0 .. Len(rows)
  PROVE  /\ IsFiniteSet(CodesUpTo(rows, n))
         /\ Cardinality(CodesUpTo(rows, n)) = n
<1> DEFINE C == CodesUpTo(rows, n)
           f == [i \in 1 .. n |-> rows[i].code]
<1>1. f \in Bijection(1 .. n, C)
  <2>1. f \in [1 .. n -> C] /\ \A c \in C : \E i \in 1 .. n : f[i] = c
    BY DEF CodesUpTo
  <2>2. \A i, j \in 1 .. n : f[i] = f[j] => i = j
    BY DEF Distinct
  <2> QED
    BY <2>1, <2>2 DEF Bijection, Injection, Surjection, IsInjective
<1>2. IsFiniteSet(1 .. n) /\ Cardinality(1 .. n) = n
  BY FS_Interval
<1>3. ExistsBijection(1 .. n, C)
  BY <1>1 DEF ExistsBijection
<1> HIDE DEF C
<1>4. IsFiniteSet(C) /\ Cardinality(C) = Cardinality(1 .. n)
  BY <1>2, <1>3, FS_Bijection
<1> QED
  BY <1>2, <1>4 DEF C

(* The code after the first n ones is a new one. *)
LEMMA NextIsNew ==
  ASSUME NEW S, NEW rows \in Seq(S), Distinct(rows), NEW n \in 0 .. Len(rows) - 1
  PROVE  /\ n + 1 \in 1 .. Len(rows)
         /\ rows[n + 1].code \notin CodesUpTo(rows, n)
         /\ CodesUpTo(rows, n) \cup {rows[n + 1].code} = CodesUpTo(rows, n + 1)
<1>1. n + 1 \in 1 .. Len(rows) /\ DOMAIN rows = 1 .. Len(rows)
  OBVIOUS
<1>2. rows[n + 1].code \notin CodesUpTo(rows, n)
  BY <1>1 DEF Distinct, CodesUpTo
<1>3. CodesUpTo(rows, n) \cup {rows[n + 1].code} \subseteq CodesUpTo(rows, n + 1)
  BY DEF CodesUpTo
<1>4. CodesUpTo(rows, n + 1) \subseteq CodesUpTo(rows, n) \cup {rows[n + 1].code}
  BY DEF CodesUpTo
<1> QED
  BY <1>1, <1>2, <1>3, <1>4

(* All of them are the codes of a product. *)
LEMMA CodesOfAll ==
  ASSUME NEW p, p.skus \in Seq(SKURows)
  PROVE  Codes(p) = CodesUpTo(p.skus, Len(p.skus))
<1>1. DOMAIN p.skus = 1 .. Len(p.skus)
  OBVIOUS
<1> QED
  BY <1>1 DEF Codes, CodesUpTo, Range

(* As many snapshots as codes. *)
LEMMA SnapshotsCounted ==
  ASSUME NEW got, NEW C, IsFiniteSet(C), {s.code : s \in got} = C,
         \A s, t \in got : s.code = t.code => s = t
  PROVE  IsFiniteSet(got) /\ Cardinality(got) = Cardinality(C)
<1> DEFINE f == [s \in got |-> s.code]
<1>1. f \in Bijection(got, C)
  BY DEF Bijection, Injection, Surjection, IsInjective
<1>2. PICK g : g \in Bijection(got, C)
  BY <1>1
<1> QED
  BY <1>2, FS_Injection, FS_Bijection, FS_SameCardinalityBij, Zenon DEF Bijection, Injection

-----------------------------------------------------------------------------
(* Amounts. *)

LEMMA WrapFits ==
  ASSUME NEW n \in 0 .. MaxInt
  PROVE  Wrap(n) = n
<1>1. MaxInt \in Nat
  BY CheckoutAssumption
<1>2. n + MaxInt + 1 \in 0 .. 2 * MaxInt + 1
  BY <1>1
<1>3. \A a, b \in Nat : a < b => a % b = a
  OBVIOUS
<1>4. (n + MaxInt + 1) % (2 * MaxInt + 2) = n + MaxInt + 1
  BY <1>1, <1>2, <1>3
<1> QED
  BY <1>1, <1>4 DEF Wrap

(* The test of repository.go before it multiplies. *)
LEMMA ProductFits ==
  ASSUME NEW price \in Nat, NEW quantity \in Nat,
         price = 0 \/ quantity <= MaxInt \div price
  PROVE  price * quantity \in 0 .. MaxInt
<1>0. MaxInt \in Nat
  BY CheckoutAssumption
<1>1. CASE price = 0
  BY <1>0, <1>1
<1>2. CASE price # 0
  <2> DEFINE d == MaxInt \div price
  <2>1. d \in Nat /\ price * d <= MaxInt
    BY <1>0, <1>2
  <2>2. quantity <= d
    BY <1>2
  <2> HIDE DEF d
  <2>3. price * quantity <= price * d
    BY <2>1, <2>2
  <2>4. price * quantity \in Nat /\ price * d \in Nat
    BY <2>1
  <2> QED
    BY <1>0, <2>1, <2>3, <2>4
<1> QED
  BY <1>1, <1>2

(* Induction, over sets of numbers. *)
LEMMA SetInduction ==
  ASSUME NEW S, 0 \in S, \A n \in Nat : n \in S => n + 1 \in S
  PROVE  Nat \subseteq S
<1> SUFFICES ASSUME Nat \ S # {} PROVE FALSE
  OBVIOUS
<1> DEFINE T == Nat \ S
<1>1. PICK x \in T : \A y \in T : ~ (<<y, x>> \in OpToRel(<, Nat))
  BY NatLessThanWellFounded, WFMin, T \subseteq Nat, T # {}, Zenon
<1>2. \A y \in T : ~ (y < x)
  BY <1>1 DEF OpToRel
<1>3. x # 0 /\ x \in Nat
  BY <1>1
<1>4. x - 1 \in Nat /\ x - 1 < x /\ (x - 1) + 1 = x
  BY <1>3
<1>5. x - 1 \in S
  BY <1>2, <1>4
<1> QED
  BY <1>1, <1>4, <1>5

(* The recursions have a solution, so that they are what they say. *)
RunsTo(sums, lines, m) ==
  sums = [n \in 0 .. m |->
            IF n = 0 THEN [fits |-> TRUE, total |-> 0] ELSE AddLine(sums[n - 1], lines[n])]

LEMMA RunningExists ==
  ASSUME NEW lines
  PROVE  \A m \in Nat : \E sums : RunsTo(sums, lines, m)
<1> DEFINE S == {m \in Nat : \E sums : RunsTo(sums, lines, m)}
<1>1. 0 \in S
  <2> DEFINE f == [n \in 0 .. 0 |-> [fits |-> TRUE, total |-> 0]]
  <2>1. RunsTo(f, lines, 0)
    BY DEF RunsTo
  <2> QED
    BY <2>1
<1>2. ASSUME NEW m \in Nat, m \in S PROVE m + 1 \in S
  <2>1. PICK sums : RunsTo(sums, lines, m)
    BY <1>2
  <2> DEFINE f == [n \in 0 .. m + 1 |->
                     IF n = m + 1 THEN AddLine(sums[m], lines[m + 1]) ELSE sums[n]]
  <2>2. DOMAIN f = 0 .. m + 1 /\ f[0] = [fits |-> TRUE, total |-> 0]
    BY <2>1 DEF RunsTo
  <2>3. ASSUME NEW n \in 1 .. m + 1 PROVE f[n] = AddLine(f[n - 1], lines[n])
    <3>1. CASE n = m + 1
      <4>1. f[n] = AddLine(sums[m], lines[n]) /\ f[n - 1] = sums[m]
        BY <3>1
      <4> QED
        BY <4>1
    <3>2. CASE n # m + 1
      <4>1. f[n] = sums[n] /\ f[n - 1] = sums[n - 1]
        BY <3>2
      <4>0. n \in 0 .. m /\ n # 0
        BY <3>2
      <4>2. sums[n] = AddLine(sums[n - 1], lines[n])
        BY <2>1, <4>0 DEF RunsTo
      <4> QED
        BY <4>1, <4>2
    <3> QED
      BY <3>1, <3>2
  <2> HIDE DEF f
  <2>4. ASSUME NEW n \in 0 .. m + 1
        PROVE  f[n] = IF n = 0 THEN [fits |-> TRUE, total |-> 0] ELSE AddLine(f[n - 1], lines[n])
    <3>1. n = 0 \/ n \in 1 .. m + 1
      OBVIOUS
    <3> QED
      BY <2>2, <2>3, <3>1
  <2>5. RunsTo(f, lines, m + 1)
    BY <2>2, <2>4 DEF f, RunsTo
  <2> QED
    BY <2>5
<1> HIDE DEF S
<1>3. Nat \subseteq S
  BY <1>1, <1>2, SetInduction
<1> QED
  BY <1>3 DEF S

AddsUpTo(sums, lines, m) ==
  sums = [n \in 0 .. m |-> IF n = 0 THEN 0 ELSE sums[n - 1] + lines[n].subtotal]

LEMMA ExactExists ==
  ASSUME NEW lines
  PROVE  \A m \in Nat : \E sums : AddsUpTo(sums, lines, m)
<1> DEFINE S == {m \in Nat : \E sums : AddsUpTo(sums, lines, m)}
<1>1. 0 \in S
  <2> DEFINE f == [n \in 0 .. 0 |-> 0]
  <2>1. AddsUpTo(f, lines, 0)
    BY DEF AddsUpTo
  <2> QED
    BY <2>1
<1>2. ASSUME NEW m \in Nat, m \in S PROVE m + 1 \in S
  <2>1. PICK sums : AddsUpTo(sums, lines, m)
    BY <1>2
  <2> DEFINE f == [n \in 0 .. m + 1 |->
                     IF n = m + 1 THEN sums[m] + lines[m + 1].subtotal ELSE sums[n]]
  <2>2. DOMAIN f = 0 .. m + 1 /\ f[0] = 0
    BY <2>1 DEF AddsUpTo
  <2>3. ASSUME NEW n \in 1 .. m + 1 PROVE f[n] = f[n - 1] + lines[n].subtotal
    <3>1. CASE n = m + 1
      BY <3>1
    <3>2. CASE n # m + 1
      <4>1. f[n] = sums[n] /\ f[n - 1] = sums[n - 1]
        BY <3>2
      <4>2. sums[n] = sums[n - 1] + lines[n].subtotal
        BY <2>1, <3>2 DEF AddsUpTo
      <4> QED
        BY <4>1, <4>2
    <3> QED
      BY <3>1, <3>2
  <2>4. ASSUME NEW n \in 0 .. m + 1
        PROVE  f[n] = IF n = 0 THEN 0 ELSE f[n - 1] + lines[n].subtotal
    <3>1. n = 0 \/ n \in 1 .. m + 1
      OBVIOUS
    <3> HIDE DEF f
    <3> QED
      BY <2>2, <2>3, <3>1
  <2>5. AddsUpTo(f, lines, m + 1)
    BY <2>2, <2>4 DEF AddsUpTo
  <2> QED
    BY <2>5
<1> HIDE DEF S
<1>3. Nat \subseteq S
  BY <1>1, <1>2, SetInduction
<1> QED
  BY <1>3 DEF S

LEMMA TotalsAreDefined ==
  ASSUME NEW lines, Len(lines) \in Nat
  PROVE  /\ RunsTo(RunningTotals(lines), lines, Len(lines))
         /\ AddsUpTo(ExactTotals(lines), lines, Len(lines))
<1>1. \E sums : RunsTo(sums, lines, Len(lines))
  BY RunningExists
<1>2. \E sums : AddsUpTo(sums, lines, Len(lines))
  BY ExactExists
<1>3. RunningTotals(lines) = CHOOSE sums : RunsTo(sums, lines, Len(lines))
  BY DEF RunningTotals, RunsTo
<1>4. ExactTotals(lines) = CHOOSE sums : AddsUpTo(sums, lines, Len(lines))
  BY DEF ExactTotals, AddsUpTo
<1> QED
  BY <1>1, <1>2, <1>3, <1>4

(* Lines as an order has them. *)
LineOK(line) ==
  /\ line.snapshot \in Snapshots /\ line.quantity \in Nat
  /\ line.subtotal = Wrap(line.snapshot.price * line.quantity)

(* normalizeItems lets no amount wrap around. *)
LEMMA FittingIsExact ==
  ASSUME NEW lines, Len(lines) \in Nat, \A i \in 1 .. Len(lines) : LineOK(lines[i]),
         normalizeItems(lines).fits
  PROVE  /\ \A i \in 1 .. Len(lines) :
              lines[i].subtotal = lines[i].snapshot.price * lines[i].quantity
         /\ normalizeItems(lines).total = ExactTotals(lines)[Len(lines)]
         /\ normalizeItems(lines).total \in 0 .. MaxInt
<1> DEFINE g == RunningTotals(lines)
           e == ExactTotals(lines)
           N == Len(lines)
           Good(n) == g[n].fits =>
             /\ g[n].total = e[n] /\ g[n].total \in 0 .. MaxInt
             /\ \A i \in 1 .. n : lines[i].subtotal = lines[i].snapshot.price * lines[i].quantity
           S == {n \in Nat : n <= N => Good(n)}
<1>0. MaxInt \in Nat
  BY CheckoutAssumption
<1>1. RunsTo(g, lines, N) /\ AddsUpTo(e, lines, N)
  BY TotalsAreDefined
<1> HIDE DEF g, e
<1>2. g[0] = [fits |-> TRUE, total |-> 0] /\ e[0] = 0
  BY <1>1 DEF RunsTo, AddsUpTo
<1>3. ASSUME NEW n \in Nat, n + 1 <= N
      PROVE  g[n + 1] = AddLine(g[n], lines[n + 1]) /\ e[n + 1] = e[n] + lines[n + 1].subtotal
  <2>1. n + 1 \in 0 .. N /\ n + 1 # 0 /\ (n + 1) - 1 = n
    BY <1>3
  <2> QED
    BY <1>1, <2>1 DEF RunsTo, AddsUpTo
<1>4. 0 \in S
  BY <1>0, <1>2
<1>5. ASSUME NEW n \in Nat, n \in S PROVE n + 1 \in S
  <2> SUFFICES ASSUME n + 1 <= N, g[n + 1].fits PROVE Good(n + 1)
    OBVIOUS
  <2> DEFINE line == lines[n + 1]
             price == line.snapshot.price
             quantity == line.quantity
  <2>1. LineOK(line) /\ price \in Nat /\ quantity \in Nat
    BY DEF LineOK, Snapshots
  <2>2. /\ g[n].fits
        /\ price = 0 \/ quantity <= MaxInt \div price
        /\ g[n].total <= MaxInt - line.subtotal
        /\ g[n + 1].total = Wrap(g[n].total + line.subtotal)
    <3>1. g[n + 1] = AddLine(g[n], line)
      BY <1>3
    <3>2. /\ AddLine(g[n], line).fits =
               (g[n].fits /\ (price = 0 \/ quantity <= MaxInt \div price)
                          /\ g[n].total <= MaxInt - line.subtotal)
          /\ AddLine(g[n], line).total = Wrap(g[n].total + line.subtotal)
      BY DEF AddLine
    <3> QED
      BY <3>1, <3>2
  <2>3. /\ g[n].total = e[n] /\ g[n].total \in 0 .. MaxInt
        /\ \A i \in 1 .. n : lines[i].subtotal = lines[i].snapshot.price * lines[i].quantity
    BY <1>5, <2>2
  <2> HIDE DEF price, quantity
  <2>4. price * quantity \in 0 .. MaxInt
    BY <2>1, <2>2, ProductFits
  <2>5. line.subtotal = price * quantity
    BY <2>1, <2>4, WrapFits DEF LineOK, price, quantity
  <2>6. PICK a : a = g[n].total + line.subtotal
    OBVIOUS
  <2>7. a \in 0 .. MaxInt
    BY <1>0, <2>2, <2>3, <2>4, <2>5, <2>6
  <2>8. g[n + 1].total = a
    BY <2>2, <2>6, <2>7, WrapFits
  <2>9. e[n + 1] = a
    BY <1>3, <2>3, <2>6
  <2>10. ASSUME NEW i \in 1 .. n + 1
         PROVE  lines[i].subtotal = lines[i].snapshot.price * lines[i].quantity
    <3>1. i \in 1 .. n \/ i = n + 1
      OBVIOUS
    <3> QED
      BY <2>3, <2>5, <3>1 DEF price, quantity
  <2> QED
    BY <2>7, <2>8, <2>9, <2>10
<1> HIDE DEF S
<1>6. Nat \subseteq S
  BY <1>4, <1>5, SetInduction
<1>7. N \in S
  BY <1>6
<1> QED
  BY <1>7 DEF S, g, e, normalizeItems

-----------------------------------------------------------------------------
(* The invariant. *)

LineRows == [snapshot : Snapshots, quantity : Int, subtotal : Int]
OrderRows == [user : Users, lines : Seq(LineRows), total : Int]

(* The bounds of a behaviour. *)
CountInv ==
  /\ menu \in Menus /\ arrived \in 0 .. menu.requests
  /\ activities \in Nat

(* A unique key keeps the codes of the committed SKUs apart ... *)
CatalogInv ==
  /\ products \in Seq(ProductRows)
  /\ \A i \in DOMAIN products : Distinct(products[i].skus)
  /\ \A i, j \in DOMAIN products : i # j => Codes(products[i]) \cap Codes(products[j]) = {}

(* ... and the ones that transactions hold from these and from each other. *)
PendingInv ==
  /\ \A r \in Slots : Pending(r) \cap AllCodes = {}
  /\ \A r, s \in Slots : r # s => Pending(r) \cap Pending(s) = {}

OrdersInv ==
  /\ orders \in Seq(OrderRows)
  /\ TotalsExact
  /\ Delivered \subseteq DOMAIN orders

(* The rows that a replacement has locked are the ones there are. *)
RolesInv ==
  \A r \in Slots : At(r, "replaceRoles", "assign") => roles[Arg(r).target] \subseteq requests[r].got

(* Who is past the middleware, or has written, was permitted to. *)
HeldInv ==
  \A r \in Slots : requests[r].op \in AdminOps =>
    /\ Busy(r) /\ requests[r].step \notin {"authenticate", "permit"} => history[r].held
    /\ requests[r].wrote => history[r].held

ShopInv ==
  /\ RequestInv
  /\ AccountsTypeOK
  /\ CountInv
  /\ CatalogInv
  /\ PendingInv
  /\ OrdersInv
  /\ RolesInv
  /\ HeldInv
  /\ OffersOnly

-----------------------------------------------------------------------------
(* The requests. *)

(* How a request ends, and what it knows if it goes on. *)
Ended(r, q) ==
  /\ FinishedOK(q) /\ q.step = "done" /\ q.op = requests[r].op
  /\ q.wrote = TRUE =>
       requests[r].wrote = TRUE \/ requests[r].step \notin {"authenticate", "permit"}

Progress(r, q) ==
  /\ RunningOK(q)
  /\ q.op = requests[r].op /\ q.user = requests[r].user /\ q.arg = requests[r].arg
  /\ q.op \in AdminOps /\ q.step \notin {"authenticate", "permit"} =>
       \/ requests[r].step \notin {"authenticate", "permit"}
       \/ HasPermission(q.user, Permission[q.op]) /\ UNCHANGED roles
  /\ q.op = "replaceRoles" /\ q.step = "assign" =>
       \/ requests[r].step = "assign" /\ q.got = requests[r].got
       \/ q.got = roles[q.arg.target] /\ UNCHANGED roles
  /\ q.op = "createProduct" /\ q.step = "insert" =>
       \/ q.got = {}
       \/ Inserting(r) /\ q.got = requests[r].got
       \/ InsertSKU(r)
  /\ q.op \in {"createOrder", "createSeckillItem"} =>
       q.got \subseteq requests[r].got \cup SnapshotsOf(Active) /\ UNCHANGED products

Served(r) == \E q : Set(r, q) /\ (Ended(r, q) \/ Progress(r, q))

LEMMA BusyRuns ==
  ASSUME RequestInv, NEW r \in Slots
  PROVE  /\ Busy(r) => RunningOK(requests[r]) /\ requests[r].wrote \in BOOLEAN
         /\ ~Busy(r) => FinishedOK(requests[r])
         /\ requests[r].step \in {"idle", "done"} \cup Steps
<1>1. RunningOK(requests[r]) => Busy(r) /\ requests[r].wrote \in BOOLEAN /\ requests[r].step \in Steps
  BY DEF RunningOK, Running, Busy, Steps
<1>2. FinishedOK(requests[r]) => ~Busy(r) /\ requests[r].step \in {"idle", "done"}
  BY DEF FinishedOK, Finished, Busy
<1> QED
  BY <1>1, <1>2 DEF RequestInv

(* An answer that says that nothing has changed. *)
LEMMA Refused ==
  ASSUME RequestInv, NEW r \in Slots, Busy(r),
         NEW status \in Answers \ {0, 200}, Answer(r, status),
         requests[r].step # "roles" \/ status \notin 400 .. 499
  PROVE  Served(r)
<1>1. RunningOK(requests[r])
  BY BusyRuns
<1> DEFINE q == Answered(requests[r], status)
<1>2. /\ q.step = "done" /\ q.op = requests[r].op /\ q.wrote = requests[r].wrote
      /\ q.answer \in {status, 504} /\ q \in Finished
  BY <1>1 DEF Answered, RunningOK, Running, Finished, Answers
<1>3. requests[r].wrote = TRUE => requests[r].step = "roles"
  BY <1>1 DEF RunningOK, KnowsOK
<1>4. requests[r].wrote \in BOOLEAN
  BY <1>1 DEF RunningOK, Running
<1>5. q.answer # 200 /\ (q.answer \in 400 .. 499 => q.wrote = FALSE)
  BY <1>2, <1>3, <1>4 DEF Answers
<1>6. Ended(r, q)
  BY <1>2, <1>3, <1>5 DEF Ended, FinishedOK
<1> QED
  BY <1>6 DEF Served, Answer

(* The answer to a question. *)
LEMMA Told ==
  ASSUME RequestInv, NEW r \in Slots, Busy(r), Answer(r, 200),
         requests[r].op \notin Writes \/ requests[r].wrote = TRUE
  PROVE  Served(r)
<1>1. RunningOK(requests[r])
  BY BusyRuns
<1> DEFINE q == Answered(requests[r], 200)
<1>2. /\ q.step = "done" /\ q.op = requests[r].op /\ q.wrote = requests[r].wrote
      /\ q.answer \in {200, 504} /\ q \in Finished
  BY <1>1 DEF Answered, RunningOK, Running, Finished, Answers
<1>3. FinishedOK(q)
  BY <1>2 DEF FinishedOK
<1>6. Ended(r, q)
  BY <1>2, <1>3 DEF Ended
<1> QED
  BY <1>6 DEF Served, Answer

(* A change and its answer. *)
LEMMA Committed ==
  ASSUME RequestInv, NEW r \in Slots, Busy(r), Written(r, 200),
         requests[r].step \notin {"authenticate", "permit"}
  PROVE  Served(r)
<1>1. RunningOK(requests[r])
  BY BusyRuns
<1>0. PICK a : a = Answered(requests[r], 200)
  OBVIOUS
<1> DEFINE q == [a EXCEPT !.wrote = TRUE]
<1>4. /\ a.step = "done" /\ a.op = requests[r].op
      /\ a.answer \in {200, 504} /\ a \in Finished
  BY <1>0, <1>1 DEF Answered, RunningOK, Running, Finished, Answers
<1>2. /\ q.step = "done" /\ q.op = requests[r].op /\ q.wrote = TRUE
      /\ q.answer \in {200, 504} /\ q \in Finished
  <2>1. q.step = "done" /\ q.op = requests[r].op /\ q.answer \in {200, 504}
    BY <1>4 DEF Finished
  <2>2. q.wrote = TRUE
    BY <1>4 DEF Finished
  <2>3. q \in Finished
    BY <1>4, ZenonT(40) DEF Finished
  <2> QED
    BY <2>1, <2>2, <2>3
<1>3. FinishedOK(q)
  BY <1>2 DEF FinishedOK
<1>6. Ended(r, q)
  BY <1>2, <1>3 DEF Ended
<1> QED
  BY <1>0, <1>6 DEF Served, Written

(* A service's refusal. *)
LEMMA Failed ==
  ASSUME RequestInv, NEW r \in Slots, Busy(r), requests[r].step # "roles",
         NEW err,
         \/ Fail(r, userError, err) \/ Fail(r, productError, err) \/ Fail(r, orderError, err)
         \/ Fail(r, notificationError, err) \/ Fail(r, seckillError, err)
  PROVE  Served(r)
<1>1. \E status \in {400, 401, 404, 409, 500} : Answer(r, status)
  BY ErrorAnswers DEF Fail
<1> QED
  BY <1>1, Refused DEF Answers

(* The ways in which a request changes. *)
LEMMA RunningStep ==
  ASSUME NEW q \in Running, NEW step \in Steps \ {"done"}
  PROVE  [q EXCEPT !.step = step] \in Running
BY DEF Running

LEMMA RunningGot ==
  ASSUME NEW q \in Running, NEW got \in SUBSET Things
  PROVE  [q EXCEPT !.got = got] \in Running
BY DEF Running

LEMMA RunningAnswer ==
  ASSUME NEW q \in Running, NEW answer \in {0, 504}
  PROVE  [q EXCEPT !.answer = answer] \in Running
BY DEF Running

LEMMA RunningStepGot ==
  ASSUME NEW q \in Running, NEW step \in Steps \ {"done"}, NEW got \in SUBSET Things
  PROVE  [q EXCEPT !.step = step, !.got = got] \in Running
<1>1. PICK p \in Running : p = [q EXCEPT !.step = step]
  BY RunningStep
<1>2. [p EXCEPT !.got = got] \in Running
  BY RunningGot
<1>3. [q EXCEPT !.step = step, !.got = got] = [p EXCEPT !.got = got]
  BY <1>1
<1> QED
  BY <1>2, <1>3

LEMMA RunningWrote ==
  ASSUME NEW q \in Running, NEW step \in Steps \ {"done"}
  PROVE  [q EXCEPT !.step = step, !.wrote = TRUE] \in Running
<1>1. PICK p \in Running : p = [q EXCEPT !.step = step]
  BY RunningStep
<1>2. PICK w \in BOOLEAN : w = TRUE
  OBVIOUS
<1>3. [p EXCEPT !.wrote = w] \in Running
  BY DEF Running
<1>4. [q EXCEPT !.step = step, !.wrote = TRUE] = [p EXCEPT !.wrote = w]
  BY <1>1, <1>2
<1> QED
  BY <1>3, <1>4

(* A request that goes on. *)
LEMMA GoesOn ==
  ASSUME RequestInv, NEW r \in Slots, Busy(r), NEW step \in Steps \ {"done"},
         GoTo(r, step), requests[r].got = {}, requests[r].wrote = FALSE,
         step \notin {"roles", "rows", "insert", "permit", "assign", "store"},
         requests[r].op = "replaceRoles" /\ step = "clear" => Range(Arg(r).roles) \subseteq Roles,
         requests[r].op \in AdminOps => requests[r].step \notin {"authenticate", "permit"},
         requests[r].op = "createOrder" /\ step = "resolve" => ValidItems(Arg(r).items),
         UNCHANGED products
  PROVE  Served(r)
<1> DEFINE q == [requests[r] EXCEPT !.step = step]
<1>1. RunningOK(requests[r])
  BY BusyRuns
<1>2. /\ q.step = step /\ q.op = requests[r].op /\ q.wrote = FALSE /\ q.got = {}
      /\ q.arg = requests[r].arg /\ q.user = requests[r].user /\ q \in Running
  BY <1>1 DEF RunningOK, Running
<1> HIDE DEF q
<1>3. q.op = "createOrder" /\ q.step = "resolve" =>
        \E n \in 0 .. Len(q.arg.items) - 1 : FetchedFirst(q, n)
  <2> SUFFICES ASSUME q.op = "createOrder", q.step = "resolve"
               PROVE  0 \in 0 .. Len(q.arg.items) - 1 /\ FetchedFirst(q, 0)
    OBVIOUS
  <2>1. q.arg.items # <<>> /\ q.arg.items \in Seq([code : STRING, quantity : Int])
    BY <1>1, <1>2, InputsAssumption DEF ValidItems, Arg, RunningOK
  <2>2. Len(q.arg.items) >= 1 /\ Len(q.arg.items) \in Nat
    BY <2>1
  <2>3. CodesUpTo(q.arg.items, 0) = {}
    BY DEF CodesUpTo
  <2> QED
    BY <1>2, <2>2, <2>3 DEF FetchedFirst
<1>4. KnowsOK(q)
  BY <1>2, <1>3 DEF KnowsOK, Arg
<1>5. Progress(r, q)
  BY <1>1, <1>2, <1>4 DEF Progress, RunningOK
<1> QED
  BY <1>5 DEF Served, GoTo, q

(* The middleware. *)
LEMMA ServeAuthenticate ==
  ASSUME RequestInv, NEW r \in Slots, authenticate(r), UNCHANGED shopVars
  PROVE  Busy(r) /\ Served(r)
<1>1. requests[r].step = "authenticate" /\ Busy(r)
  BY DEF authenticate, Busy
<1>2. RunningOK(requests[r]) /\ requests[r].wrote = FALSE /\ requests[r].got = {}
  BY <1>1, BusyRuns DEF RunningOK, KnowsOK
<1>3. CASE Answer(r, 401)
  BY <1>1, <1>3, Refused DEF Answers
<1>4. CASE requests[r].op \in AdminOps /\ GoTo(r, "permit")
  <2> DEFINE q == [requests[r] EXCEPT !.step = "permit"]
  <2>1. /\ q.step = "permit" /\ q.op = requests[r].op /\ q.wrote = FALSE /\ q.got = {}
        /\ q.arg = requests[r].arg /\ q.user = requests[r].user /\ q \in Running
    BY <1>2 DEF RunningOK, Running, Steps
  <2> HIDE DEF q
  <2>2. RunningOK(q)
    BY <1>2, <1>4, <2>1 DEF RunningOK, KnowsOK
  <2>3. UNCHANGED products
    BY DEF shopVars
  <2>4. Progress(r, q)
    BY <2>1, <2>2, <2>3 DEF Progress
  <2> QED
    BY <1>1, <1>4, <2>4 DEF Served, GoTo, q
<1>5. CASE requests[r].op \notin AdminOps /\ Decode(r, requests[r])
  <2>1. CASE Answer(r, 400)
    BY <1>1, <2>1, Refused DEF Answers
  <2>2. CASE GoTo(r, "call")
    BY <1>1, <1>2, <1>5, <2>2, GoesOn, AdminOpsAre DEF Steps, shopVars
  <2> QED
    BY <1>5, <2>1, <2>2 DEF Decode, Answer, GoTo
<1> QED
  BY <1>1, <1>3, <1>4, <1>5 DEF authenticate

LEMMA ServePermit ==
  ASSUME RequestInv, NEW r \in Slots, gatewayRequirePermission(r), UNCHANGED shopVars
  PROVE  Busy(r) /\ Served(r)
<1>1. requests[r].step = "permit" /\ Busy(r)
  BY DEF gatewayRequirePermission, Busy
<1>2. RunningOK(requests[r]) /\ requests[r].wrote = FALSE /\ requests[r].got = {}
  BY <1>1, BusyRuns DEF RunningOK, KnowsOK
<1>3. CASE Answer(r, 403) \/ Answer(r, 400)
  BY <1>1, <1>3, Refused DEF Answers
<1>4. CASE HasPermission(requests[r].user, Permission[requests[r].op]) /\ GoTo(r, "call")
  <2> DEFINE q == [requests[r] EXCEPT !.step = "call"]
  <2>1. /\ q.step = "call" /\ q.op = requests[r].op /\ q.wrote = FALSE /\ q.got = {}
        /\ q.arg = requests[r].arg /\ q.user = requests[r].user /\ q \in Running
    BY <1>2 DEF RunningOK, Running, Steps
  <2> HIDE DEF q
  <2>2. RunningOK(q)
    BY <1>2, <1>4, <2>1 DEF RunningOK, KnowsOK
  <2>3. UNCHANGED products /\ UNCHANGED roles
    BY DEF shopVars, gatewayRequirePermission, accountVars
  <2>4. Progress(r, q)
    BY <1>4, <2>1, <2>2, <2>3 DEF Progress
  <2> QED
    BY <1>1, <1>4, <2>4 DEF Served, GoTo, q
<1> QED
  BY <1>1, <1>3, <1>4 DEF gatewayRequirePermission, Decode, Answer, GoTo

(* user-rpc. *)
LEMMA ServeAccounts ==
  ASSUME RequestInv, AccountsTypeOK, NEW r \in Slots, AccountsStep(r), UNCHANGED shopVars
  PROVE  Busy(r) /\ Served(r)
<1>0. UNCHANGED products
  BY DEF shopVars
<1>1. CASE authenticate(r)
  BY <1>1, ServeAuthenticate
<1>2. CASE gatewayRequirePermission(r)
  BY <1>2, ServePermit
<1>3. CASE gatewayRegister(r)
  <2>1. requests[r].step = "call" /\ Busy(r)
    BY <1>3 DEF gatewayRegister, At, Busy
  <2>2. \/ Written(r, 200)
        \/ \E err : Fail(r, userError, err)
    BY <1>3 DEF gatewayRegister, Register, Create
  <2> QED
    BY <2>1, <2>2, Committed, Failed
<1>4. CASE gatewayLogin(r)
  <2>1. requests[r].step = "call" /\ Busy(r)
    BY <1>4 DEF gatewayLogin, At, Busy
  <2>2. \/ Written(r, 200)
        \/ \E err : Fail(r, userError, err)
    BY <1>4 DEF gatewayLogin
  <2> QED
    BY <2>1, <2>2, Committed, Failed
<1>5. CASE gatewayCurrentUser(r)
  <2>1. requests[r].op = "currentUser" /\ requests[r].step = "call" /\ Busy(r)
    BY <1>5 DEF gatewayCurrentUser, At, Busy
  <2>2. CASE Answer(r, 401)
    BY <2>1, <2>2, Refused DEF Answers
  <2>3. CASE GoTo(r, "roles")
    <3> DEFINE q == [requests[r] EXCEPT !.step = "roles"]
    <3>1. RunningOK(requests[r]) /\ requests[r].wrote = FALSE
      BY <2>1, BusyRuns DEF RunningOK, KnowsOK
    <3>2. /\ q.step = "roles" /\ q.op = "currentUser" /\ q.wrote = FALSE
          /\ q.arg = requests[r].arg /\ q.user = requests[r].user /\ q \in Running
      BY <2>1, <3>1 DEF RunningOK, Running, Steps
    <3> HIDE DEF q
    <3>3. Progress(r, q)
      BY <2>1, <3>1, <3>2, AdminOpsAre DEF Progress, RunningOK, KnowsOK
    <3>4. Set(r, q)
      BY <2>3 DEF GoTo, q
    <3> QED
      BY <2>1, <3>3, <3>4 DEF Served
  <2> QED
    BY <1>5, <2>1, <2>2, <2>3 DEF gatewayCurrentUser
<1>6. CASE UserRoles(r)
  <2>1. requests[r].step = "roles" /\ Busy(r) /\ Answer(r, 200)
    BY <1>6 DEF UserRoles, Busy
  <2>2. requests[r].op \notin Writes \/ requests[r].wrote = TRUE
    BY <2>1, BusyRuns, AdminOpsAre DEF RunningOK, KnowsOK, Writes
  <2> QED
    BY <2>1, <2>2, Told
<1>7. CASE gatewayReplaceRoles(r)
  <2>1. requests[r].op = "replaceRoles" /\ requests[r].step = "call" /\ Busy(r)
    BY <1>7 DEF gatewayReplaceRoles, At, Busy
  <2>2. requests[r].got = {} /\ requests[r].wrote = FALSE
    BY <2>1, BusyRuns DEF RunningOK, KnowsOK
  <2>3. CASE \E err : Fail(r, userError, err)
    BY <2>1, <2>3, Failed
  <2>4. CASE FindRoleIDs(Requested(r)) = Requested(r) /\ GoTo(r, "clear")
    <3>1. Range(Arg(r).roles) \subseteq Roles
      BY <2>4 DEF FindRoleIDs, Requested
    <3> QED
      BY <1>0, <2>1, <2>2, <2>4, <3>1, GoesOn DEF Steps
  <2> QED
    BY <1>7, <2>1, <2>3, <2>4 DEF gatewayReplaceRoles, ReplaceUserRoles
<1>8. CASE ClearRoles(r)
  <2> DEFINE g == roles[Arg(r).target]
             q == [requests[r] EXCEPT !.step = "assign", !.got = g]
  <2>1. requests[r].op = "replaceRoles" /\ requests[r].step = "clear" /\ Busy(r)
    BY <1>8 DEF ClearRoles, At, Busy
  <2>2. RunningOK(requests[r]) /\ requests[r].wrote = FALSE
    BY <2>1, BusyRuns DEF RunningOK, KnowsOK
  <2>3. g \subseteq Roles
    BY <2>1, <2>2, InputsAssumption DEF RunningOK, Arg, AccountsTypeOK
  <2> HIDE DEF g
  <2>4. /\ q.step = "assign" /\ q.op = "replaceRoles" /\ q.wrote = FALSE /\ q.got = g
        /\ q.arg = requests[r].arg /\ q.user = requests[r].user /\ q \in Running
    <3>1. requests[r] \in Running
      BY <2>2 DEF RunningOK
    <3>2. q.step = "assign" /\ q.op = "replaceRoles" /\ q.got = g
      BY <2>1, <3>1 DEF Running
    <3>3. q.wrote = FALSE /\ q.arg = requests[r].arg /\ q.user = requests[r].user
      BY <2>2, <3>1 DEF Running
    <3>4. q \in Running
      BY <2>3, <3>1, RunningStepGot DEF Things, Steps
    <3> QED
      BY <3>2, <3>3, <3>4
  <2>5. Set(r, q) /\ UNCHANGED roles
    BY <1>8 DEF ClearRoles, g, accountVars
  <2> HIDE DEF q
  <2>6. g = roles[q.arg.target]
    BY <2>4 DEF g, Arg
  <2>7. Progress(r, q)
    BY <2>1, <2>2, <2>4, <2>5, <2>6, AdminOpsAre DEF Progress, RunningOK, KnowsOK
  <2> QED
    BY <2>1, <2>5, <2>7 DEF Served
<1>9. CASE AssignRoles(r)
  <2> DEFINE q == [requests[r] EXCEPT !.step = "roles", !.wrote = TRUE]
  <2>1. requests[r].op = "replaceRoles" /\ requests[r].step = "assign" /\ Busy(r)
    BY <1>9 DEF AssignRoles, At, Busy
  <2>2. RunningOK(requests[r])
    BY <2>1, BusyRuns
  <2>4. /\ q.step = "roles" /\ q.op = "replaceRoles" /\ q.wrote = TRUE
        /\ q.arg = requests[r].arg /\ q.user = requests[r].user /\ q \in Running
    <3>1. requests[r] \in Running
      BY <2>2 DEF RunningOK
    <3>2. q.step = "roles" /\ q.op = "replaceRoles" /\ q.wrote = TRUE
      BY <2>1, <3>1 DEF Running
    <3>3. q.arg = requests[r].arg /\ q.user = requests[r].user
      BY <3>1 DEF Running
    <3>4. q \in Running
      BY <3>1, RunningWrote DEF Steps
    <3> QED
      BY <3>2, <3>3, <3>4
  <2>5. Set(r, q)
    BY <1>9 DEF AssignRoles
  <2> HIDE DEF q
  <2>7. Progress(r, q)
    BY <2>1, <2>2, <2>4, <2>5, AdminOpsAre DEF Progress, RunningOK, KnowsOK
  <2> QED
    BY <2>1, <2>5, <2>7 DEF Served
<1>10. CASE RolesDeadlock(r)
  <2>1. requests[r].step = "assign" /\ Busy(r) /\ Answer(r, 500)
    BY <1>10 DEF RolesDeadlock, At, Busy
  <2> QED
    BY <2>1, Refused DEF Answers
<1> QED
  BY <1>1, <1>2, <1>3, <1>4, <1>5, <1>6, <1>7, <1>8, <1>9, <1>10 DEF AccountsStep

-----------------------------------------------------------------------------
(* product-rpc. *)

(* At most one snapshot of a SKU is on offer. *)
LEMMA OffersTyped ==
  ASSUME CatalogInv
  PROVE  /\ SnapshotsOf(Active) \subseteq Snapshots
         /\ \A s, t \in SnapshotsOf(Active) : s.code = t.code => s = t
<1>1. ASSUME NEW s \in SnapshotsOf(Active)
      PROVE  \E i \in DOMAIN products : \E m \in DOMAIN products[i].skus :
               s = [code |-> products[i].skus[m].code, name |-> products[i].name,
                    price |-> products[i].skus[m].price]
  BY <1>1 DEF SnapshotsOf, Active, Range
<1>2. ASSUME NEW i \in DOMAIN products, NEW m \in DOMAIN products[i].skus
      PROVE  /\ products[i].name \in Texts /\ products[i].skus[m] \in SKURows
             /\ products[i].skus[m].code \in Codes(products[i])
  <2>1. products[i] \in ProductRows
    BY DEF CatalogInv
  <2>2. products[i].name \in Texts /\ products[i].skus \in Seq(SKURows)
    BY <2>1 DEF ProductRows
  <2>3. products[i].skus[m] \in SKURows
    BY <2>2
  <2>4. products[i].skus[m].code \in Codes(products[i])
    BY DEF Codes, Range
  <2> QED
    BY <2>2, <2>3, <2>4
<1>3. SnapshotsOf(Active) \subseteq Snapshots
  BY <1>1, <1>2 DEF Snapshots, SKURows
<1>4. ASSUME NEW s \in SnapshotsOf(Active), NEW t \in SnapshotsOf(Active), s.code = t.code
      PROVE  s = t
  <2>1. PICK i \in DOMAIN products : \E m \in DOMAIN products[i].skus :
          s = [code |-> products[i].skus[m].code, name |-> products[i].name,
               price |-> products[i].skus[m].price]
    BY <1>1
  <2>2. PICK j \in DOMAIN products : \E n \in DOMAIN products[j].skus :
          t = [code |-> products[j].skus[n].code, name |-> products[j].name,
               price |-> products[j].skus[n].price]
    BY <1>1
  <2>6. PICK m \in DOMAIN products[i].skus :
          s = [code |-> products[i].skus[m].code, name |-> products[i].name,
               price |-> products[i].skus[m].price]
    BY <2>1
  <2>7. PICK n \in DOMAIN products[j].skus :
          t = [code |-> products[j].skus[n].code, name |-> products[j].name,
               price |-> products[j].skus[n].price]
    BY <2>2
  <2>3. products[i].skus[m].code = products[j].skus[n].code
    BY <1>4, <2>6, <2>7
  <2>4. i = j
    BY <1>2, <2>3 DEF CatalogInv
  <2>5. m = n
    BY <2>3, <2>4 DEF CatalogInv, Distinct
  <2> QED
    BY <2>4, <2>5, <2>6, <2>7
<1> QED
  BY <1>3, <1>4

AskedRows == [code : STRING, price : Int]

Accepts(arg) == CreateVerdict(arg) = ""

(* What Service.Create lets through. *)
LEMMA VerdictIsGood ==
  ASSUME NEW arg, NEW skus \in Seq(AskedRows), arg.skus = skus, Accepts(arg)
  PROVE  skus \in Seq(SKURows) /\ Distinct(skus)
<1> DEFINE bad == {i \in DOMAIN skus : skus[i].price < 0}
           twice == {i \in DOMAIN skus :
                       \E j \in 1 .. i - 1 : skus[j].code = skus[i].code}
<1>1. bad \cup twice = {}
  BY Zenon DEF Accepts, CreateVerdict
<1>2. DOMAIN skus = 1 .. Len(skus) /\ Len(skus) \in Nat
  OBVIOUS
<1>3. ASSUME NEW i \in 1 .. Len(skus) PROVE skus[i] \in SKURows
  <2>1. ~ (skus[i].price < 0)
    BY <1>1, <1>2
  <2>2. PICK row \in AskedRows : row = skus[i]
    BY <1>2
  <2>3. row \in SKURows
    BY <2>1, <2>2 DEF AskedRows, SKURows, Texts
  <2> QED
    BY <2>2, <2>3
<1>4. skus \in Seq(SKURows)
  <2>1. skus = [i \in 1 .. Len(skus) |-> skus[i]]
    OBVIOUS
  <2> QED
    BY <1>2, <1>3, <2>1, IsASeq
<1>5. ASSUME NEW i \in DOMAIN skus, NEW j \in DOMAIN skus,
             skus[i].code = skus[j].code
      PROVE  i = j
  <2>1. ~ (i < j) /\ ~ (j < i)
    BY <1>1, <1>2, <1>5
  <2> QED
    BY <1>2, <2>1
<1> QED
  BY <1>4, <1>5 DEF Distinct

(* The next code of a creation, and what is inserted with it. *)
LEMMA InsertedNext ==
  ASSUME RequestInv, NEW r \in Slots, Inserting(r)
  PROVE  LET q == requests[r] IN
         /\ q.arg.skus \in Seq(SKURows) /\ Distinct(q.arg.skus)
         /\ Complete(r) => q.got = CodesUpTo(q.arg.skus, Len(q.arg.skus))
         /\ ~Complete(r) =>
              /\ NextCode(r) \in Texts \ q.got
              /\ \E n \in 0 .. Len(q.arg.skus) :
                   q.got \cup {NextCode(r)} = CodesUpTo(q.arg.skus, n)
<1> DEFINE q == requests[r]
           skus == q.arg.skus
<1>1. q.op = "createProduct" /\ q.step = "insert" /\ Busy(r)
  BY DEF Inserting, At, Busy
<1>2. InsertedSome(q)
  BY <1>1, BusyRuns DEF RunningOK, KnowsOK
<1>3. skus \in Seq(SKURows) /\ Distinct(skus)
  BY <1>2 DEF InsertedSome
<1>4. PICK n \in 0 .. Len(skus) : q.got = CodesUpTo(skus, n)
  BY <1>2 DEF InsertedSome
<1>5. Cardinality(q.got) = n /\ Len(skus) \in Nat
  BY <1>3, <1>4, CodesCounted
<1>6. Complete(r) <=> n = Len(skus)
  BY <1>5 DEF Complete, Arg
<1>7. ASSUME n # Len(skus)
      PROVE  /\ NextCode(r) \in Texts \ q.got
             /\ \E m \in 0 .. Len(skus) : q.got \cup {NextCode(r)} = CodesUpTo(skus, m)
  <2>1. n \in 0 .. Len(skus) - 1
    BY <1>5, <1>7
  <2>2. NextCode(r) = skus[n + 1].code
    BY <1>5 DEF NextCode, Arg
  <2> HIDE DEF skus
  <2>3. n + 1 \in 1 .. Len(skus) /\ skus[n + 1].code \notin CodesUpTo(skus, n)
        /\ CodesUpTo(skus, n) \cup {skus[n + 1].code} = CodesUpTo(skus, n + 1)
    BY <1>3, <2>1, NextIsNew
  <2>4. skus[n + 1] \in SKURows
    BY <1>3, <2>3
  <2>5. n + 1 \in 0 .. Len(skus)
    BY <2>3
  <2> QED
    BY <1>4, <2>2, <2>3, <2>4, <2>5 DEF SKURows
<1> QED
  BY <1>3, <1>4, <1>6, <1>7

(* A page that a service is asked for. *)
LEMMA PageIsPositive ==
  ASSUME NEW page \in Int
  PROVE  /\ AskedPage(page) \in 0 .. PageLimit - 1
         /\ ListPublic(AskedPage(page)) \in 1 .. PageLimit
<1>1. PageLimit \in Nat \ {0}
  BY ShopAssumption
<1>2. \A n \in Nat : n % PageLimit \in 0 .. PageLimit - 1
  BY <1>1
<1>3. AskedPage(page) \in 0 .. PageLimit - 1
  BY <1>2 DEF AskedPage
<1> QED
  BY <1>1, <1>3 DEF ListPublic

(* A listing that has counted and is about to read its page. *)
LEMMA Counted ==
  ASSUME RequestInv, NEW r \in Slots, Busy(r), requests[r].wrote = FALSE,
         requests[r].op \in {"listProducts", "listNotifications"},
         NEW page \in 1 .. PageLimit,
         Set(r, [requests[r] EXCEPT !.step = "rows", !.got = {page}])
  PROVE  Served(r)
<1> DEFINE g == {page}
           q == [requests[r] EXCEPT !.step = "rows", !.got = g]
<1>1. RunningOK(requests[r]) /\ requests[r] \in Running
  BY BusyRuns DEF RunningOK
<1>2. g \in SUBSET Things /\ g \subseteq 1 .. PageLimit
  BY ShopAssumption DEF Things
<1>3. Set(r, q)
  OBVIOUS
<1> HIDE DEF g
<1>4. q.step = "rows" /\ q.op = requests[r].op /\ q.got = g
  BY <1>1 DEF Running
<1>5. q.wrote = FALSE /\ q.arg = requests[r].arg /\ q.user = requests[r].user
  BY <1>1 DEF Running
<1>6. q \in Running
  BY <1>1, <1>2, RunningStepGot DEF Steps
<1> HIDE DEF q
<1>7. Progress(r, q)
  BY <1>1, <1>2, <1>4, <1>5, <1>6, AdminOpsAre DEF Progress, RunningOK, KnowsOK
<1> QED
  BY <1>3, <1>7 DEF Served

LEMMA ServeCatalog ==
  ASSUME RequestInv, CatalogInv, NEW r \in Slots, CatalogStep(r)
  PROVE  Busy(r) /\ Served(r)
<1>1. CASE gatewayCreateProduct(r)
  <2>1. requests[r].op = "createProduct" /\ requests[r].step = "call" /\ Busy(r)
    BY <1>1 DEF gatewayCreateProduct, At, Busy
  <2>2. /\ RunningOK(requests[r]) /\ requests[r] \in Running
        /\ requests[r].got = {} /\ requests[r].wrote = FALSE
    BY <2>1, BusyRuns DEF RunningOK, KnowsOK
  <2>3. \/ Accepts(Arg(r)) /\ GoTo(r, "insert")
        \/ \E err : Fail(r, productError, err)
    BY <1>1, Zenon DEF gatewayCreateProduct, CreateProduct, Accepts
  <2>4. CASE \E err : Fail(r, productError, err)
    BY <2>1, <2>4, Failed
  <2>5. CASE Accepts(Arg(r)) /\ GoTo(r, "insert")
    <3> DEFINE q == [requests[r] EXCEPT !.step = "insert"]
    <3>1. q.step = "insert" /\ q.op = "createProduct" /\ q.got = {}
      BY <2>1, <2>2 DEF Running
    <3>2. q.wrote = FALSE /\ q.arg = requests[r].arg /\ q.user = requests[r].user
      BY <2>2 DEF Running
    <3>3. q \in Running
      <4>1. "insert" \in Steps \ {"done"}
        BY DEF Steps
      <4> QED
        BY <2>2, <4>1, RunningStep
    <3>4. Set(r, q)
      BY <2>5 DEF GoTo
    <3> HIDE DEF q
    <3>5. PICK skus \in Seq(AskedRows) : Arg(r).skus = skus
      BY <2>1, <2>2, InputsAssumption DEF RunningOK, Arg, AskedRows
    <3>6. skus \in Seq(SKURows) /\ Distinct(skus)
      BY <2>5, <3>5, VerdictIsGood
    <3>7. q.got = CodesUpTo(skus, 0) /\ 0 \in 0 .. Len(skus)
      BY <3>1, <3>6 DEF CodesUpTo
    <3>8. InsertedSome(q)
      BY <3>2, <3>5, <3>6, <3>7 DEF InsertedSome, Arg
    <3>9. Progress(r, q)
      BY <2>1, <2>2, <3>1, <3>2, <3>3, <3>8, AdminOpsAre DEF Progress, RunningOK, KnowsOK
    <3> QED
      BY <2>1, <3>4, <3>9 DEF Served
  <2> QED
    BY <2>1, <2>3, <2>4, <2>5
<1>2. CASE InsertSKU(r)
  <2>1. requests[r].op = "createProduct" /\ requests[r].step = "insert" /\ Busy(r) /\ Inserting(r)
    BY <1>2 DEF InsertSKU, Inserting, At, Busy
  <2>2. RunningOK(requests[r]) /\ requests[r] \in Running /\ requests[r].wrote = FALSE
    BY <2>1, BusyRuns DEF RunningOK, KnowsOK
  <2>3. CASE \E err : Fail(r, productError, err)
    BY <2>1, <2>3, Failed
  <2>4. CASE Set(r, [requests[r] EXCEPT !.got = @ \cup {NextCode(r)}])
    <3> DEFINE g == requests[r].got \cup {NextCode(r)}
               q == [requests[r] EXCEPT !.got = g]
    <3>1. ~Complete(r)
      BY <1>2 DEF InsertSKU
    <3>2. /\ requests[r].arg.skus \in Seq(SKURows) /\ Distinct(requests[r].arg.skus)
          /\ NextCode(r) \in Texts
          /\ \E n \in 0 .. Len(requests[r].arg.skus) : g = CodesUpTo(requests[r].arg.skus, n)
      BY <2>1, <3>1, InsertedNext
    <3>3. g \in SUBSET Things
      BY <2>2, <3>2 DEF Running, Things
    <3>4. Set(r, q)
      BY <2>4
    <3> HIDE DEF g
    <3>5. q.step = "insert" /\ q.op = "createProduct" /\ q.got = g
      BY <2>1, <2>2 DEF Running
    <3>6. q.wrote = FALSE /\ q.arg = requests[r].arg /\ q.user = requests[r].user
      BY <2>2 DEF Running
    <3>7. q \in Running
      BY <2>2, <3>3, RunningGot
    <3> HIDE DEF q
    <3>8. InsertedSome(q)
      BY <3>2, <3>5, <3>6 DEF InsertedSome
    <3>9. Progress(r, q)
      BY <1>2, <2>1, <2>2, <3>5, <3>6, <3>7, <3>8, AdminOpsAre DEF Progress, RunningOK, KnowsOK
    <3> QED
      BY <2>1, <3>4, <3>9 DEF Served
  <2>5. \/ Set(r, [requests[r] EXCEPT !.got = @ \cup {NextCode(r)}])
        \/ \E err : Fail(r, productError, err)
    BY <1>2 DEF InsertSKU
  <2> QED
    BY <2>1, <2>3, <2>4, <2>5
<1>3. CASE SKUDeadlock(r)
  <2>1. requests[r].step = "insert" /\ Busy(r) /\ Answer(r, 500)
    BY <1>3 DEF SKUDeadlock, Inserting, At, Busy
  <2> QED
    BY <2>1, Refused DEF Answers
<1>4. CASE CommitProduct(r)
  <2>1. requests[r].step = "insert" /\ Busy(r) /\ Written(r, 200)
    BY <1>4 DEF CommitProduct, Inserting, At, Busy
  <2> QED
    BY <2>1, Committed
<1>5. CASE gatewayUpdateProduct(r) \/ gatewayUpdateProductStatus(r)
  <2>1. requests[r].step = "call" /\ Busy(r)
    BY <1>5 DEF gatewayUpdateProduct, gatewayUpdateProductStatus, At, Busy
  <2>2. Written(r, 200) \/ \E err : Fail(r, productError, err)
    BY <1>5, Zenon
    DEF gatewayUpdateProduct, gatewayUpdateProductStatus, UpdateProduct, SetStatus, UpdateStatus, Update
  <2> QED
    BY <2>1, <2>2, Committed, Failed
<1>6. CASE gatewayListProducts(r)
  <2>1. requests[r].op = "listProducts" /\ requests[r].step = "call" /\ Busy(r)
    BY <1>6 DEF gatewayListProducts, At, Busy
  <2>2. RunningOK(requests[r]) /\ requests[r].wrote = FALSE
    BY <2>1, BusyRuns DEF RunningOK, KnowsOK
  <2>3. PICK page : page = ListPublic(AskedPage(Arg(r).page))
    OBVIOUS
  <2>4. Arg(r).page \in Int
    BY <2>1, <2>2, InputsAssumption DEF RunningOK, Arg
  <2>5. page \in 1 .. PageLimit
    BY <2>3, <2>4, PageIsPositive
  <2>6. Set(r, [requests[r] EXCEPT !.step = "rows", !.got = {page}])
    BY <1>6, <2>3 DEF gatewayListProducts
  <2> QED
    BY <2>1, <2>2, <2>5, <2>6, Counted
<1>7. CASE ListActive(r)
  <2>1. requests[r].op = "listProducts" /\ requests[r].step = "rows" /\ Busy(r) /\ Answer(r, 200)
    BY <1>7 DEF ListActive, At, Busy
  <2> QED
    BY <2>1, Told, AdminOpsAre DEF Writes
<1>8. CASE gatewayGetProduct(r)
  <2>1. requests[r].op = "getProduct" /\ requests[r].step = "call" /\ Busy(r)
    BY <1>8 DEF gatewayGetProduct, At, Busy
  <2>2. Answer(r, 200) \/ \E err : Fail(r, productError, err)
    BY <1>8 DEF gatewayGetProduct
  <2> QED
    BY <2>1, <2>2, Told, Failed, AdminOpsAre DEF Writes
<1> QED
  BY <1>1, <1>2, <1>3, <1>4, <1>5, <1>6, <1>7, <1>8 DEF CatalogStep

-----------------------------------------------------------------------------
(* order-rpc, notification-rpc, seckill-rpc and inventory-rpc. *)

ItemRows == [code : STRING, quantity : Int]

(* The line an order fetches next, and what it has after it. *)
LEMMA NextLine ==
  ASSUME NEW q, NEW items \in Seq(ItemRows), q.arg.items = items,
         Distinct(items), NEW n \in 0 .. Len(items) - 1, FetchedFirst(q, n)
  PROVE  Cardinality(q.got) = n /\ n + 1 \in 1 .. Len(items)
<1>1. n \in 0 .. Len(items)
  OBVIOUS
<1>2. /\ q.got \subseteq Snapshots
      /\ \A s, t \in q.got : s.code = t.code => s = t
      /\ {s.code : s \in q.got} = CodesUpTo(items, n)
  BY DEF FetchedFirst
<1>3. IsFiniteSet(CodesUpTo(items, n)) /\ Cardinality(CodesUpTo(items, n)) = n
  BY <1>1, CodesCounted
<1>4. Cardinality(q.got) = n
  BY <1>2, <1>3, SnapshotsCounted
<1> QED
  BY <1>4, NextIsNew

LEMMA FetchedNext ==
  ASSUME NEW q, NEW items \in Seq(ItemRows), q.arg.items = items,
         Distinct(items), NEW n \in 0 .. Len(items) - 1, FetchedFirst(q, n),
         NEW g \in SUBSET Snapshots, g # {},
         \A s \in g : s.code = items[n + 1].code, \A s, t \in g : s = t,
         NEW p, p.arg.items = items, p.got = q.got \cup g
  PROVE  FetchedFirst(p, n + 1)
<1>2. /\ q.got \subseteq Snapshots
      /\ \A s, t \in q.got : s.code = t.code => s = t
      /\ {s.code : s \in q.got} = CodesUpTo(items, n)
  BY DEF FetchedFirst
<1>5. /\ items[n + 1].code \notin CodesUpTo(items, n)
      /\ CodesUpTo(items, n) \cup {items[n + 1].code} = CodesUpTo(items, n + 1)
  BY NextIsNew
<1>6. \A s \in q.got : s.code # items[n + 1].code
  BY <1>2, <1>5
<1>7. \A s, t \in q.got \cup g : s.code = t.code => s = t
  BY <1>2, <1>6
<1>8. {s.code : s \in q.got \cup g} = {s.code : s \in q.got} \cup {items[n + 1].code}
  OBVIOUS
<1> QED
  BY <1>2, <1>5, <1>7, <1>8 DEF FetchedFirst

LEMMA ServeResolveLine ==
  ASSUME RequestInv, CatalogInv, NEW r \in Slots, ResolveLine(r)
  PROVE  Busy(r) /\ Served(r)
<1>1. requests[r].op = "createOrder" /\ requests[r].step = "resolve" /\ Busy(r)
  BY DEF ResolveLine, At, Busy
<1>2. /\ RunningOK(requests[r]) /\ requests[r] \in Running /\ requests[r].wrote = FALSE
      /\ ValidItems(requests[r].arg.items)
  BY <1>1, BusyRuns DEF RunningOK, KnowsOK
<1>3. PICK q : q = requests[r]
  OBVIOUS
<1>4. PICK items \in Seq(ItemRows) : q.arg.items = items
  BY <1>1, <1>2, <1>3, InputsAssumption DEF RunningOK, ItemRows
<1>5. PICK n \in 0 .. Len(items) - 1 : FetchedFirst(q, n)
  BY <1>1, <1>2, <1>3, <1>4 DEF RunningOK, KnowsOK
<1>6. Distinct(items)
  BY <1>2, <1>3, <1>4, Zenon DEF ValidItems
<1>7. Cardinality(q.got) = n /\ n + 1 \in 1 .. Len(items)
  BY <1>4, <1>5, <1>6, NextLine
<1> DEFINE code == items[n + 1].code
           found == FindActiveSKU(code)
<1>8. GetOrderItemSnapshot(r, code) /\ UNCHANGED products
  BY <1>3, <1>4, <1>7 DEF ResolveLine, Arg
<1>9. /\ found \subseteq Snapshots /\ found \subseteq SnapshotsOf(Active)
      /\ \A s \in found : s.code = items[n + 1].code
      /\ \A s, t \in found : s = t
  BY OffersTyped DEF FindActiveSKU
<1>10. CASE found = {}
  <2>1. \E err : Fail(r, orderError, err)
    BY <1>8, <1>10 DEF GetOrderItemSnapshot
  <2> QED
    BY <1>1, <2>1, Failed
<1>11. CASE found # {}
  <2> DEFINE g == q.got \cup found
             step == IF n + 1 = Len(items) THEN "store" ELSE "resolve"
             p == [q EXCEPT !.step = step, !.got = g]
  <2>1. Set(r, p)
    <3>1. Set(r, [requests[r] EXCEPT
                !.got = q.got \cup found,
                !.step = IF Cardinality(q.got) + 1 = Len(items) THEN "store" ELSE "resolve"])
      BY <1>1, <1>3, <1>4, <1>8, <1>11 DEF GetOrderItemSnapshot, Arg
    <3> QED
      BY <1>3, <1>7, <3>1
  <2>2. PICK h \in SUBSET Snapshots : h = found
    BY <1>9
  <2>14. h # {} /\ (\A s \in h : s.code = items[n + 1].code) /\ (\A s, t \in h : s = t)
    BY <1>9, <1>11, <2>2
  <2>15. g = q.got \cup h /\ g \subseteq Snapshots
    BY <1>5, <2>2 DEF FetchedFirst
  <2>3. g \in SUBSET Things /\ g \subseteq q.got \cup SnapshotsOf(Active)
    BY <1>9, <2>15 DEF Things
  <2>4. step \in Steps \ {"done"} /\ step \in {"resolve", "store"}
    BY DEF Steps
  <2> HIDE DEF g, step
  <2>5. p.step = step /\ p.op = "createOrder" /\ p.got = g
    BY <1>1, <1>2, <1>3 DEF Running
  <2>6. p.wrote = FALSE /\ p.arg = requests[r].arg /\ p.user = requests[r].user
    BY <1>2, <1>3 DEF Running
  <2>7. p \in Running
    BY <1>2, <1>3, <2>3, <2>4, RunningStepGot
  <2> HIDE DEF p
  <2>8. p.arg.items = items
    BY <1>3, <1>4, <2>6
  <2>9. FetchedFirst(p, n + 1)
    <3>1. PICK c : c = p
      OBVIOUS
    <3>2. c.arg.items = items /\ c.got = q.got \cup h
      BY <2>5, <2>8, <2>15, <3>1
    <3>3. FetchedFirst(c, n + 1)
      BY <1>4, <1>5, <1>6, <2>14, <3>2, FetchedNext
    <3> QED
      BY <3>1, <3>3
  <2>10. /\ step = "store" => n + 1 = Len(items)
         /\ step = "resolve" => n + 1 \in 0 .. Len(items) - 1
    BY <1>7 DEF step
  <2>11. KnowsOK(p)
    BY <1>2, <1>3, <1>4, <2>4, <2>5, <2>6, <2>8, <2>9, <2>10 DEF KnowsOK
  <2>12. Progress(r, p)
    BY <1>1, <1>2, <1>3, <1>8, <2>3, <2>5, <2>6, <2>7, <2>11, AdminOpsAre DEF Progress, RunningOK
  <2> QED
    BY <1>1, <2>1, <2>12 DEF Served
<1> QED
  BY <1>10, <1>11

LEMMA ServeCheckout ==
  ASSUME RequestInv, CatalogInv, NEW r \in Slots, CheckoutStep(r)
  PROVE  Busy(r) /\ Served(r)
<1>1. CASE gatewayCreateOrder(r)
  <2>1. requests[r].op = "createOrder" /\ requests[r].step = "call" /\ Busy(r) /\ UNCHANGED products
    BY <1>1 DEF gatewayCreateOrder, At, Busy
  <2>2. requests[r].got = {} /\ requests[r].wrote = FALSE
    BY <2>1, BusyRuns DEF RunningOK, KnowsOK
  <2>3. CASE \E err : Fail(r, orderError, err)
    BY <2>1, <2>3, Failed
  <2>4. CASE ValidItems(Arg(r).items) /\ GoTo(r, "resolve")
    BY <2>1, <2>2, <2>4, GoesOn, AdminOpsAre DEF Steps
  <2> QED
    BY <1>1, <2>1, <2>3, <2>4 DEF gatewayCreateOrder, CreateOrder
<1>2. CASE ResolveLine(r)
  BY <1>2, ServeResolveLine
<1>3. CASE StoreOrder(r)
  <2>1. requests[r].step = "store" /\ Busy(r)
    BY <1>3 DEF StoreOrder, At, Busy
  <2>2. Written(r, 200) \/ \E err : Fail(r, orderError, err)
    BY <1>3 DEF StoreOrder, CreateIdempotent
  <2> QED
    BY <2>1, <2>2, Committed, Failed
<1>4. CASE gatewayGetOrder(r)
  <2>1. requests[r].op = "getOrder" /\ requests[r].step = "call" /\ Busy(r)
    BY <1>4 DEF gatewayGetOrder, At, Busy
  <2>2. Answer(r, 200) \/ \E err : Fail(r, orderError, err)
    BY <1>4 DEF gatewayGetOrder
  <2> QED
    BY <2>1, <2>2, Told, Failed, AdminOpsAre DEF Writes
<1> QED
  BY <1>1, <1>2, <1>3, <1>4 DEF CheckoutStep

LEMMA ServeInbox ==
  ASSUME RequestInv, NEW r \in Slots, InboxStep(r)
  PROVE  Busy(r) /\ Served(r)
<1>1. CASE gatewayListNotifications(r)
  <2>1. requests[r].op = "listNotifications" /\ requests[r].step = "call" /\ Busy(r)
    BY <1>1 DEF gatewayListNotifications, At, Busy
  <2>2. RunningOK(requests[r]) /\ requests[r].wrote = FALSE
    BY <2>1, BusyRuns DEF RunningOK, KnowsOK
  <2>3. PICK page : page = AskedPage(Arg(r).page)
    OBVIOUS
  <2>4. Arg(r).page \in Int
    BY <2>1, <2>2, InputsAssumption DEF RunningOK, Arg
  <2>5. page \in 0 .. PageLimit - 1
    BY <2>3, <2>4, PageIsPositive
  <2>6. CASE \E err : Fail(r, notificationError, err)
    BY <2>1, <2>6, Failed
  <2>7. CASE ~ (page < 1) /\ Set(r, [requests[r] EXCEPT !.step = "rows", !.got = {page}])
    <3>1. page \in 1 .. PageLimit
      BY <2>5, <2>7, ShopAssumption
    <3> QED
      BY <2>1, <2>2, <2>7, <3>1, Counted
  <2> QED
    BY <1>1, <2>1, <2>3, <2>6, <2>7 DEF gatewayListNotifications, ListNotifications
<1>2. CASE ListOwned(r)
  <2>1. /\ requests[r].op = "listNotifications" /\ requests[r].step = "rows"
        /\ Busy(r) /\ Answer(r, 200)
    BY <1>2 DEF ListOwned, At, Busy
  <2> QED
    BY <2>1, Told, AdminOpsAre DEF Writes
<1>3. CASE gatewayMarkNotificationRead(r)
  <2>1. requests[r].step = "call" /\ Busy(r)
    BY <1>3 DEF gatewayMarkNotificationRead, At, Busy
  <2>2. Answer(r, 400) \/ Written(r, 200) \/ \E err : Fail(r, notificationError, err)
    BY <1>3 DEF gatewayMarkNotificationRead, MarkReadOwned
  <2> QED
    BY <2>1, <2>2, Refused, Committed, Failed DEF Answers
<1> QED
  BY <1>1, <1>2, <1>3 DEF InboxStep

LEMMA ServeSaleSetup ==
  ASSUME RequestInv, CatalogInv, NEW r \in Slots, SaleSetupStep(r)
  PROVE  Busy(r) /\ Served(r)
<1>1. CASE gatewayCreateActivity(r)
  <2>1. requests[r].step = "call" /\ Busy(r)
    BY <1>1 DEF gatewayCreateActivity, At, Busy
  <2>2. Written(r, 200) \/ \E err : Fail(r, seckillError, err)
    BY <1>1 DEF gatewayCreateActivity, CreateActivity, InsertActivity
  <2> QED
    BY <2>1, <2>2, Committed, Failed
<1>2. CASE gatewayCreateSeckillItem(r)
  <2>1. /\ requests[r].op = "createSeckillItem" /\ requests[r].step = "call"
        /\ Busy(r) /\ UNCHANGED products
    BY <1>2 DEF gatewayCreateSeckillItem, At, Busy
  <2>2. requests[r].got = {} /\ requests[r].wrote = FALSE
    BY <2>1, BusyRuns DEF RunningOK, KnowsOK
  <2>3. GoTo(r, "resolve") \/ \E err : Fail(r, seckillError, err)
    BY <1>2, Zenon DEF gatewayCreateSeckillItem, CreateSeckillItem
  <2>4. CASE GoTo(r, "resolve")
    BY <2>1, <2>2, <2>4, GoesOn, AdminOpsAre DEF Steps
  <2> QED
    BY <2>1, <2>3, <2>4, Failed
<1>3. CASE GetActiveSKUSnapshot(r)
  <2>1. /\ requests[r].op = "createSeckillItem" /\ requests[r].step = "resolve"
        /\ Busy(r) /\ UNCHANGED products
    BY <1>3 DEF GetActiveSKUSnapshot, At, Busy
  <2>2. RunningOK(requests[r]) /\ requests[r] \in Running /\ requests[r].wrote = FALSE
    BY <2>1, BusyRuns DEF RunningOK, KnowsOK
  <2>3. CASE \E err : Fail(r, seckillError, err)
    BY <2>1, <2>3, Failed
  <2> DEFINE g == FindActiveSKU(Arg(r).code)
             q == [requests[r] EXCEPT !.got = g, !.step = "store"]
  <2>4. CASE Set(r, q)
    <3>1. g \subseteq SnapshotsOf(Active) /\ g \in SUBSET Things
      BY OffersTyped DEF FindActiveSKU, Things
    <3> HIDE DEF g
    <3>2. q.step = "store" /\ q.op = "createSeckillItem" /\ q.got = g
      BY <2>1, <2>2 DEF Running
    <3>3. q.wrote = FALSE /\ q.arg = requests[r].arg /\ q.user = requests[r].user
      BY <2>2 DEF Running
    <3>4. q \in Running
      <4>1. "store" \in Steps \ {"done"}
        BY DEF Steps
      <4>2. q = [requests[r] EXCEPT !.step = "store", !.got = g]
        OBVIOUS
      <4> QED
        BY <2>2, <3>1, <4>1, <4>2, RunningStepGot
    <3>5. Set(r, q)
      BY <2>4
    <3> HIDE DEF q
    <3>6. Progress(r, q)
      BY <2>1, <2>2, <3>1, <3>2, <3>3, <3>4, AdminOpsAre DEF Progress, RunningOK, KnowsOK
    <3> QED
      BY <2>1, <3>5, <3>6 DEF Served
  <2> QED
    BY <1>3, <2>1, <2>3, <2>4 DEF GetActiveSKUSnapshot
<1>4. CASE CreateInventoryItem(r)
  <2>1. requests[r].step = "store" /\ Busy(r)
    BY <1>4 DEF CreateInventoryItem, At, Busy
  <2>2. Written(r, 200) \/ \E err : Fail(r, seckillError, err)
    BY <1>4 DEF CreateInventoryItem
  <2> QED
    BY <2>1, <2>2, Committed, Failed
<1> QED
  BY <1>1, <1>2, <1>3, <1>4 DEF SaleSetupStep

(* A deadline that passes changes the answer and nothing else. *)
LEMMA ServeGiveUp ==
  ASSUME RequestInv, NEW r \in Slots, GiveUp(r), UNCHANGED shopVars
  PROVE  Busy(r) /\ Served(r)
<1> DEFINE q == [requests[r] EXCEPT !.answer = 504]
<1>1. Busy(r) /\ requests[r].step \in {"call", "assign", "insert", "store"}
  BY DEF GiveUp
<1>2. RunningOK(requests[r]) /\ requests[r] \in Running
  BY <1>1, BusyRuns DEF RunningOK
<1>3. Set(r, q) /\ UNCHANGED products
  BY DEF GiveUp, writeRPCError, shopVars
<1>4. /\ q.step = requests[r].step /\ q.op = requests[r].op /\ q.got = requests[r].got
      /\ q.arg = requests[r].arg /\ q.user = requests[r].user
  BY <1>2 DEF Running
<1>5. requests[r].wrote = FALSE /\ q.wrote = FALSE
  <2>1. q.wrote = requests[r].wrote /\ requests[r].wrote \in BOOLEAN
    BY <1>2 DEF Running
  <2>2. requests[r].wrote = TRUE => requests[r].step = "roles"
    BY <1>2 DEF RunningOK, KnowsOK
  <2> QED
    BY <1>1, <2>1, <2>2
<1>6. q \in Running
  <2>1. PICK p \in Running : p = requests[r]
    BY <1>2
  <2>2. PICK answer \in {0, 504} : answer = 504
    OBVIOUS
  <2>3. [p EXCEPT !.answer = answer] \in Running
    BY DEF Running
  <2> QED
    BY <2>1, <2>2, <2>3
<1> HIDE DEF q
<1>7. KnowsOK(q)
  BY <1>1, <1>2, <1>4, <1>5, ZenonT(40) DEF RunningOK, KnowsOK, InsertedSome, FetchedFirst
<1>8. RunningOK(q)
  BY <1>2, <1>4, <1>6, <1>7 DEF RunningOK
<1>9. Progress(r, q)
  BY <1>1, <1>3, <1>4, <1>8 DEF Progress, Inserting, At
<1> QED
  BY <1>1, <1>3, <1>9 DEF Served

(* Every step of a handler ends its request or lets it go on. *)
LEMMA Serving ==
  ASSUME RequestInv, AccountsTypeOK, CatalogInv, NEW r \in Slots, Serve(r)
  PROVE  Busy(r) /\ Served(r)
<1>1. CASE Breaks(r)
  <2>1. Busy(r) /\ Answer(r, 503)
    BY <1>1 DEF Breaks, writeRPCError
  <2> QED
    BY <2>1, Refused DEF Answers
<1>2. CASE GiveUp(r) /\ UNCHANGED shopVars
  BY <1>2, ServeGiveUp
<1> QED
  BY <1>1, <1>2, ServeAccounts, ServeCatalog, ServeCheckout, ServeInbox, ServeSaleSetup DEF Serve

-----------------------------------------------------------------------------
(* The invariant holds. *)

(* A new request knows nothing yet. *)
LEMMA Asked ==
  ASSUME RequestInv, CountInv, NEW r \in Slots, Ask(r)
  PROVE  \E q : /\ Set(r, q) /\ RunningOK(q) /\ ~Busy(r)
                /\ q.got = {} /\ q.wrote = FALSE /\ q.step \in {"call", "authenticate"}
                /\ q.op \in AdminOps => q.step = "authenticate"
<1>0. PICK op \in menu.ops : \E u \in Askers(op), arg \in Inputs(op) : Arrive(r, op, u, arg)
  BY DEF Ask
<1>1. PICK u \in Askers(op), arg \in Inputs(op) : Arrive(r, op, u, arg)
  BY <1>0
<1> DEFINE q == NewRequest(op, u, arg)
<1>2. op \in Ops /\ u \in Users /\ arrived + 1 \in Nat
  BY MenusAssumption, RootAssumption DEF CountInv, Askers
<1>3. Set(r, q) /\ ~Busy(r)
  BY <1>1 DEF Arrive
<1>4. /\ q.op = op /\ q.arg = arg /\ q.got = {} /\ q.wrote = FALSE
      /\ q.step \in {"call", "authenticate"}
      /\ q.op \in AdminOps => q.step = "authenticate"
  BY AdminOpsAre DEF NewRequest, PublicOps
<1>5. q \in Running
  BY <1>2 DEF NewRequest, Running, Steps
<1>6. RunningOK(q)
  BY <1>4, <1>5 DEF RunningOK, KnowsOK
<1> QED
  BY <1>3, <1>4, <1>6

(* One slot changes at a time. *)
LEMMA OneSlot ==
  ASSUME RequestInv, NEW r \in Slots, NEW q, Set(r, q)
  PROVE  requests'[r] = q /\ \A s \in Slots \ {r} : requests'[s] = requests[s]
BY DEF RequestInv, Set

LEMMA RequestsKept ==
  ASSUME RequestInv, NEW r \in Slots, NEW q, Set(r, q), RunningOK(q) \/ FinishedOK(q)
  PROVE  RequestInv'
<1>1. q \in Running \cup Finished
  BY DEF RunningOK, FinishedOK
<1>2. requests' \in [Slots -> Running \cup Finished]
  BY <1>1 DEF RequestInv, Set
<1>3. \A s \in Slots : RunningOK(requests'[s]) \/ FinishedOK(requests'[s])
  BY OneSlot DEF RequestInv
<1> QED
  BY <1>2, <1>3 DEF RequestInv

LEMMA RequestInvStep ==
  ASSUME ShopInv, ShopNext
  PROVE  RequestInv'
<1>0. RequestInv /\ AccountsTypeOK /\ CatalogInv /\ CountInv
  BY DEF ShopInv
<1>1. ASSUME NEW r \in Slots, Ask(r) PROVE RequestInv'
  BY <1>0, <1>1, Asked, RequestsKept
<1>2. ASSUME NEW r \in Slots, Serve(r) PROVE RequestInv'
  <2>1. PICK q : Set(r, q) /\ (Ended(r, q) \/ Progress(r, q))
    BY <1>0, <1>2, Serving DEF Served
  <2> QED
    BY <1>0, <2>1, RequestsKept DEF Ended, Progress
<1>3. CASE UNCHANGED requests
  BY <1>0, <1>3 DEF RequestInv
<1>4. Consume \/ Quiet => UNCHANGED requests
  BY DEF Consume, Deliver, Quiet, vars, requestVars
<1> QED
  BY <1>1, <1>2, <1>3, <1>4 DEF ShopNext

(* user-rpc's tables. *)
LEMMA AccountsStepOK ==
  ASSUME ShopInv, NEW r \in Slots, Serve(r)
  PROVE  AccountsTypeOK'
<1>0. AccountsTypeOK /\ RequestInv
  BY DEF ShopInv
<1>1. CASE UNCHANGED accountVars
  BY <1>0, <1>1 DEF AccountsTypeOK, accountVars
<1>2. requests[r].step # "done" /\ Busy(r) => requests[r].user \in Users
  BY <1>0, BusyRuns DEF RunningOK, Running
<1>3. CASE gatewayRegister(r)
  <2>1. accounts' = accounts \/ accounts' = [accounts EXCEPT ![requests[r].user] = "active"]
    BY <1>3 DEF gatewayRegister, Register, Create
  <2> QED
    BY <1>0, <1>3, <2>1 DEF gatewayRegister, AccountsTypeOK
<1>4. CASE gatewayLogin(r)
  <2>1. tokens' = tokens \/ tokens' = [tokens EXCEPT ![requests[r].user] = "valid"]
    BY <1>4 DEF gatewayLogin, Issue
  <2> QED
    BY <1>0, <1>4, <2>1 DEF gatewayLogin, AccountsTypeOK
<1>5. CASE authenticate(r)
  BY <1>0, <1>5 DEF authenticate, AccountsTypeOK
<1>6. CASE AssignRoles(r)
  <2>1. Busy(r) /\ requests[r].op = "replaceRoles" /\ requests[r].step = "assign"
    BY <1>6 DEF AssignRoles, At, Busy
  <2>2. Requested(r) \subseteq Roles /\ Arg(r).target \in Users
    BY <1>0, <2>1, BusyRuns, InputsAssumption DEF RunningOK, KnowsOK, Requested, Arg
  <2>3. Remaining(r) \cup Requested(r) \in SUBSET Roles
    BY <1>0, <2>2 DEF Remaining, AccountsTypeOK
  <2> QED
    BY <1>0, <1>6, <2>3 DEF AssignRoles, AccountsTypeOK
<1>7. CASE AccountsStep(r)
  BY <1>1, <1>3, <1>4, <1>5, <1>6, <1>7
  DEF AccountsStep, gatewayCurrentUser, UserRoles, gatewayRequirePermission, gatewayReplaceRoles,
      ClearRoles, RolesDeadlock
<1> QED
  BY <1>1, <1>7 DEF Serve

(* The catalog. *)
LEMMA CommitAdds ==
  ASSUME ShopInv, NEW r \in Slots, CommitProduct(r)
  PROVE  CatalogInv' /\ AllCodes' = AllCodes \cup Pending(r)
<1>1. RequestInv /\ CatalogInv /\ PendingInv
  BY DEF ShopInv
<1>2. Inserting(r) /\ Busy(r) /\ requests[r].op = "createProduct" /\ Complete(r)
  BY DEF CommitProduct, Inserting, At, Busy
<1> DEFINE p == [name |-> Arg(r).name, status |-> StatusInactive, skus |-> Arg(r).skus]
<1>3. products' = Append(products, p)
  BY DEF CommitProduct
<1>4. /\ Arg(r).skus \in Seq(SKURows) /\ Distinct(Arg(r).skus)
      /\ requests[r].got = CodesUpTo(Arg(r).skus, Len(Arg(r).skus))
  BY <1>1, <1>2, InsertedNext DEF Arg
<1>5. Arg(r).name \in Texts
  BY <1>1, <1>2, BusyRuns, InputsAssumption DEF RunningOK, Arg, Texts
<1>6. p \in ProductRows /\ Distinct(p.skus)
  BY <1>4, <1>5 DEF ProductRows, StatusInactive
<1>7. Codes(p) = Pending(r)
  BY <1>2, <1>4, CodesOfAll DEF Pending
<1> HIDE DEF p
<1>8. /\ products \in Seq(ProductRows) /\ products' \in Seq(ProductRows)
      /\ Len(products) \in Nat /\ DOMAIN products = 1 .. Len(products)
      /\ DOMAIN products' = 1 .. Len(products) + 1
      /\ products'[Len(products) + 1] = p
      /\ \A i \in DOMAIN products : products'[i] = products[i]
  BY <1>1, <1>3, <1>6, AppendProperties DEF CatalogInv
<1>9. Range(products') = Range(products) \cup {p}
  BY <1>8 DEF Range
<1>10. AllCodes' = AllCodes \cup Codes(p)
  BY <1>9 DEF AllCodes, Codes
<1>11. \A i \in DOMAIN products' : Distinct(products'[i].skus)
  BY <1>1, <1>6, <1>8 DEF CatalogInv
<1>12. \A i \in DOMAIN products : Codes(products[i]) \cap Codes(p) = {}
  BY <1>1, <1>7 DEF PendingInv, AllCodes, Range
<1>13. ASSUME NEW i \in DOMAIN products', NEW j \in DOMAIN products', i # j
       PROVE  Codes(products'[i]) \cap Codes(products'[j]) = {}
  <2>1. CASE i \in DOMAIN products /\ j \in DOMAIN products
    BY <1>1, <1>8, <1>13, <2>1 DEF CatalogInv
  <2>2. CASE i = Len(products) + 1
    BY <1>8, <1>12, <1>13, <2>2
  <2>3. CASE j = Len(products) + 1
    BY <1>8, <1>12, <1>13, <2>3
  <2> QED
    BY <1>8, <2>1, <2>2, <2>3
<1>14. CatalogInv'
  BY <1>8, <1>11, <1>13 DEF CatalogInv, Codes
<1> QED
  BY <1>7, <1>10, <1>14

(* A change of a product leaves its SKUs alone. *)
LEMMA UpdateKeeps ==
  ASSUME CatalogInv, NEW id \in DOMAIN products, NEW p \in ProductRows,
         p.skus = products[id].skus, products' = [products EXCEPT ![id] = p]
  PROVE  CatalogInv' /\ AllCodes' = AllCodes
<1>1. /\ products \in Seq(ProductRows) /\ products' \in Seq(ProductRows)
      /\ DOMAIN products' = DOMAIN products
      /\ \A i \in DOMAIN products : products'[i].skus = products[i].skus
  BY DEF CatalogInv
<1>2. \A i \in DOMAIN products : Codes(products'[i]) = Codes(products[i])
  BY <1>1 DEF Codes
<1>3. AllCodes = UNION {Codes(products[i]) : i \in DOMAIN products}
  BY DEF AllCodes, Range
<1>4. AllCodes' = UNION {Codes(products'[i]) : i \in DOMAIN products}
  BY <1>1 DEF AllCodes, Codes, Range
<1>5. AllCodes' = AllCodes
  BY <1>2, <1>3, <1>4
<1>6. CatalogInv'
  <2>1. \A i \in DOMAIN products' : Distinct(products'[i].skus)
    BY <1>1 DEF CatalogInv
  <2>2. \A i, j \in DOMAIN products' : i # j => Codes(products'[i]) \cap Codes(products'[j]) = {}
    BY <1>1, <1>2 DEF CatalogInv
  <2> QED
    BY <1>1, <2>1, <2>2 DEF CatalogInv, Codes
<1> QED
  BY <1>5, <1>6

LEMMA CatalogStepOK ==
  ASSUME ShopInv, NEW r \in Slots, Serve(r)
  PROVE  /\ CatalogInv'
         /\ AllCodes' = AllCodes \/ CommitProduct(r)
<1>0. RequestInv /\ CatalogInv
  BY DEF ShopInv
<1>1. CASE UNCHANGED products
  <2>1. CatalogInv'
    BY <1>0, <1>1 DEF CatalogInv, Codes
  <2>2. AllCodes' = AllCodes
    BY <1>1 DEF AllCodes, Codes
  <2> QED
    BY <2>1, <2>2
<1>2. CASE CommitProduct(r)
  BY <1>2, CommitAdds
<1>3. CASE gatewayUpdateProduct(r)
  <2> DEFINE id == Arg(r).product
             p == [products[id] EXCEPT !.name = Arg(r).name]
  <2>1. UNCHANGED products \/ (Known(id) /\ products' = [products EXCEPT ![id] = p])
    BY <1>3, Zenon DEF gatewayUpdateProduct, UpdateProduct, Update
  <2>2. ASSUME Known(id), products' = [products EXCEPT ![id] = p]
        PROVE  CatalogInv' /\ AllCodes' = AllCodes
    <3>1. Arg(r).name \in Texts
      <4>1. Busy(r) /\ requests[r].op = "updateProduct"
        BY <1>3 DEF gatewayUpdateProduct, At, Busy
      <4> QED
        BY <1>0, <4>1, BusyRuns, InputsAssumption DEF RunningOK, Arg, Texts
    <3>2. id \in DOMAIN products /\ products[id] \in ProductRows
      BY <1>0, <2>2 DEF Known, CatalogInv
    <3>3. p \in ProductRows /\ p.skus = products[id].skus
      BY <3>1, <3>2 DEF ProductRows
    <3> QED
      BY <1>0, <2>2, <3>2, <3>3, UpdateKeeps
  <2> QED
    BY <1>1, <2>1, <2>2
<1>4. CASE gatewayUpdateProductStatus(r)
  <2> DEFINE id == Arg(r).product
             status == fromProtoStatus(toProtoProductStatus(Arg(r).status))
             p == [products[id] EXCEPT !.status = status]
  <2>1. \/ UNCHANGED products
        \/ Known(id) /\ products' = [products EXCEPT ![id] = p] /\ status # 0
    BY <1>4 DEF gatewayUpdateProductStatus, SetStatus, UpdateStatus, Update
  <2>2. ASSUME Known(id), products' = [products EXCEPT ![id] = p], status # 0
        PROVE  CatalogInv' /\ AllCodes' = AllCodes
    <3>1. status \in {StatusActive, StatusInactive}
      BY <2>2 DEF fromProtoStatus
    <3> HIDE DEF status
    <3>2. id \in DOMAIN products /\ products[id] \in ProductRows
      BY <1>0, <2>2 DEF Known, CatalogInv
    <3>3. p \in ProductRows /\ p.skus = products[id].skus
      BY <3>1, <3>2 DEF ProductRows
    <3> QED
      BY <1>0, <2>2, <3>2, <3>3, UpdateKeeps
  <2> QED
    BY <1>1, <2>1, <2>2
<1>5. CASE CatalogStep(r)
  BY <1>1, <1>2, <1>3, <1>4, <1>5
  DEF CatalogStep, gatewayCreateProduct, InsertSKU, SKUDeadlock, gatewayListProducts, ListActive,
      gatewayGetProduct
<1>6. CASE CheckoutStep(r) \/ InboxStep(r) \/ SaleSetupStep(r)
  BY <1>1, <1>6
  DEF CheckoutStep, gatewayCreateOrder, ResolveLine, StoreOrder, gatewayGetOrder,
      InboxStep, gatewayListNotifications, ListOwned, gatewayMarkNotificationRead,
      SaleSetupStep, gatewayCreateActivity, gatewayCreateSeckillItem, GetActiveSKUSnapshot,
      CreateInventoryItem
<1>7. CASE UNCHANGED shopVars
  BY <1>1, <1>7 DEF shopVars
<1> QED
  BY <1>5, <1>6, <1>7 DEF Serve

(* The codes under way. *)
LEMMA PendingStepOK ==
  ASSUME ShopInv, ShopNext
  PROVE  PendingInv'
<1>0. RequestInv /\ CatalogInv /\ AccountsTypeOK /\ CountInv /\ PendingInv
  BY DEF ShopInv
<1>1. ASSUME NEW r \in Slots, NEW q, Set(r, q), AllCodes' = AllCodes,
             \/ q.op # "createProduct" \/ q.step # "insert" \/ q.got = {}
             \/ Inserting(r) /\ q.got = requests[r].got
             \/ /\ Inserting(r)
                /\ \E code : /\ q.got = requests[r].got \cup {code}
                             /\ code \notin AllCodes
                             /\ \A s \in Slots \ {r} : code \notin Pending(s)
      PROVE  PendingInv'
  <2>1. requests'[r] = q /\ \A s \in Slots \ {r} : requests'[s] = requests[s]
    BY <1>0, <1>1, OneSlot
  <2>2. \A s \in Slots \ {r} : Pending(s)' = Pending(s)
    BY <2>1 DEF Pending, Inserting, At
  <2>3. \/ Pending(r)' = {}
        \/ Pending(r)' = Pending(r)
        \/ \E code : /\ Pending(r)' = Pending(r) \cup {code}
                     /\ code \notin AllCodes
                     /\ \A s \in Slots \ {r} : code \notin Pending(s)
    BY <1>1, <2>1 DEF Pending, Inserting, At
  <2> HIDE DEF Pending
  <2>4. \A s \in Slots : Pending(s)' \cap AllCodes = {}
    BY <1>0, <2>2, <2>3 DEF PendingInv
  <2>5. \A s \in Slots \ {r} : Pending(r)' \cap Pending(s) = {}
    BY <1>0, <2>3 DEF PendingInv
  <2>6. \A s, t \in Slots : s # t => Pending(s)' \cap Pending(t)' = {}
    BY <1>0, <2>2, <2>5 DEF PendingInv
  <2> QED
    BY <1>1, <2>4, <2>6 DEF PendingInv
<1>2. ASSUME NEW r \in Slots, Ask(r) PROVE PendingInv'
  <2>1. AllCodes' = AllCodes
    BY <1>2 DEF Ask, shopVars, AllCodes, Codes
  <2> QED
    BY <1>0, <1>1, <1>2, <2>1, Asked
<1>3. ASSUME NEW r \in Slots, Serve(r) PROVE PendingInv'
  <2>1. PICK q : Set(r, q) /\ (Ended(r, q) \/ Progress(r, q))
    BY <1>0, <1>3, Serving DEF Served
  <2>2. requests'[r] = q /\ \A s \in Slots \ {r} : requests'[s] = requests[s]
    BY <1>0, <2>1, OneSlot
  <2>3. CASE CommitProduct(r)
    <3>1. AllCodes' = AllCodes \cup Pending(r)
      BY <2>3, CommitAdds
    <3>2. q.step = "done"
      BY <1>0, <2>2, <2>3 DEF CommitProduct, RequestInv, Set, Written, Answered
    <3>3. Pending(r)' = {} /\ \A s \in Slots \ {r} : Pending(s)' = Pending(s)
      BY <2>2, <3>2 DEF Pending, Inserting, At
    <3> QED
      BY <1>0, <3>1, <3>3 DEF PendingInv
  <2>4. CASE AllCodes' = AllCodes
    <3>1. CASE InsertSKU(r)
      <4>1. \/ q.step = "done"
            \/ /\ q.got = requests[r].got \cup {NextCode(r)} /\ NextCode(r) \notin AllCodes
               /\ Holders(r) = {}
        <5>1. CASE NextCode(r) \in AllCodes
          BY <1>0, <2>2, <3>1, <5>1, OneSlot DEF InsertSKU, Fail, Answer, Answered
        <5>2. CASE NextCode(r) \notin AllCodes
          <6>1. requests[r].got \in SUBSET Things /\ requests[r] \in Running
            BY <1>0, <3>1, BusyRuns DEF InsertSKU, Inserting, At, Busy, RunningOK, Running
          <6>2. requests'[r] = [requests[r] EXCEPT !.got = requests[r].got \cup {NextCode(r)}]
            BY <1>0, <3>1, <5>2, OneSlot DEF InsertSKU
          <6>3. q.got = requests[r].got \cup {NextCode(r)}
            BY <2>2, <6>1, <6>2 DEF Running
          <6> QED
            BY <3>1, <5>2, <6>3 DEF InsertSKU
        <5> QED
          BY <5>1, <5>2
      <4>2. Inserting(r)
        BY <3>1 DEF InsertSKU
      <4>3. CASE q.step = "done"
        BY <1>1, <2>1, <2>4, <4>3
      <4>4. CASE q.got = requests[r].got \cup {NextCode(r)} /\ NextCode(r) \notin AllCodes
                 /\ Holders(r) = {}
        <5>1. \A s \in Slots \ {r} : NextCode(r) \notin Pending(s)
          BY <4>4 DEF Holders
        <5> QED
          BY <1>1, <2>1, <2>4, <4>2, <4>4, <5>1
      <4> QED
        BY <4>1, <4>3, <4>4
    <3>2. CASE ~InsertSKU(r)
      BY <1>1, <2>1, <2>4, <3>2 DEF Ended, Progress
    <3> QED
      BY <3>1, <3>2
  <2> QED
    BY <1>3, <2>3, <2>4, CatalogStepOK
<1>4. CASE UNCHANGED requests /\ UNCHANGED products
  BY <1>0, <1>4 DEF PendingInv, Pending, Inserting, At, AllCodes, Codes
<1>5. Consume \/ Quiet => UNCHANGED requests /\ UNCHANGED products
  BY DEF Consume, Deliver, Quiet, vars, requestVars, shopVars
<1> QED
  BY <1>2, <1>3, <1>4, <1>5 DEF ShopNext

(* The orders. *)
ExactOrder(o) ==
  /\ \A i \in DOMAIN o.lines :
       o.lines[i].subtotal = o.lines[i].snapshot.price * o.lines[i].quantity
  /\ o.total = ExactTotals(o.lines)[Len(o.lines)]

LEMMA StoredExactly ==
  ASSUME NEW q, NEW items \in Seq(ItemRows), q.arg.items = items, ValidItems(items),
         FetchedFirst(q, Len(items)),
         NEW lines, lines = [i \in DOMAIN items |-> Line(items[i], q.got)],
         normalizeItems(lines).fits
  PROVE  /\ lines \in Seq(LineRows) /\ normalizeItems(lines).total \in Int
         /\ \A i \in DOMAIN lines :
              lines[i].subtotal = lines[i].snapshot.price * lines[i].quantity
         /\ normalizeItems(lines).total = ExactTotals(lines)[Len(lines)]
<1>1. \A i \in DOMAIN items : items[i].quantity \in 1 .. MaxQuantity
  BY Zenon DEF ValidItems
<1>2. DOMAIN items = 1 .. Len(items) /\ Len(items) \in Nat
  OBVIOUS
<1>3. MaxQuantity \in Nat
  BY CheckoutAssumption
<1>4. ASSUME NEW i \in 1 .. Len(items)
      PROVE  /\ Line(items[i], q.got).snapshot \in Snapshots
             /\ Line(items[i], q.got).quantity \in Nat
             /\ Line(items[i], q.got).subtotal =
                  Wrap(Line(items[i], q.got).snapshot.price * Line(items[i], q.got).quantity)
  <2> DEFINE s == CHOOSE s \in q.got : s.code = items[i].code
  <2>1. items[i].code \in {t.code : t \in q.got}
    BY DEF FetchedFirst, CodesUpTo
  <2>2. \E t \in q.got : t.code = items[i].code
    BY <2>1
  <2>3. s \in q.got
    BY <2>2
  <2>4. s \in Snapshots
    BY <2>3 DEF FetchedFirst
  <2>5. items[i].quantity \in Nat
    BY <1>1, <1>2, <1>3
  <2> QED
    BY <2>4, <2>5 DEF Line
<1>5. DOMAIN lines = 1 .. Len(items) /\ \A i \in 1 .. Len(items) : lines[i] = Line(items[i], q.got)
  BY <1>2
<1>6. Len(lines) = Len(items) /\ Len(lines) \in Nat
  BY <1>2, <1>5
<1>7. \A i \in 1 .. Len(lines) : LineOK(lines[i])
  BY <1>4, <1>5, <1>6 DEF LineOK
<1>8. /\ \A i \in 1 .. Len(lines) :
           lines[i].subtotal = lines[i].snapshot.price * lines[i].quantity
      /\ normalizeItems(lines).total = ExactTotals(lines)[Len(lines)]
      /\ normalizeItems(lines).total \in 0 .. MaxInt
  <2>1. PICK l : l = lines
    OBVIOUS
  <2>2. Len(l) \in Nat /\ (\A i \in 1 .. Len(l) : LineOK(l[i])) /\ normalizeItems(l).fits
    BY <1>6, <1>7, <2>1
  <2>3. /\ \A i \in 1 .. Len(l) : l[i].subtotal = l[i].snapshot.price * l[i].quantity
        /\ normalizeItems(l).total = ExactTotals(l)[Len(l)]
        /\ normalizeItems(l).total \in 0 .. MaxInt
    BY <2>2, FittingIsExact
  <2> QED
    BY <2>1, <2>3
<1>9. ASSUME NEW i \in 1 .. Len(items) PROVE lines[i] \in LineRows
  <2>1. lines[i].snapshot \in Snapshots /\ lines[i].quantity \in Nat
    BY <1>6, <1>7 DEF LineOK
  <2>2. lines[i].snapshot.price \in Nat
    BY <2>1 DEF Snapshots
  <2>3. lines[i].subtotal \in Int
    <3>1. lines[i].subtotal = lines[i].snapshot.price * lines[i].quantity
      BY <1>6, <1>8
    <3>2. PICK price \in Nat, quantity \in Nat :
            price = lines[i].snapshot.price /\ quantity = lines[i].quantity
      BY <2>1, <2>2
    <3>3. price * quantity \in Int
      OBVIOUS
    <3> QED
      BY <3>1, <3>2, <3>3
  <2>4. lines[i] = [snapshot |-> lines[i].snapshot, quantity |-> lines[i].quantity,
                    subtotal |-> lines[i].subtotal]
    BY <1>5 DEF Line
  <2> QED
    BY <2>1, <2>3, <2>4 DEF LineRows
<1>10. lines \in Seq(LineRows)
  <2>1. lines = [i \in 1 .. Len(items) |-> lines[i]]
    BY <1>2
  <2> QED
    BY <1>2, <1>9, <2>1, IsASeq
<1>11. normalizeItems(lines).total \in Int
  BY <1>8, CheckoutAssumption
<1> QED
  BY <1>5, <1>6, <1>8, <1>10, <1>11

LEMMA StoreKeepsOrders ==
  ASSUME ShopInv, NEW r \in Slots, StoreOrder(r), UNCHANGED readAt
  PROVE  OrdersInv'
<1>0. RequestInv /\ OrdersInv
  BY DEF ShopInv
<1>1. requests[r].op = "createOrder" /\ requests[r].step = "store" /\ Busy(r)
  BY DEF StoreOrder, At, Busy
<1>3. PICK q : q = requests[r]
  OBVIOUS
<1>2. RunningOK(q) /\ q.op = "createOrder" /\ q.step = "store"
  BY <1>0, <1>1, <1>3, BusyRuns
<1>9. q.user \in Users
  BY <1>2 DEF RunningOK, Running
<1>10. KnowsOK(q)
  BY <1>2 DEF RunningOK
<1>11. ValidItems(q.arg.items) /\ FetchedFirst(q, Len(q.arg.items))
  BY <1>2, <1>10, Zenon DEF KnowsOK
<1>4. PICK items \in Seq(ItemRows) : q.arg.items = items
  BY <1>2, InputsAssumption DEF RunningOK, ItemRows
<1>12. ValidItems(items) /\ FetchedFirst(q, Len(items))
  BY <1>4, <1>11
<1>5. PICK lines : lines = [i \in DOMAIN items |-> Line(items[i], q.got)]
  OBVIOUS
<1> DEFINE o == [user |-> q.user, lines |-> lines, total |-> normalizeItems(lines).total]
<1>6. \/ UNCHANGED orders
      \/ normalizeItems(lines).fits /\ orders' = Append(orders, o)
  BY <1>3, <1>4, <1>5 DEF StoreOrder, CreateIdempotent, Arg
<1>7. CASE UNCHANGED orders
  BY <1>0, <1>7 DEF OrdersInv, TotalsExact, Delivered
<1>8. CASE normalizeItems(lines).fits /\ orders' = Append(orders, o)
  <2>1. /\ lines \in Seq(LineRows) /\ normalizeItems(lines).total \in Int
        /\ \A i \in DOMAIN lines :
             lines[i].subtotal = lines[i].snapshot.price * lines[i].quantity
        /\ normalizeItems(lines).total = ExactTotals(lines)[Len(lines)]
    BY <1>4, <1>5, <1>8, <1>12, StoredExactly
  <2>2. o \in OrderRows
    BY <1>9, <2>1 DEF OrderRows
  <2>3. ExactOrder(o)
    BY <2>1 DEF ExactOrder
  <2> HIDE DEF o
  <2>4. /\ orders' \in Seq(OrderRows)
        /\ DOMAIN orders \subseteq DOMAIN orders'
        /\ Range(orders') = Range(orders) \cup {o}
    <3>1. /\ orders' \in Seq(OrderRows)
          /\ DOMAIN orders = 1 .. Len(orders) /\ DOMAIN orders' = 1 .. Len(orders) + 1
          /\ Len(orders) \in Nat /\ orders'[Len(orders) + 1] = o
          /\ \A i \in 1 .. Len(orders) : orders'[i] = orders[i]
      BY <1>0, <1>8, <2>2, AppendProperties DEF OrdersInv
    <3> QED
      BY <3>1 DEF Range
  <2>5. \A p \in Range(orders') : ExactOrder(p)
    BY <1>0, <2>3, <2>4 DEF OrdersInv, TotalsExact, ExactOrder
  <2>6. TotalsExact'
    BY <2>5 DEF TotalsExact, ExactOrder
  <2> QED
    BY <1>0, <2>4, <2>6 DEF OrdersInv, Delivered
<1> QED
  BY <1>6, <1>7, <1>8

LEMMA OrdersStepOK ==
  ASSUME ShopInv, ShopNext
  PROVE  OrdersInv'
<1>0. OrdersInv
  BY DEF ShopInv
<1>1. ASSUME orders' = orders, DOMAIN readAt' \subseteq DOMAIN orders PROVE OrdersInv'
  BY <1>0, <1>1 DEF OrdersInv, TotalsExact, Delivered
<1>2. DOMAIN readAt \subseteq DOMAIN orders
  BY <1>0 DEF OrdersInv, Delivered
<1>3. ASSUME NEW r \in Slots, Ask(r) PROVE OrdersInv'
  BY <1>1, <1>2, <1>3 DEF Ask, shopVars
<1>4. ASSUME NEW r \in Slots, Serve(r) PROVE OrdersInv'
  <2>1. CASE CheckoutStep(r) /\ UNCHANGED readAt
    <3>1. CASE StoreOrder(r)
      BY <2>1, <3>1, StoreKeepsOrders
    <3>2. CASE ~StoreOrder(r)
      BY <1>1, <1>2, <2>1, <3>2 DEF CheckoutStep, gatewayCreateOrder, ResolveLine, gatewayGetOrder
    <3> QED
      BY <3>1, <3>2
  <2>2. CASE InboxStep(r)
    <3>1. UNCHANGED orders /\ DOMAIN readAt' = DOMAIN readAt
      BY <2>2
      DEF InboxStep, gatewayListNotifications, ListOwned, gatewayMarkNotificationRead, MarkReadOwned
    <3> QED
      BY <1>1, <1>2, <3>1
  <2>3. CASE UNCHANGED orders /\ UNCHANGED readAt
    BY <1>1, <1>2, <2>3
  <2> QED
    BY <1>4, <2>1, <2>2, <2>3 DEF Serve, shopVars
<1>5. ASSUME NEW id, Deliver(id) PROVE OrdersInv'
  <2>1. DOMAIN readAt' = DOMAIN readAt \cup {id} /\ id \in DOMAIN orders /\ UNCHANGED orders
    BY <1>5 DEF Deliver, Delivered
  <2> QED
    BY <1>1, <1>2, <2>1
<1>6. CASE Quiet
  BY <1>1, <1>2, <1>6 DEF Quiet, vars, shopVars
<1> QED
  BY <1>3, <1>4, <1>5, <1>6 DEF ShopNext, Consume

(* The counters. *)
LEMMA CountStepOK ==
  ASSUME ShopInv, ShopNext
  PROVE  CountInv'
<1>0. CountInv
  BY DEF ShopInv
<1>1. menu.requests \in Nat
  BY <1>0, MenusAssumption DEF CountInv
<1>2. ASSUME NEW r \in Slots, Ask(r) PROVE CountInv'
  <2>1. arrived' = arrived + 1 /\ arrived < menu.requests /\ UNCHANGED <<menu, activities>>
    BY <1>2 DEF Ask, Arrive, shopVars, saleVars
  <2> QED
    BY <1>0, <1>1, <2>1 DEF CountInv
<1>3. ASSUME NEW r \in Slots, Serve(r), UNCHANGED <<arrived, menu>> PROVE CountInv'
  <2>1. activities' = activities \/ activities' = activities + 1
    BY <1>3
    DEF Serve, shopVars, saleVars, SaleSetupStep, gatewayCreateActivity, CreateActivity,
        InsertActivity, gatewayCreateSeckillItem, GetActiveSKUSnapshot, CreateInventoryItem
  <2> QED
    BY <1>0, <1>3, <2>1 DEF CountInv
<1>4. CASE UNCHANGED <<arrived, menu, activities>>
  BY <1>0, <1>4 DEF CountInv
<1>5. ASSUME Consume, UNCHANGED <<arrived, menu>> PROVE CountInv'
  BY <1>4, <1>5 DEF Consume, saleVars
<1>6. CASE Quiet
  BY <1>4, <1>6 DEF Quiet, vars, requestVars, shopVars, saleVars
<1> QED
  BY <1>2, <1>3, <1>5, <1>6 DEF ShopNext

(* A replacement that commits replaces everything: what is left of the      *)
(* user's rows once its DELETE counts is nothing.                           *)
LEMMA AssignsWhole ==
  ASSUME RequestInv, AccountsTypeOK, RolesInv, NEW r \in Slots, AssignRoles(r)
  PROVE  /\ Arg(r).target \in Users
         /\ roles' = [roles EXCEPT ![Arg(r).target] = Requested(r)]
         /\ requests'[r].step = "roles"
         /\ \A s \in Slots \ {r} : requests'[s] = requests[s]
<1>1. Busy(r) /\ requests[r].op = "replaceRoles" /\ At(r, "replaceRoles", "assign")
  BY DEF AssignRoles, At, Busy
<1>2. requests[r] \in Running /\ Arg(r).target \in Users
  BY <1>1, BusyRuns, InputsAssumption DEF RunningOK, Arg
<1>3. Remaining(r) = {}
  BY <1>1 DEF Remaining, RolesInv
<1>4. roles' = [roles EXCEPT ![Arg(r).target] = Requested(r)]
  BY <1>3 DEF AssignRoles
<1>5. PICK q : q = [requests[r] EXCEPT !.step = "roles", !.wrote = TRUE]
  OBVIOUS
<1>6. q.step = "roles"
  BY <1>2, <1>5 DEF Running
<1>7. Set(r, q)
  BY <1>5 DEF AssignRoles
<1> QED
  BY <1>2, <1>4, <1>6, <1>7, OneSlot

LEMMA RolesStepOK ==
  ASSUME ShopInv, ShopNext
  PROVE  RolesInv'
<1>0. RequestInv /\ AccountsTypeOK /\ CatalogInv /\ CountInv /\ RolesInv
  BY DEF ShopInv
<1>1. ASSUME NEW r \in Slots, NEW q, Set(r, q), UNCHANGED roles,
             q.op = "replaceRoles" /\ q.step = "assign" => roles[q.arg.target] \subseteq q.got
      PROVE  RolesInv'
  <2>1. requests'[r] = q /\ \A s \in Slots \ {r} : requests'[s] = requests[s]
    BY <1>0, <1>1, OneSlot
  <2> QED
    BY <1>0, <1>1, <2>1 DEF RolesInv, At, Arg
<1>2. ASSUME NEW r \in Slots, Ask(r) PROVE RolesInv'
  <2>1. PICK q : Set(r, q) /\ q.step \in {"call", "authenticate"}
    BY <1>0, <1>2, Asked
  <2>2. UNCHANGED roles
    BY <1>2 DEF Ask, accountVars
  <2> QED
    BY <1>1, <2>1, <2>2
<1>3. ASSUME NEW r \in Slots, Serve(r) PROVE RolesInv'
  <2>1. CASE AssignRoles(r)
    <3>1. /\ Arg(r).target \in Users
          /\ roles' = [roles EXCEPT ![Arg(r).target] = Requested(r)]
          /\ requests'[r].step = "roles"
          /\ \A s \in Slots \ {r} : requests'[s] = requests[s]
      BY <1>0, <2>1, AssignsWhole
    <3>2. ASSUME NEW s \in Slots, At(s, "replaceRoles", "assign")'
          PROVE  roles'[Arg(s)'.target] \subseteq requests'[s].got
      <4>1. s # r /\ requests'[s] = requests[s] /\ At(s, "replaceRoles", "assign")
        BY <3>1, <3>2 DEF At
      <4>2. Arg(s)' = Arg(s) /\ roles[Arg(s).target] \subseteq requests[s].got
        BY <1>0, <4>1 DEF RolesInv, Arg
      <4>3. CASE Arg(s).target = Arg(r).target
        <5>1. s \in Rivals(r)
          BY <4>1, <4>3 DEF Rivals
        <5>2. Requested(r) = {}
          BY <2>1, <5>1 DEF AssignRoles
        <5>3. roles'[Arg(s).target] = {}
          BY <1>0, <3>1, <4>3, <5>2 DEF AccountsTypeOK
        <5> QED
          BY <4>2, <5>3
      <4>4. CASE Arg(s).target # Arg(r).target
        <5>1. roles'[Arg(s).target] = roles[Arg(s).target]
          <6>1. Arg(s).target \in Users
            BY <1>0, <4>1, BusyRuns, InputsAssumption DEF At, Busy, RunningOK, Arg
          <6> QED
            BY <1>0, <3>1, <4>4, <6>1 DEF AccountsTypeOK
        <5> QED
          BY <4>1, <4>2, <5>1
      <4> QED
        BY <4>3, <4>4
    <3> QED
      BY <3>2 DEF RolesInv
  <2>2. CASE ~AssignRoles(r)
    <3>1. UNCHANGED roles
      BY <1>3, <2>2
      DEF Serve, AccountsStep, accountVars, gatewayRegister, gatewayLogin, authenticate,
          gatewayCurrentUser, UserRoles, gatewayRequirePermission, gatewayReplaceRoles,
          ClearRoles, RolesDeadlock
    <3>2. PICK q : Set(r, q) /\ (Ended(r, q) \/ Progress(r, q))
      BY <1>0, <1>3, Serving DEF Served
    <3>3. CASE Ended(r, q)
      BY <1>1, <3>1, <3>2, <3>3 DEF Ended
    <3>4. CASE Progress(r, q)
      <4>1. ASSUME q.op = "replaceRoles", q.step = "assign"
            PROVE  roles[q.arg.target] \subseteq q.got
        <5>1. CASE requests[r].step = "assign" /\ q.got = requests[r].got
          BY <1>0, <3>4, <4>1, <5>1 DEF RolesInv, At, Arg, Progress
        <5>2. CASE q.got = roles[q.arg.target]
          BY <5>2
        <5> QED
          BY <3>4, <4>1, <5>1, <5>2 DEF Progress
      <4> QED
        BY <1>1, <3>1, <3>2, <4>1
    <3> QED
      BY <3>2, <3>3, <3>4
  <2> QED
    BY <2>1, <2>2
<1>4. CASE UNCHANGED requests /\ UNCHANGED roles
  BY <1>0, <1>4 DEF RolesInv, At, Arg
<1>5. Consume \/ Quiet => UNCHANGED requests /\ UNCHANGED roles
  BY DEF Consume, Deliver, Quiet, vars, requestVars, accountVars
<1> QED
  BY <1>2, <1>3, <1>4, <1>5 DEF ShopNext

(* What is remembered of a request. *)
LEMMA Remembered ==
  ASSUME Remember, NEW s \in Slots
  PROVE  /\ Busy(s) \/ ~Busy(s)' => (history[s].held => history'[s].held)
         /\ HoldsNow(s)' => history'[s].held
         /\ Busy(s)' => OffersNow(s)' \subseteq history'[s].offers
         /\ Busy(s) /\ Busy(s)' => history[s].offers \subseteq history'[s].offers
<1> DEFINE old == IF Busy(s)' /\ ~Busy(s) THEN Forgotten ELSE history[s]
<1>1. history'[s] = [held |-> old.held \/ HoldsNow(s)',
                     offers |-> IF Busy(s)' THEN old.offers \cup OffersNow(s)' ELSE {}]
  BY DEF Remember
<1>2. history'[s].held = (old.held \/ HoldsNow(s)')
  BY <1>1
<1>3. history'[s].offers = IF Busy(s)' THEN old.offers \cup OffersNow(s)' ELSE {}
  BY <1>1
<1> QED
  BY <1>2, <1>3

LEMMA HeldStepOK ==
  ASSUME ShopInv, ShopNext
  PROVE  HeldInv'
<1>0. RequestInv /\ AccountsTypeOK /\ CatalogInv /\ CountInv /\ HeldInv
  BY DEF ShopInv
<1>1. ASSUME NEW r \in Slots, NEW q, Set(r, q), Remember,
             q.op \in AdminOps =>
               /\ q.step \notin {"idle", "done", "authenticate", "permit"} => history'[r].held
               /\ q.wrote => history'[r].held
      PROVE  HeldInv'
  <2>1. requests'[r] = q /\ \A s \in Slots \ {r} : requests'[s] = requests[s]
    BY <1>0, <1>1, OneSlot
  <2>2. ASSUME NEW s \in Slots \ {r}, history[s].held PROVE history'[s].held
    BY <1>1, <2>1, <2>2, Remembered DEF Busy
  <2> QED
    BY <1>0, <1>1, <2>1, <2>2 DEF HeldInv, Busy
<1>2. ASSUME NEW r \in Slots, Ask(r), Remember PROVE HeldInv'
  <2>1. PICK q : /\ Set(r, q) /\ q.wrote = FALSE
                 /\ q.step \in {"call", "authenticate"}
                 /\ q.op \in AdminOps => q.step = "authenticate"
    BY <1>0, <1>2, Asked
  <2> QED
    BY <1>1, <1>2, <2>1
<1>3. ASSUME NEW r \in Slots, Serve(r), Remember PROVE HeldInv'
  <2>1. PICK q : Set(r, q) /\ (Ended(r, q) \/ Progress(r, q))
    BY <1>0, <1>3, Serving DEF Served
  <2>2. requests'[r] = q /\ Busy(r) /\ requests[r].wrote \in BOOLEAN
    BY <1>0, <1>3, <2>1, OneSlot, Serving, BusyRuns
  <2>3. ASSUME q.op = requests[r].op, q.op \in AdminOps,
               requests[r].step \notin {"authenticate", "permit"} \/ requests[r].wrote = TRUE
        PROVE  history'[r].held
    <3>1. history[r].held
      BY <1>0, <2>2, <2>3 DEF HeldInv
    <3> QED
      BY <1>3, <2>2, <3>1, Remembered
  <2>4. CASE Ended(r, q)
    <3>1. q.step = "done" /\ q.op = requests[r].op /\ q.wrote \in BOOLEAN
      BY <2>4 DEF Ended, FinishedOK, Finished
    <3> QED
      BY <1>1, <1>3, <2>1, <2>3, <2>4, <3>1 DEF Ended
  <2>5. CASE Progress(r, q)
    <3>1. RunningOK(q) /\ q.op = requests[r].op /\ q.wrote \in BOOLEAN
      BY <2>5 DEF Progress, RunningOK, Running
    <3>2. q.wrote = TRUE => q.step = "roles"
      BY <3>1 DEF RunningOK, KnowsOK
    <3>3. Busy(r)'
      BY <2>2, <3>1 DEF Busy, RunningOK, Running, Steps
    <3>4. ASSUME q.op \in AdminOps, q.step \notin {"authenticate", "permit"}
          PROVE  history'[r].held
      <4>1. CASE requests[r].step \notin {"authenticate", "permit"}
        BY <2>3, <3>1, <3>4, <4>1
      <4>2. CASE HasPermission(q.user, Permission[q.op]) /\ UNCHANGED roles
        <5>1. HoldsNow(r)'
          BY <2>2, <3>3, <3>4, <4>2 DEF HoldsNow, Asks, HasPermission
        <5> QED
          BY <1>3, <5>1, Remembered
      <4> QED
        BY <2>5, <3>4, <4>1, <4>2 DEF Progress
    <3> QED
      BY <1>1, <1>3, <2>1, <3>1, <3>2, <3>4
  <2> QED
    BY <2>1, <2>4, <2>5
<1>4. ASSUME Consume, Remember PROVE HeldInv'
  <2>1. UNCHANGED requests
    BY <1>4 DEF Consume, Deliver
  <2>2. ASSUME NEW s \in Slots, history[s].held PROVE history'[s].held
    BY <1>4, <2>1, <2>2, Remembered DEF Busy
  <2> QED
    BY <1>0, <2>1, <2>2 DEF HeldInv, Busy
<1>5. CASE Quiet
  BY <1>0, <1>5 DEF Quiet, vars, requestVars, HeldInv, Busy
<1> QED
  BY <1>2, <1>3, <1>4, <1>5 DEF ShopNext

LEMMA OffersStepOK ==
  ASSUME ShopInv, ShopNext
  PROVE  OffersOnly'
<1>0. RequestInv /\ AccountsTypeOK /\ CatalogInv /\ CountInv /\ OffersOnly
  BY DEF ShopInv
<1> DEFINE Ordering == {"createOrder", "createSeckillItem"}
<1>1. ASSUME NEW r \in Slots, NEW q, Set(r, q), Remember,
             Asks(r, Ordering)' => q.got \subseteq history'[r].offers
      PROVE  OffersOnly'
  <2>1. requests'[r] = q /\ \A s \in Slots \ {r} : requests'[s] = requests[s]
    BY <1>0, <1>1, OneSlot
  <2>2. ASSUME NEW s \in Slots \ {r}, Asks(s, Ordering)'
        PROVE  requests'[s].got \subseteq history'[s].offers
    <3>1. Asks(s, Ordering) /\ Busy(s) /\ Busy(s)'
      BY <2>1, <2>2 DEF Asks, Busy
    <3>2. requests[s].got \subseteq history[s].offers
      BY <1>0, <3>1 DEF OffersOnly
    <3>3. history[s].offers \subseteq history'[s].offers
      BY <1>1, <3>1, Remembered
    <3> QED
      BY <2>1, <3>2, <3>3
  <2> QED
    BY <1>1, <2>1, <2>2 DEF OffersOnly
<1>2. ASSUME NEW r \in Slots, Ask(r), Remember PROVE OffersOnly'
  <2>1. PICK q : Set(r, q) /\ q.got = {}
    BY <1>0, <1>2, Asked
  <2> QED
    BY <1>1, <1>2, <2>1
<1>3. ASSUME NEW r \in Slots, Serve(r), Remember PROVE OffersOnly'
  <2>1. PICK q : Set(r, q) /\ (Ended(r, q) \/ Progress(r, q))
    BY <1>0, <1>3, Serving DEF Served
  <2>2. requests'[r] = q /\ Busy(r)
    BY <1>0, <1>3, <2>1, OneSlot, Serving
  <2>3. ASSUME Asks(r, Ordering)'
        PROVE  q.got \subseteq history'[r].offers
    <3>1. q.op \in Ordering /\ q.step # "done" /\ Busy(r)'
      BY <2>2, <2>3 DEF Asks, Busy
    <3>2. Progress(r, q)
      BY <2>1, <3>1 DEF Ended
    <3>3. /\ q.got \subseteq requests[r].got \cup SnapshotsOf(Active) /\ UNCHANGED products
          /\ q.op = requests[r].op
      BY <3>1, <3>2 DEF Progress
    <3>4. requests[r].got \subseteq history[r].offers
      BY <1>0, <2>2, <3>1, <3>3 DEF OffersOnly, Asks
    <3>5. OffersNow(r)' = SnapshotsOf(Active)
      <4>1. OffersNow(r)' = SnapshotsOf(Active)'
        BY <2>3 DEF OffersNow
      <4>2. SnapshotsOf(Active)' = SnapshotsOf(Active)
        BY <3>3 DEF SnapshotsOf, Active
      <4> QED
        BY <4>1, <4>2
    <3>6. /\ OffersNow(r)' \subseteq history'[r].offers
          /\ history[r].offers \subseteq history'[r].offers
      BY <1>3, <2>2, <3>1, Remembered
    <3> QED
      BY <3>3, <3>4, <3>5, <3>6
  <2> QED
    BY <1>1, <1>3, <2>1, <2>3
<1>4. ASSUME Consume, Remember PROVE OffersOnly'
  <2>1. UNCHANGED requests
    BY <1>4 DEF Consume, Deliver
  <2>2. ASSUME NEW s \in Slots, Busy(s)' PROVE history[s].offers \subseteq history'[s].offers
    BY <1>4, <2>1, <2>2, Remembered DEF Busy
  <2> QED
    BY <1>0, <2>1, <2>2 DEF OffersOnly, Asks, Busy
<1>5. CASE Quiet
  BY <1>0, <1>5 DEF Quiet, vars, requestVars, OffersOnly, Asks, Busy
<1> QED
  BY <1>2, <1>3, <1>4, <1>5 DEF ShopNext

LEMMA AccountsKept ==
  ASSUME ShopInv, ShopNext
  PROVE  AccountsTypeOK'
<1>0. AccountsTypeOK
  BY DEF ShopInv
<1>1. CASE UNCHANGED accountVars
  BY <1>0, <1>1 DEF AccountsTypeOK, accountVars
<1>2. ASSUME NEW r \in Slots, Ask(r) PROVE AccountsTypeOK'
  BY <1>1, <1>2 DEF Ask
<1> QED
  BY <1>1, <1>2, AccountsStepOK DEF ShopNext, Consume, Quiet, vars

LEMMA CatalogKept ==
  ASSUME ShopInv, ShopNext
  PROVE  CatalogInv'
<1>0. CatalogInv
  BY DEF ShopInv
<1>1. CASE UNCHANGED products
  BY <1>0, <1>1 DEF CatalogInv, Codes
<1>2. ASSUME NEW r \in Slots, Ask(r) PROVE CatalogInv'
  BY <1>1, <1>2 DEF Ask, shopVars
<1> QED
  BY <1>1, <1>2, CatalogStepOK DEF ShopNext, Consume, Deliver, Quiet, vars, shopVars

LEMMA OrdersInit ==
  ASSUME ShopInit
  PROVE  OrdersInv
<1> DEFINE snapshot == [code |-> "a", name |-> "old", price |-> 3]
           line == [snapshot |-> snapshot, quantity |-> 1, subtotal |-> 3]
           lines == <<line>>
           o == [user |-> Root, total |-> 3, lines |-> lines]
<1>1. orders = <<o>> /\ readAt = [n \in {1} |-> 0]
  BY DEF ShopInit
<1>2. line \in LineRows
  <2>1. snapshot \in Snapshots
    <3>1. "a" \in Texts /\ "old" \in Texts /\ 3 \in Nat
      BY DEF Texts
    <3> QED
      BY <3>1 DEF Snapshots
  <2> HIDE DEF snapshot
  <2> QED
    BY <2>1 DEF LineRows
<1>3. lines \in Seq(LineRows) /\ Len(lines) = 1 /\ lines[1].subtotal = 3
  <2> HIDE DEF line
  <2>1. lines \in Seq(LineRows) /\ Len(lines) = 1 /\ lines[1] = line
    BY <1>2
  <2> QED
    BY <2>1 DEF line
<1>4. \A i \in DOMAIN lines : lines[i].subtotal = lines[i].snapshot.price * lines[i].quantity
  <2>1. DOMAIN lines = {1} /\ lines[1] = line
    OBVIOUS
  <2>2. line.subtotal = line.snapshot.price * line.quantity
    OBVIOUS
  <2> QED
    BY <2>1, <2>2
<1> HIDE DEF lines, line
<1>5. ExactTotals(lines)[1] = 3
  <2>1. PICK e : e = ExactTotals(lines)
    OBVIOUS
  <2>2. e = [n \in 0 .. 1 |-> IF n = 0 THEN 0 ELSE e[n - 1] + lines[n].subtotal]
    BY <1>3, <2>1, TotalsAreDefined DEF AddsUpTo
  <2>3. e[0] = 0
    BY <2>2
  <2>4. e[1] = e[1 - 1] + lines[1].subtotal
    BY <2>2
  <2> QED
    BY <1>3, <2>1, <2>3, <2>4
<1>6. o \in OrderRows
  BY <1>3, RootAssumption DEF OrderRows
<1>7. o.lines = lines /\ o.total = 3
  OBVIOUS
<1> HIDE DEF o
<1>8. orders \in Seq(OrderRows) /\ Range(orders) = {o} /\ DOMAIN orders = {1}
  BY <1>1, <1>6 DEF Range
<1>9. TotalsExact
  BY <1>3, <1>4, <1>5, <1>7, <1>8 DEF TotalsExact
<1> QED
  BY <1>1, <1>8, <1>9 DEF OrdersInv, Delivered

LEMMA CatalogInit ==
  ASSUME ShopInit
  PROVE  CatalogInv
<1> DEFINE skusA == <<[code |-> "a", price |-> 3]>>
           skusB == <<[code |-> "b", price |-> 2]>>
           first == [name |-> "old", status |-> StatusActive, skus |-> skusA]
           second == [name |-> "old", status |-> StatusActive, skus |-> skusB]
<1>1. products = <<first, second>>
  BY DEF ShopInit
<1>2. skusA \in Seq(SKURows) /\ skusB \in Seq(SKURows)
  <2>1. [code |-> "a", price |-> 3] \in SKURows /\ [code |-> "b", price |-> 2] \in SKURows
    <3>1. "a" \in Texts /\ "b" \in Texts /\ 3 \in Nat /\ 2 \in Nat
      BY DEF Texts
    <3> QED
      BY <3>1 DEF SKURows
  <2>2. \A x \in SKURows : <<x>> \in Seq(SKURows)
    OBVIOUS
  <2> QED
    BY <2>1, <2>2
<1>3. Distinct(skusA) /\ Distinct(skusB)
  BY DEF Distinct
<1>4. {s.code : s \in Range(skusA)} = {"a"} /\ {s.code : s \in Range(skusB)} = {"b"}
  <2>1. Range(skusA) = {[code |-> "a", price |-> 3]} /\ Range(skusB) = {[code |-> "b", price |-> 2]}
    BY DEF Range
  <2> QED
    BY <2>1
<1> HIDE DEF skusA, skusB
<1>5. first \in ProductRows /\ second \in ProductRows /\ first.skus = skusA /\ second.skus = skusB
  <2>1. "old" \in Texts /\ StatusActive \in {StatusActive, StatusInactive}
    BY DEF Texts
  <2>2. first \in ProductRows /\ second \in ProductRows
    BY <1>2, <2>1 DEF ProductRows
  <2> QED
    BY <2>2
<1> HIDE DEF first, second
<1>6. Codes(first) = {"a"} /\ Codes(second) = {"b"}
  BY <1>4, <1>5 DEF Codes
<1>7. /\ products \in Seq(ProductRows) /\ DOMAIN products = {1, 2}
      /\ products[1] = first /\ products[2] = second
  BY <1>1, <1>5
<1>8. "a" # "b"
  OBVIOUS
<1>9. \A i, j \in DOMAIN products : i # j => Codes(products[i]) \cap Codes(products[j]) = {}
  BY <1>6, <1>7, <1>8
<1>10. \A i \in DOMAIN products : Distinct(products[i].skus)
  BY <1>3, <1>5, <1>7
<1> QED
  BY <1>7, <1>9, <1>10 DEF CatalogInv

LEMMA ShopInvInit ==
  ASSUME ShopInit
  PROVE  ShopInv
<1>1. requests = [r \in Slots |-> NoRequest] /\ arrived = 0 /\ menu \in Menus /\ activities = 0
  BY DEF ShopInit, RequestInit
<1>2. \A r \in Slots : requests[r] = NoRequest /\ FinishedOK(requests[r])
  BY <1>1 DEF NoRequest, FinishedOK, Finished, Answers
<1>3. RequestInv
  BY <1>1, <1>2 DEF RequestInv, FinishedOK
<1>4. AccountsTypeOK
  <2>1. PICK s \in Somebody :
          /\ accounts = [u \in Users |-> IF u = Root THEN "active" ELSE s.account]
          /\ tokens = [u \in Users |-> IF u = Root THEN "valid" ELSE s.token]
          /\ roles = [u \in Users |-> IF u = Root THEN {"admin"} ELSE s.roles]
    BY DEF ShopInit
  <2>2. /\ s.account \in {"absent", "active", "disabled"} /\ s.token \in {"none", "valid"}
        /\ s.roles \in SUBSET Roles /\ {"admin"} \in SUBSET Roles
    BY AccountsAssumption DEF Somebody
  <2> QED
    BY <2>1, <2>2 DEF AccountsTypeOK
<1>5. CountInv
  BY <1>1, MenusAssumption DEF CountInv
<1>6. \A r \in Slots : /\ requests[r].step = "idle" /\ requests[r].op = "none"
                       /\ requests[r].wrote = FALSE
  BY <1>2 DEF NoRequest
<1>7. PendingInv
  BY <1>6 DEF PendingInv, Pending, Inserting, At
<1>8. RolesInv
  BY <1>6 DEF RolesInv, At
<1>9. HeldInv
  BY <1>6 DEF HeldInv, Busy
<1>10. OffersOnly
  BY <1>6 DEF OffersOnly, Asks, Busy
<1> QED
  BY <1>3, <1>4, <1>5, <1>7, <1>8, <1>9, <1>10, OrdersInit, CatalogInit DEF ShopInv

LEMMA ShopInvNext ==
  ASSUME ShopInv, [ShopNext]_vars
  PROVE  ShopInv'
<1>1. CASE ShopNext
  BY <1>1, RequestInvStep, AccountsKept, CountStepOK, CatalogKept, PendingStepOK, OrdersStepOK,
     RolesStepOK, HeldStepOK, OffersStepOK DEF ShopInv
<1>2. CASE UNCHANGED vars
  <2>1. UNCHANGED <<requests, arrived, menu, accountVars, products, orders, readAt, activities, history>>
    BY <1>2 DEF vars, requestVars, shopVars, saleVars
  <2>2. RequestInv' /\ AccountsTypeOK' /\ CountInv'
    BY <2>1 DEF ShopInv, RequestInv, AccountsTypeOK, CountInv, accountVars
  <2>3. CatalogInv' /\ PendingInv'
    BY <2>1 DEF ShopInv, CatalogInv, PendingInv, Codes, AllCodes, Pending, Inserting, At
  <2>4. OrdersInv'
    BY <2>1 DEF ShopInv, OrdersInv, TotalsExact, Delivered
  <2>5. RolesInv' /\ HeldInv' /\ OffersOnly'
    BY <2>1 DEF ShopInv, RolesInv, At, Arg, accountVars, HeldInv, Busy, OffersOnly, Asks
  <2> QED
    BY <2>2, <2>3, <2>4, <2>5 DEF ShopInv
<1> QED
  BY <1>1, <1>2

(* What every handler knows, whatever the others do between its statements. *)
THEOREM ShopInvariant == ShopSpec => []ShopInv
BY ShopInvInit, ShopInvNext, PTL DEF ShopSpec

-----------------------------------------------------------------------------
(* What clients rely on. *)

(* The tables keep their types and no service asks MySQL for page 0.        *)
THEOREM ShopTypes == ShopSpec => []ShopTypeOK
<1>1. ASSUME ShopInv PROVE ShopTypeOK
  <2>0. RequestInv /\ AccountsTypeOK /\ CountInv /\ CatalogInv /\ OrdersInv
    BY <1>1 DEF ShopInv
  <2>1. ASSUME NEW r \in Slots
        PROVE  /\ requests[r].step \in Steps \cup {"idle"}
               /\ requests[r].answer \in Answers
               /\ requests[r].step = "rows" => requests[r].got \subseteq 1 .. PageLimit
    <3>1. CASE RunningOK(requests[r])
      BY <3>1 DEF RunningOK, Running, Answers, KnowsOK
    <3>2. CASE FinishedOK(requests[r])
      BY <3>2 DEF FinishedOK, Finished, Steps
    <3> QED
      BY <2>0, <3>1, <3>2 DEF RequestInv
  <2>2. \A p \in Range(products) : p.status \in {StatusActive, StatusInactive}
    <3>1. \A i \in DOMAIN products : products[i] \in ProductRows
      BY <2>0 DEF CatalogInv
    <3>2. \A p \in ProductRows : p.status \in {StatusActive, StatusInactive}
      BY DEF ProductRows
    <3> QED
      BY <3>1, <3>2 DEF Range
  <2>3. \A o \in Range(orders) : o.user \in Users /\ o.total \in Int
    <3>1. \A i \in DOMAIN orders : orders[i] \in OrderRows
      BY <2>0 DEF OrdersInv
    <3>2. \A o \in OrderRows : o.user \in Users /\ o.total \in Int
      BY DEF OrderRows
    <3> QED
      BY <3>1, <3>2 DEF Range
  <2> QED
    BY <2>0, <2>1, <2>2, <2>3 DEF ShopTypeOK, CountInv, OrdersInv, Answers
<1> QED
  BY <1>1, ShopInvariant, PTL

(* 200 for a change means that it is committed; after any 4xx the request   *)
(* has written nothing, whichever statement of whichever handler refused.   *)
(* It does not say that the reason is right: see AnswersAreTrue.            *)
THEOREM TrueAnswers == ShopSpec => []AnswersAreTrue
<1>1. ASSUME ShopInv PROVE AnswersAreTrue
  <2>1. ASSUME NEW r \in Slots, requests[r].step = "done" PROVE FinishedOK(requests[r])
    BY <1>1, <2>1 DEF ShopInv, RequestInv, RunningOK, Running
  <2> QED
    BY <2>1 DEF AnswersAreTrue, FinishedOK, Writes
<1> QED
  BY <1>1, ShopInvariant, PTL

(* What only an administrator may change was changed by somebody who held   *)
(* the permission after asking: no role is cached by the middleware.        *)
THEOREM PermittedActs == ShopSpec => []ActedWithPermission
<1>1. ASSUME ShopInv PROVE ActedWithPermission
  BY <1>1 DEF ShopInv, HeldInv, ActedWithPermission
<1> QED
  BY <1>1, ShopInvariant, PTL

(* A replacement of roles leaves the set that it asked for, never the union *)
(* of two requests: it has locked every row it finds at COMMIT.             *)
THEOREM RolesReplacedWhole == ShopSpec => RolesAsRequested
<1> DEFINE Replaced == \A u \in Users : roles'[u] # roles[u] =>
             \E r \in Slots : /\ At(r, "replaceRoles", "assign")
                              /\ Arg(r).target = u /\ Requested(r) = roles'[u]
<1>1. ASSUME ShopInv, [ShopNext]_vars PROVE [Replaced]_vars
  <2>0. RequestInv /\ AccountsTypeOK /\ RolesInv
    BY <1>1 DEF ShopInv
  <2>1. CASE UNCHANGED roles
    BY <2>1
  <2>2. ASSUME NEW r \in Slots, AssignRoles(r) PROVE Replaced
    <3>1. roles' = [roles EXCEPT ![Arg(r).target] = Requested(r)] /\ Arg(r).target \in Users
      BY <2>0, <2>2, AssignsWhole
    <3>2. At(r, "replaceRoles", "assign")
      BY <2>2 DEF AssignRoles
    <3> QED
      BY <2>0, <3>1, <3>2 DEF AccountsTypeOK
  <2>3. UNCHANGED roles \/ \E r \in Slots : AssignRoles(r)
    BY <1>1
    DEF ShopNext, Ask, Consume, Quiet, vars, Serve, AccountsStep, accountVars, gatewayRegister,
        gatewayLogin, authenticate, gatewayCurrentUser, UserRoles, gatewayRequirePermission,
        gatewayReplaceRoles, ClearRoles, RolesDeadlock
  <2> QED
    BY <2>1, <2>2, <2>3
<1> QED
  BY <1>1, ShopInvariant, PTL DEF ShopSpec, RolesAsRequested

(* Orders and sale items are made only of snapshots that were on offer at   *)
(* some moment of the request, however the catalog changed between fetches. *)
THEOREM OffersFrozen == ShopSpec => []OffersOnly
<1>1. ShopInv => OffersOnly
  BY DEF ShopInv
<1> QED
  BY <1>1, ShopInvariant, PTL

(* No amount of an order has wrapped around at the end of int64.            *)
THEOREM ExactAmounts == ShopSpec => []TotalsExact
<1>1. ShopInv => TotalsExact
  BY DEF ShopInv, OrdersInv
<1> QED
  BY <1>1, ShopInvariant, PTL

(* A product appears with all its SKUs, and no code appears twice.          *)
THEOREM WholeCatalog == ShopSpec => []CatalogWhole
<1>1. ASSUME ShopInv PROVE CatalogWhole
  <2>1. CatalogInv
    BY <1>1 DEF ShopInv
  <2>2. ASSUME NEW i \in DOMAIN products
        PROVE  Cardinality(Codes(products[i])) = Len(products[i].skus)
    <3>0. products[i] \in ProductRows
      BY <2>1 DEF CatalogInv
    <3>1. products[i].skus \in Seq(SKURows) /\ Distinct(products[i].skus)
      BY <2>1, <3>0 DEF CatalogInv, ProductRows
    <3>2. PICK skus \in Seq(SKURows) : skus = products[i].skus
      BY <3>1
    <3>3. Cardinality(CodesUpTo(skus, Len(skus))) = Len(skus)
      BY <3>1, <3>2, CodesCounted
    <3>4. PICK p : p = products[i]
      OBVIOUS
    <3>5. Codes(p) = CodesUpTo(p.skus, Len(p.skus))
      BY <3>1, <3>4, CodesOfAll
    <3> QED
      BY <3>2, <3>3, <3>4, <3>5
  <2> QED
    BY <2>1, <2>2 DEF CatalogInv, CatalogWhole
<1> QED
  BY <1>1, ShopInvariant, PTL

(* A notification is marked by its owner, and the time of the first reading *)
(* stays whatever is asked again.                                           *)
THEOREM ReadOnceHolds == ShopSpec => ReadOnce
<1> DEFINE Once == \A id \in Delivered : readAt'[id] # readAt[id] =>
             /\ readAt[id] = 0
             /\ \E r \in Slots : At(r, "markRead", "call") /\ requests[r].user = orders[id].user
<1>1. ASSUME [ShopNext]_vars PROVE [Once]_vars
  <2>1. CASE UNCHANGED readAt
    BY <2>1
  <2>2. ASSUME NEW n, Deliver(n) PROVE Once
    BY <2>2 DEF Deliver, Delivered
  <2>3. ASSUME NEW r \in Slots, gatewayMarkNotificationRead(r) PROVE Once
    <3> DEFINE n == Arg(r).order
               time == requests[r].serial
    <3>1. At(r, "markRead", "call")
      BY <2>3 DEF gatewayMarkNotificationRead
    <3>2. \/ UNCHANGED readAt
          \/ /\ readAt' = [readAt EXCEPT ![n] = ReadTime(n, time)]
             /\ n \in OwnNotes(requests[r].user) /\ ReadTime(n, time) # readAt[n]
      BY <2>3 DEF gatewayMarkNotificationRead, MarkReadOwned
    <3>3. CASE /\ readAt' = [readAt EXCEPT ![n] = ReadTime(n, time)]
               /\ n \in OwnNotes(requests[r].user) /\ ReadTime(n, time) # readAt[n]
      <4>1. orders[n].user = requests[r].user /\ readAt[n] = 0
        BY <3>3 DEF OwnNotes, ReadTime
      <4>2. \A id \in Delivered : id # n => readAt'[id] = readAt[id]
        BY <3>3 DEF Delivered
      <4> QED
        BY <3>1, <4>1, <4>2
    <3> QED
      BY <2>1, <3>2, <3>3
  <2>4. UNCHANGED readAt \/ (\E n : Deliver(n)) \/ \E r \in Slots : gatewayMarkNotificationRead(r)
    BY <1>1
    DEF ShopNext, Ask, Consume, Quiet, vars, shopVars, Serve, InboxStep, gatewayListNotifications,
        ListOwned
  <2> QED
    BY <2>1, <2>2, <2>3, <2>4
<1> QED
  BY <1>1, PTL DEF ShopSpec, ReadOnce
=============================================================================
