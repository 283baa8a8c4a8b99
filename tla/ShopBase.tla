------------------------------ MODULE ShopBase ------------------------------
(***************************************************************************)
(* What the requests of the public API share (gateway_rpc.go, login.go,    *)
(* platform/rpc/errors.go). A request is served by one goroutine of the    *)
(* gateway and, one RPC at a time, by goroutines of the services behind    *)
(* it. Each of its steps is one statement or one transaction's commit.     *)
(*                                                                         *)
(* A domain error becomes a gRPC code in its service and an HTTP status in *)
(* the gateway. Both tables are kept: what a client may conclude from an   *)
(* answer depends on them.                                                 *)
(***************************************************************************)
EXTENDS Integers, FiniteSets, Sequences

CONSTANTS
  Slots,          \* the requests served at a time
  Users,          \* the people who use the shop
  PageLimit,      \* 2^32: page numbers travel as uint32
  Menus           \* bounds: the operations of a behaviour and how many requests

ASSUME ShopAssumption ==
  /\ IsFiniteSet(Slots) /\ IsFiniteSet(Users)
  /\ PageLimit \in Nat \ {0}

VARIABLES
  requests,       \* the requests in progress or answered, by slot
  arrived,        \* how many have arrived so far
  menu            \* the bounds of this behaviour

requestVars == <<requests, arrived, menu>>

(* The operations behind authenticate and a permission, with the code of it; *)
(* the ones behind authenticate alone; the ones open to everybody.           *)
Permission ==
  [replaceRoles |-> "rbac:manage",
   createProduct |-> "product:write", updateProduct |-> "product:write",
   updateProductStatus |-> "product:write",
   createActivity |-> "seckill:write", createSeckillItem |-> "seckill:write"]

AdminOps == DOMAIN Permission
UserOps ==
  {"currentUser", "createOrder", "getOrder", "listNotifications", "markRead"}
PublicOps == {"register", "login", "listProducts", "getProduct"}
Ops == AdminOps \cup UserOps \cup PublicOps

ASSUME MenusAssumption ==
  \A m \in Menus : m.requests \in Nat /\ m.ops \subseteq Ops

Steps ==
  {"authenticate", "permit", "call", "clear", "assign", "roles", "insert",
   "rows", "resolve", "store", "done"}

(* A request: what is asked, by whom, where its handler is, the HTTP status *)
(* answered (0: none yet), whether it has committed a change, and what the  *)
(* handler has read so far.                                                 *)
NewRequest(op, u, arg) ==
  [op |-> op, user |-> u, arg |-> arg, serial |-> arrived + 1,
   step |-> IF op \in PublicOps THEN "call" ELSE "authenticate",
   answer |-> 0, wrote |-> FALSE, got |-> {}]

NoRequest == [step |-> "idle", op |-> "none", wrote |-> FALSE, answer |-> 0]

Busy(r) == requests[r].step \notin {"idle", "done"}
At(r, op, step) == requests[r].op = op /\ requests[r].step = step
Arg(r) == requests[r].arg

(* The tail of every handler: what it knew is gone, what it did and said    *)
(* stays. A client that was told 504 hears nothing more.                    *)
Answered(q, status) ==
  [step |-> "done", op |-> q.op, wrote |-> q.wrote,
   answer |-> IF q.answer = 0 THEN status ELSE q.answer]

Set(r, q) == requests' = [requests EXCEPT ![r] = q]
Answer(r, status) == Set(r, Answered(requests[r], status))
Written(r, status) == Set(r, [Answered(requests[r], status) EXCEPT !.wrote = TRUE])
GoTo(r, step) == Set(r, [requests[r] EXCEPT !.step = step])

(* The page a listing asks its service for: the first one unless another is *)
(* named, cut to 32 bits on the way.                                        *)
AskedPage(page) == (IF page <= 0 THEN 1 ELSE page) % PageLimit

-----------------------------------------------------------------------------
(* Errors on their way out. *)

(* StatusError: what a service's mapError does not name is Internal. *)
StatusError(mapError, err) == IF err \in DOMAIN mapError THEN mapError[err] ELSE "Internal"

writeRPCError(code) ==
  CASE code = "InvalidArgument" -> 400
    [] code = "Unauthenticated" -> 401
    [] code = "PermissionDenied" -> 403
    [] code = "NotFound" -> 404
    [] code \in {"AlreadyExists", "FailedPrecondition"} -> 409
    [] code = "ResourceExhausted" -> 429
    [] code = "Unavailable" -> 503
    [] code = "DeadlineExceeded" -> 504
    [] OTHER -> 500

(* The handler of r ends with the error err of a service. *)
Fail(r, mapError, err) == Answer(r, writeRPCError(StatusError(mapError, err)))

-----------------------------------------------------------------------------
(* Whoever asks may be refused before any service hears of it: the body is  *)
(* not what the handler decodes.                                            *)
Decode(r, q) == Set(r, Answered(q, 400)) \/ Set(r, [q EXCEPT !.step = "call"])

(* An RPC of r fails: the service is gone, its database connection breaks   *)
(* or its deadline passes before COMMIT. The transaction is rolled back.    *)
Breaks(r) ==
  /\ Busy(r) /\ requests[r].step # "authenticate"
  /\ Answer(r, writeRPCError("Unavailable"))

(* The deadline passes in the gateway, which answers 504 at once. What the  *)
(* service is doing, a single statement or the last ones of a transaction,  *)
(* is too far on to be stopped and runs to its end.                         *)
GiveUp(r) ==
  /\ Busy(r) /\ requests[r].answer = 0
  /\ requests[r].step \in {"call", "assign", "insert", "store"}
  /\ Set(r, [requests[r] EXCEPT !.answer = writeRPCError("DeadlineExceeded")])

(* A client sends a request to a free handler. *)
Arrive(r, op, u, arg) ==
  /\ ~Busy(r) /\ arrived < menu.requests
  /\ Set(r, NewRequest(op, u, arg))
  /\ arrived' = arrived + 1
  /\ UNCHANGED menu

RequestInit ==
  /\ requests = [r \in Slots |-> NoRequest]
  /\ arrived = 0
  /\ menu \in Menus
=============================================================================
