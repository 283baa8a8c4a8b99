----------------------------- MODULE SeckillSale -----------------------------
(***************************************************************************)
(* The sale of one item from end to end: users ask seckill-rpc, the Redis  *)
(* script admits them and queues a task, the consumers of                  *)
(* seckill-orchestrator carry each task through inventory-rpc and order-rpc*)
(* (streamqueue/runtime.go, streamqueue/rpc_processor.go) and the result   *)
(* projector writes the outcome back to Redis.                             *)
(*                                                                         *)
(* What can go wrong is in the model: a consumer dies at any step; an      *)
(* entry is claimed by a second consumer while the first still works on    *)
(* it; an RPC ends without an answer and its request runs on the server    *)
(* before that, later or never; a Redis script fails and its error is      *)
(* dropped; administrative calls interleave with all of it.                *)
(*                                                                         *)
(* An entry and its order number are the same thing here: the script       *)
(* appends exactly one entry per order number.                             *)
(***************************************************************************)
EXTENDS Activity, Inventory, OrderBook

CONSTANTS
  Workers,         \* the consumers of the group, each its own process
  MaxDeliveries,   \* RuntimeConfig.MaxDeliveries
  BatchSize,       \* RuntimeConfig.BatchSize
  MaxFaults        \* bound: crashes and lost scripts in one behaviour

ASSUME OrchestratorAssumption ==
  /\ MaxDeliveries \in Nat \ {0}
  /\ BatchSize \in Nat \ {0}
  /\ MaxFaults \in Nat

VARIABLES
  up,            \* the consumers that run a loop for this item
  pending,       \* the group's pending entries list
  retries,       \* the retries hash
  dlq,           \* the order numbers in the item's dead letter Stream
  jobs,          \* the entries consumers hold, and how far each has got
  lateReserve,   \* reservation requests whose caller has given up on them
  lateOrder,     \* order requests whose caller has given up on them
  ledger,        \* the projector's event ledger
  faults         \* faults so far

queueVars == <<up, pending, retries, dlq, jobs, faults>>
callVars == <<lateReserve, lateOrder>>
vars == <<gateVars, adminVars, inventoryVars, orderVars, queueVars, callVars, ledger>>

(***************************************************************************)
(* A fetched entry waits for its turn in the batch; then its consumer calls*)
(* inventory-rpc ("reserve"), order-rpc ("order"), and runs completeScript *)
(* ("complete") or failScript, with the terminal flag ("reject") or        *)
(* without it ("retry").                                                   *)
(***************************************************************************)
Steps == {"fetched", "reserve", "order", "complete", "retry", "reject"}

Job == [worker : Workers, task : Task, step : Steps]

TypeOK ==
  /\ GateTypeOK
  /\ AdminTypeOK
  /\ InventoryTypeOK
  /\ OrderTypeOK
  /\ up \in SUBSET Workers
  /\ pending \in SUBSET Task
  /\ retries \in [OrderNos -> Nat]
  /\ dlq \in SUBSET OrderNos
  /\ jobs \in SUBSET Job
  /\ lateReserve \in SUBSET Task
  /\ lateOrder \in SUBSET Task
  /\ ledger \in SUBSET OrderNos
  /\ faults \in 0 .. MaxFaults

(* The orchestrator found the item while the activity was enabled and ahead. *)
Init ==
  /\ GateInit
  /\ AdminInit
  /\ InventoryInit
  /\ OrderInit
  /\ up = Workers
  /\ pending = {}
  /\ retries = [o \in OrderNos |-> 0]
  /\ dlq = {}
  /\ jobs = {}
  /\ lateReserve = {}
  /\ lateOrder = {}
  /\ ledger = {}
  /\ faults = 0

-----------------------------------------------------------------------------
(* seckill-rpc. *)

(* newStreamOrderNo is a clock reading and 8 random bytes: never used before. *)
Fresh(o) == \A t \in owners : t.order # o

Enqueue(u, o, now) ==
  /\ Fresh(o)
  /\ Reached(now)
  /\ ReserveAndEnqueue(u, o, now)
  /\ UNCHANGED <<adminVars, inventoryVars, orderVars, queueVars, callVars, ledger>>

Admin ==
  /\ \/ Tick
     \/ BeginPreheat(ListActivityItems)
     \/ PublishActivity
     \/ BeginDisable
     \/ FinishDisable
     \/ BeginEnable
     \/ FinishEnable
     \/ \E call \in inFlight : AdminCallFails(call)
     \/ SnapshotExpires
  /\ UNCHANGED <<inventoryVars, orderVars, queueVars, callVars, ledger>>

-----------------------------------------------------------------------------
(* seckill-orchestrator: where entries come from. *)

(* A started instance asks seckill-rpc which items belong to active activities. *)
Discover(w) ==
  /\ w \notin up
  /\ ListedAsActive
  /\ up' = up \cup {w}
  /\ UNCHANGED <<pending, retries, dlq, jobs, faults>>
  /\ UNCHANGED <<gateVars, adminVars, inventoryVars, orderVars, callVars, ledger>>

Idle(w) == w \in up /\ \A j \in jobs : j.worker # w

Fetched(w, batch) == {[worker |-> w, task |-> t, step |-> "fetched"] : t \in batch}

(***************************************************************************)
(* XREADGROUP with ">" takes entries nobody has had; XAUTOCLAIM takes      *)
(* entries that have been pending for ClaimIdle. How long that is compared *)
(* with a batch of slow tasks behind a shared semaphore is not known, so   *)
(* any pending entry can be claimed. The order inside a batch is dropped.  *)
(***************************************************************************)
ReadGroup(w, batch) ==
  /\ Idle(w)
  /\ batch \subseteq stream \ pending
  /\ pending' = pending \cup batch
  /\ jobs' = jobs \cup Fetched(w, batch)
  /\ UNCHANGED <<up, retries, dlq, faults>>
  /\ UNCHANGED <<gateVars, adminVars, inventoryVars, orderVars, callVars, ledger>>

AutoClaim(w, batch) ==
  /\ Idle(w)
  /\ batch \subseteq pending
  /\ jobs' = jobs \cup Fetched(w, batch)
  /\ UNCHANGED <<up, pending, retries, dlq, faults>>
  /\ UNCHANGED <<gateVars, adminVars, inventoryVars, orderVars, callVars, ledger>>

Batches(entries) == {b \in SUBSET entries : b # {} /\ Cardinality(b) <= BatchSize}

-----------------------------------------------------------------------------
(* seckill-orchestrator: one entry, from processOne to its script. *)

Goto(j, step) == (jobs \ {j}) \cup {[j EXCEPT !.step = step]}

(* processBatch works through the batch one entry at a time. *)
StartTask(j) ==
  /\ j.step = "fetched"
  /\ \A k \in jobs : k.worker = j.worker => k.step = "fetched"
  /\ jobs' = Goto(j, "reserve")
  /\ UNCHANGED <<up, pending, retries, dlq, faults>>
  /\ UNCHANGED <<gateVars, adminVars, inventoryVars, orderVars, callVars, ledger>>

(* inventory-rpc answers; only a rejection that is terminal ends the task. *)
ReserveAnswered(j) ==
  /\ j.step = "reserve"
  /\ Reserve(j.task)
  /\ jobs' = Goto(j, IF ReserveAnswer(j.task) = "ok" THEN "order" ELSE "reject")
  /\ UNCHANGED <<up, pending, retries, dlq, faults>>
  /\ UNCHANGED <<gateVars, adminVars, orderVars, callVars, ledger>>

(***************************************************************************)
(* The call ends in a timeout, a lost connection, an internal error or an  *)
(* open breaker. The request may have run, may still run, or never will.   *)
(* The policy's own second attempt adds nothing: its requests run under    *)
(* the same order number.                                                  *)
(***************************************************************************)
ReserveUnknown(j) ==
  /\ j.step = "reserve"
  /\ lateReserve' = lateReserve \cup {j.task}
  /\ jobs' = Goto(j, "retry")
  /\ UNCHANGED <<up, pending, retries, dlq, faults, lateOrder>>
  /\ UNCHANGED <<gateVars, adminVars, inventoryVars, orderVars, ledger>>

(* Any failure of order-rpc becomes ErrReservedWithoutOrder, never terminal. *)
OrderAnswered(j) ==
  /\ j.step = "order"
  /\ CreateOrder(j.task)
  /\ jobs' = Goto(j, IF CreateAnswer(j.task) = "ok" THEN "complete" ELSE "retry")
  /\ UNCHANGED <<up, pending, retries, dlq, faults>>
  /\ UNCHANGED <<gateVars, adminVars, inventoryVars, callVars, ledger>>

(* The order's outcome is unknown and taken for success. *)
OrderUnknownAcked(j) ==
  /\ j.step = "order"
  /\ lateOrder' = lateOrder \cup {j.task}
  /\ jobs' = Goto(j, "complete")
  /\ UNCHANGED <<up, pending, retries, dlq, faults, lateReserve>>
  /\ UNCHANGED <<gateVars, adminVars, inventoryVars, orderVars, ledger>>

OrderUnknown(j) ==
  /\ j.step = "order"
  /\ lateOrder' = lateOrder \cup {j.task}
  /\ jobs' = Goto(j, "retry")
  /\ UNCHANGED <<up, pending, retries, dlq, faults, lateReserve>>
  /\ UNCHANGED <<gateVars, adminVars, inventoryVars, orderVars, ledger>>

(* completeScript. On an entry that is already gone it does nothing. *)
Complete(j) ==
  /\ j.step = "complete"
  /\ pending' = pending \ {j.task}
  /\ stream' = stream \ {j.task}
  /\ retries' = [retries EXCEPT ![j.task.order] = 0]
  /\ jobs' = jobs \ {j}
  /\ UNCHANGED <<ready, stock, buyers, owners, status, up, dlq, faults>>
  /\ UNCHANGED <<adminVars, inventoryVars, orderVars, callVars, ledger>>

Terminal(j) == j.step = "reject" \/ retries[j.task.order] + 1 >= MaxDeliveries

(* A failScript that forgets to count the failure. *)
FailureUncounted(j) ==
  LET o == j.task.order IN
  /\ j.step \in {"retry", "reject"}
  /\ jobs' = jobs \ {j}
  /\ \/ /\ ~Terminal(j)
        /\ UNCHANGED <<retries, status, stream, pending, dlq>>
     \/ /\ Terminal(j)
        /\ dlq' = dlq \cup {o}
        /\ status' = [status EXCEPT ![o] = "FAILED"]
        /\ stream' = stream \ {j.task}
        /\ pending' = pending \ {j.task}
        /\ retries' = [retries EXCEPT ![o] = 0]
  /\ UNCHANGED <<ready, stock, buyers, owners, up, faults>>
  /\ UNCHANGED <<adminVars, inventoryVars, orderVars, callVars, ledger>>

(***************************************************************************)
(* failScript. It counts the failure whatever has become of the entry, and *)
(* in the terminal case writes FAILED over whatever the result says.       *)
(***************************************************************************)
RecordFailure(j) ==
  LET o == j.task.order IN
  /\ j.step \in {"retry", "reject"}
  /\ jobs' = jobs \ {j}
  /\ \/ /\ ~Terminal(j)
        /\ retries' = [retries EXCEPT ![o] = @ + 1]
        /\ UNCHANGED <<status, stream, pending, dlq>>
     \/ /\ Terminal(j)
        /\ dlq' = dlq \cup {o}
        /\ status' = [status EXCEPT ![o] = "FAILED"]
        /\ stream' = stream \ {j.task}
        /\ pending' = pending \ {j.task}
        /\ retries' = [retries EXCEPT ![o] = 0]
  /\ UNCHANGED <<ready, stock, buyers, owners, up, faults>>
  /\ UNCHANGED <<adminVars, inventoryVars, orderVars, callVars, ledger>>

(* The script's error is dropped by processOne; the entry stays pending. *)
ScriptFails(j) ==
  /\ faults < MaxFaults
  /\ j.step \in {"complete", "retry", "reject"}
  /\ jobs' = jobs \ {j}
  /\ faults' = faults + 1
  /\ UNCHANGED <<up, pending, retries, dlq>>
  /\ UNCHANGED <<gateVars, adminVars, inventoryVars, orderVars, callVars, ledger>>

(* The process dies with its batch; a request under way goes on without it. *)
Crash(w) ==
  LET underWay(step) == {j.task : j \in {k \in jobs : k.worker = w /\ k.step = step}} IN
  /\ faults < MaxFaults
  /\ w \in up
  /\ up' = up \ {w}
  /\ jobs' = {j \in jobs : j.worker # w}
  /\ lateReserve' = lateReserve \cup underWay("reserve")
  /\ lateOrder' = lateOrder \cup underWay("order")
  /\ faults' = faults + 1
  /\ UNCHANGED <<pending, retries, dlq>>
  /\ UNCHANGED <<gateVars, adminVars, inventoryVars, orderVars, ledger>>

-----------------------------------------------------------------------------
(* The servers run a request nobody waits for, and the projector an event. *)

LateReserve(t) ==
  /\ Reserve(t)
  /\ lateReserve' = lateReserve \ {t}
  /\ UNCHANGED <<gateVars, adminVars, orderVars, queueVars, lateOrder, ledger>>

LateOrder(t) ==
  /\ CreateOrder(t)
  /\ lateOrder' = lateOrder \ {t}
  /\ UNCHANGED <<gateVars, adminVars, inventoryVars, queueVars, lateReserve, ledger>>

(***************************************************************************)
(* projectSuccessScript for the event of an order. The relay and Kafka     *)
(* deliver an Outbox row at any time after its commit and at least once; a *)
(* redelivery finds the ledger and does nothing.                           *)
(***************************************************************************)
Project(o) ==
  /\ o \notin ledger
  /\ \E t \in orders : t.order = o /\ t \in owners
  /\ status' = [status EXCEPT ![o] = "SUCCEEDED"]
  /\ ledger' = ledger \cup {o}
  /\ UNCHANGED <<ready, stock, buyers, owners, stream>>
  /\ UNCHANGED <<adminVars, inventoryVars, orderVars, queueVars, callVars>>

-----------------------------------------------------------------------------
Consume(w) ==
  \/ \E b \in Batches(stream \ pending) : ReadGroup(w, b)
  \/ \E b \in Batches(pending) : AutoClaim(w, b)

Process(j) ==
  \/ StartTask(j)
  \/ ReserveAnswered(j)
  \/ ReserveUnknown(j)
  \/ OrderAnswered(j)
  \/ OrderUnknown(j)
  \/ Complete(j)
  \/ RecordFailure(j)

Next ==
  \/ \E u \in Users, o \in OrderNos, now \in Phases : Enqueue(u, o, now)
  \/ Admin
  \/ \E w \in Workers : Discover(w) \/ Consume(w) \/ Crash(w)
  \/ \E j \in jobs : Process(j) \/ ScriptFails(j)
  \/ \E t \in lateReserve : LateReserve(t)
  \/ \E t \in lateOrder : LateOrder(t)
  \/ \E o \in outbox : Project(o)

Spec == Init /\ [][Next]_vars

(***************************************************************************)
(* A running consumer keeps reading and keeps working on what it holds, a  *)
(* stopped one is started again and discovers what it may, and committed   *)
(* events are delivered. Users, administrators, the clock, faults and lost *)
(* requests owe nothing.                                                   *)
(***************************************************************************)
Fairness ==
  /\ \A w \in Workers :
       /\ WF_vars(Discover(w))
       /\ WF_vars(Consume(w))
       /\ WF_vars(\E j \in jobs : j.worker = w /\ Process(j))
  /\ \A o \in OrderNos : WF_vars(o \in outbox /\ Project(o))

FairSpec == Spec /\ Fairness

-----------------------------------------------------------------------------
(* Properties. *)

(* Units of stock are neither made nor lost by inventory-rpc: what is left    *)
(* and what is reserved add up to the initial stock, through duplicate keys,  *)
(* rolled-back transactions, retries and requests that run late.              *)
StockConserved == dbStock + Cardinality(reservations) = InitialStock

(* No oversell end to end: orders never outnumber the stock, although         *)
(* order-rpc has no view of the stock and trusts the orchestrator's sequence. *)
OrdersWithinStock == Cardinality(orders) <= InitialStock

(* Even when a snapshot is rebuilt during the sale, so that a user can be     *)
(* admitted twice, no more users hold orders than there were units: an order  *)
(* only follows a reservation of its user, and those are bounded by the stock.*)
BuyersWithinStock == Cardinality({t.user : t \in orders}) <= InitialStock

(* One purchase per user: no user has two orders, although order-rpc only     *)
(* knows order numbers and the buyers hash can disappear during the sale.     *)
OneOrderPerUser == \A s, t \in orders : s.user = t.user => s = t

(* The Redis snapshot never admits more than MySQL can still serve (the       *)
(* "reverse drift" of the consistency diagnosis).                             *)
NoReverseDrift == ready => stock <= dbStock

(* A task that Redis accepted is never lost: it is in the Stream, or has      *)
(* become an order, or sits in the dead letter Stream. No crash, duplicate    *)
(* delivery or dropped script error makes it vanish.                          *)
NoTaskLost ==
  \A t \in owners : t \in stream \/ t \in orders \/ t.order \in dlq

(* A result that still says QUEUED has something under way that will change   *)
(* it: a Stream entry, or the unprojected event of a committed order.         *)
QueuedHasWork ==
  \A t \in owners :
    status[t.order] = "QUEUED" =>
      \/ t \in stream
      \/ t.order \in outbox \ ledger

(* The sale keeps its contract: the reservations of inventory-rpc are the     *)
(* tickets, each unit given once, and an order of order-rpc is only ever      *)
(* created against a reservation of the same user and order number, whichever *)
(* of the retries, duplicate deliveries or late requests creates it.          *)
Contract == INSTANCE SaleContract WITH tickets <- reservations, sold <- orders

ImplementsContract == Contract!Spec

(* A disabled activity whose snapshot is gone stays shut: nothing but         *)
(* re-enabling it, and a preheat after that, lets users in again.             *)
GateStaysClosed ==
  [][~enabled /\ ~ready /\ "disable" \notin inFlight => ~ready']_vars

(* While a consumer for the item runs, every accepted task leaves the Stream: *)
(* repeated failures end in the dead letter Stream, nothing is retried forever.*)
TasksSettle ==
  \A o \in OrderNos :
    (\E t \in stream : t.order = o) ~> (up = {} \/ \A t \in stream : t.order # o)

(* While a consumer for the item runs, no user polls in vain: a result that   *)
(* says QUEUED is replaced by SUCCEEDED or FAILED, by failScript or by the    *)
(* event of the order, although no step that handles the entry writes         *)
(* SUCCEEDED itself and completeScript leaves QUEUED behind.                  *)
ResultsSettle ==
  \A o \in OrderNos : status[o] = "QUEUED" ~> (up = {} \/ status[o] # "QUEUED")

(* An entry that was read and that its consumer did not acknowledge before it *)
(* stopped is taken over by another one: no entry stays pending for ever.     *)
NoTaskStranded ==
  \A o \in OrderNos :
    (\E t \in pending : t.order = o) ~> (\A t \in pending : t.order # o)
=============================================================================
