------------------------------ MODULE Purchase ------------------------------
(***************************************************************************)
(* The purchase of v0.2 to v0.4 (seckill.go, mysqlrepo/repository.go): one *)
(* MySQL transaction takes the stock, writes the order and claims the item *)
(* for its user, in one of three stock modes. Requests come in directly    *)
(* (v0.2), through the Redis gate (v0.3) or as tasks of the Stream (v0.4). *)
(* Mode and entry are fixed when the process starts.                       *)
(*                                                                         *)
(* Transactions are modelled at the statements that meet: the read of the  *)
(* snapshot, the UPDATE of the item row and, in one step, the INSERTs with *)
(* COMMIT. Whoever has updated the item row holds its lock up to the end   *)
(* of the transaction, so nothing can come between those INSERTs. What a   *)
(* transaction has written shows only once it commits. Order, order item   *)
(* and claim are committed together and are one row here.                  *)
(***************************************************************************)
EXTENDS Activity, Integers

CONSTANTS
  Clients,       \* the requests and Stream consumers at work at a time
  StockModes,    \* the configured StockMode is one of these
  Entries,       \* and the way in one of these
  MaxAttempts    \* optimisticMaxAttempts

ASSUME PurchaseAssumption ==
  /\ StockModes \subseteq {"atomic", "pessimistic", "optimistic"}
  /\ Entries \subseteq {"direct", "gated", "stream"}
  /\ MaxAttempts \in Nat \ {0}

VARIABLES
  mode,        \* Repository.stockMode
  entry,       \* which of Service's constructors was used
  available,   \* seckill_items.available_stock
  version,     \* seckill_items.version
  onSale,      \* the product and its SKU are active
  claims,      \* seckill_order_claims, each with its order
  lock,        \* who holds the lock on the item row
  calls        \* the purchases in progress

tableVars == <<available, version, onSale, claims>>
configVars == <<mode, entry>>
vars == <<gateVars, adminVars, configVars, tableVars, lock, calls>>

Steps == {"admit", "find", "load", "update", "insert", "winner", "backoff", "done"}

Answers ==
  {"none", "created", "replayed", "not_ready", "unavailable", "sold_out", "busy",
   "temporary", "orphan", "error"}

(* A purchase and its local variables: the order number and the time it was *)
(* admitted with, gateReplayed, the snapshot it has loaded, its optimistic  *)
(* attempts.                                                                *)
Call ==
  [step : Steps, user : Users, order : OrderNos, now : Phases, replayed : BOOLEAN,
   stock : Int, version : Nat, attempt : Nat, answer : Answers]

NewCall(u, o, now, step) ==
  [step |-> step, user |-> u, order |-> o, now |-> now, replayed |-> FALSE,
   stock |-> 0, version |-> 0, attempt |-> 0, answer |-> "none"]

NoCall == [step |-> "idle", answer |-> "none"]

TypeOK ==
  /\ GateTypeOK
  /\ AdminTypeOK
  /\ mode \in StockModes /\ entry \in Entries
  /\ available \in Int /\ version \in Nat /\ onSale \in BOOLEAN
  /\ claims \in SUBSET Task
  /\ lock \in SUBSET Clients
  /\ calls \in [Clients -> Call \cup {NoCall}]

Init ==
  /\ GateInit
  /\ AdminInit
  /\ mode \in StockModes /\ entry \in Entries
  /\ available = InitialStock /\ version = 0 /\ onSale = TRUE
  /\ claims = {}
  /\ lock = {}
  /\ calls = [c \in Clients |-> NoCall]

-----------------------------------------------------------------------------
(* Admission. *)

(* newOrderNo draws a number nobody has. *)
Fresh(o) ==
  /\ \A b \in buyers \cup owners \cup claims : b.order # o
  /\ \A c \in Clients : calls[c].step # "idle" => calls[c].order # o

Go(c, step) == calls' = [calls EXCEPT ![c].step = step]

(* The call returns; only the answer is left of it. *)
Answer(c, answer) ==
  calls' = [calls EXCEPT ![c] =
              [NewCall(@.user, @.order, "upcoming", "done") EXCEPT !.answer = answer]]

(* Service.Purchase: the clock is read once, for the order number and the window. *)
Begin(c, u, o) ==
  /\ entry # "stream"
  /\ calls[c].step = "idle"
  /\ Fresh(o)
  /\ calls' = [calls EXCEPT ![c] = NewCall(u, o, clock, IF entry = "gated" THEN "admit" ELSE "find")]
  /\ UNCHANGED <<gateVars, adminVars, configVars, tableVars, lock>>

(* reserveScript, which looks at the window before it looks for the buyer. *)
GateDecisionIgnoresStock(u, now) ==
  CASE ~ready                                             -> "not_ready"
    [] ready /\ now # "open"                              -> "unavailable"
    [] ready /\ now = "open" /\ \E b \in buyers : b.user = u -> "replayed"
    [] OTHER                                              -> "reserved"

GateDecision(u, now) ==
  IF ready /\ now # "open" THEN "unavailable" ELSE Decision(u, now)

(* The reply: the first order number of the user, new or replayed, or a refusal. *)
ParseReservation(c, decision) ==
  \/ decision = "reserved" /\ Go(c, "find")
  \/ /\ decision = "replayed"
     /\ \E b \in buyers :
          /\ b.user = calls[c].user
          /\ calls' = [calls EXCEPT ![c].step = "find", ![c].order = b.order,
                                    ![c].replayed = TRUE]
  \/ decision \in {"not_ready", "unavailable", "sold_out"} /\ Answer(c, decision)

(* Gate.Reserve: the script runs, and its reply may be lost: ErrAdmissionFailure. *)
(* It is run again only when Redis says that it does not know it.                 *)
GateReserve(c, decision) ==
  /\ IF decision = "reserved"
     THEN /\ stock' = stock - 1
          /\ buyers' = buyers \cup {[order |-> calls[c].order, user |-> calls[c].user]}
     ELSE UNCHANGED <<stock, buyers>>
  /\ \/ ParseReservation(c, decision)
     \/ decision \in {"reserved", "replayed"} /\ Answer(c, "temporary")

Admit(c) ==
  /\ calls[c].step = "admit"
  /\ GateReserve(c, GateDecision(calls[c].user, calls[c].now))
  /\ UNCHANGED <<ready, owners, status, stream, adminVars, configVars, tableVars, lock>>

(* Service.enqueueStream; a replay or a refusal changes nothing. *)
EnqueueStream(u, o) ==
  /\ entry = "stream"
  /\ Fresh(o)
  /\ \E now \in Phases : Reached(now) /\ ReserveAndEnqueue(u, o, now)
  /\ UNCHANGED <<adminVars, configVars, tableVars, lock, calls>>

(* ProcessStreamTask, with the time of the reservation; a task may be delivered *)
(* to several consumers. It was reserved when the activity was open.            *)
ProcessStreamTask(c, t) ==
  /\ entry = "stream"
  /\ calls[c].step = "idle"
  /\ t \in stream
  /\ calls' = [calls EXCEPT ![c] = NewCall(t.user, t.order, "open", "find")]
  /\ UNCHANGED <<gateVars, adminVars, configVars, tableVars, lock>>

-----------------------------------------------------------------------------
(* Repository.Purchase. *)

ExistingByOrderNo(call) == {k \in claims : k.order = call.order}

Existing(call) == {k \in claims : k.user = call.user}

(* findExistingPurchase, to save a transaction ... *)
Find(c) ==
  /\ calls[c].step = "find"
  /\ IF Existing(calls[c]) # {} THEN Answer(c, "replayed") ELSE Go(c, "load")
  /\ UNCHANGED <<gateVars, adminVars, configVars, tableVars, lock>>

(* ... and to read the order of the transaction that won. *)
ReadWinner(c) ==
  /\ calls[c].step = "winner"
  /\ Answer(c, IF Existing(calls[c]) # {} THEN "replayed" ELSE "orphan")
  /\ UNCHANGED <<gateVars, adminVars, configVars, tableVars, lock>>

Sellable(call) == enabled /\ call.now = "open" /\ onSale

(* loadPurchaseSnapshot and the checks on it. FOR UPDATE waits for the row, *)
(* keeps it and locks the activity and the product with it.                 *)
LoadUnlocked(c) ==
  /\ calls[c].step = "load"
  /\ IF Sellable(calls[c])
     THEN calls' = [calls EXCEPT ![c].step = "update",
                                 ![c].stock = available, ![c].version = version]
     ELSE Answer(c, "unavailable")
  /\ UNCHANGED <<gateVars, adminVars, configVars, tableVars, lock>>

Load(c) ==
  /\ calls[c].step = "load"
  /\ mode = "pessimistic" => lock = {}
  /\ IF Sellable(calls[c])
     THEN /\ calls' = [calls EXCEPT ![c].step = "update",
                                    ![c].stock = available, ![c].version = version]
          /\ lock' = IF mode = "pessimistic" THEN {c} ELSE lock
     ELSE /\ Answer(c, "unavailable")
          /\ UNCHANGED lock
  /\ UNCHANGED <<gateVars, adminVars, configVars, tableVars>>

(* Whether the UPDATE of decrementStock, which sees the row as it is by then, *)
(* matches it.                                                                *)
Matches(call) ==
  \/ mode = "pessimistic"
  \/ mode = "atomic" /\ available > 0
  \/ mode = "optimistic" /\ available > 0 /\ version = call.version

Empty(call) == mode # "atomic" /\ call.stock <= 0

DecrementStock(c) ==
  LET call == calls[c] IN
  /\ call.step = "update"
  /\ lock \subseteq {c}
  /\ \/ /\ ~Empty(call) /\ Matches(call)
        /\ Go(c, "insert")
        /\ lock' = {c}
     \/ /\ ~Empty(call) /\ ~Matches(call) /\ mode = "optimistic"
        /\ IF call.attempt + 1 = MaxAttempts THEN Answer(c, "busy") ELSE Go(c, "backoff")
        /\ lock' = {}
     \/ /\ Empty(call) \/ (~Matches(call) /\ mode # "optimistic")
        /\ Answer(c, "sold_out")
        /\ lock' = {}
  /\ UNCHANGED <<gateVars, adminVars, configVars, tableVars>>

(* waitOptimisticRetry; the next attempt is a transaction of its own. *)
RetryUpdateOnly(c) ==
  /\ calls[c].step = "backoff"
  /\ calls' = [calls EXCEPT ![c].step = "update", ![c].attempt = @ + 1]
  /\ UNCHANGED <<gateVars, adminVars, configVars, tableVars, lock>>

Retry(c) ==
  /\ calls[c].step = "backoff"
  /\ calls' = [calls EXCEPT ![c].step = "load", ![c].attempt = @ + 1]
  /\ UNCHANGED <<gateVars, adminVars, configVars, tableVars, lock>>

(* orders.order_no and uk_seckill_claim_user_item. *)
DuplicateOrderNo(call) == \E k \in claims : k.order = call.order

Duplicate(call) == \E k \in claims : k.order = call.order \/ k.user = call.user

Commits(call) ==
  /\ claims' = claims \cup {[order |-> call.order, user |-> call.user]}
  /\ available' = available - 1
  /\ version' = version + 1
  /\ UNCHANGED onSale

(* A new order counts as a replay if the gate had the user already. *)
Success(call) == IF call.replayed THEN "replayed" ELSE "created"

(* A duplicate answered as if the order were new. *)
InsertForgetsWinner(c) ==
  LET call == calls[c] IN
  /\ call.step = "insert"
  /\ IF Duplicate(call)
     THEN Answer(c, "created") /\ UNCHANGED tableVars
     ELSE Commits(call) /\ (Answer(c, "created") \/ Answer(c, "error"))
  /\ lock' = {}
  /\ UNCHANGED <<gateVars, adminVars, configVars>>

(* The INSERTs and COMMIT, whose own outcome may stay unknown to the caller; or *)
(* a duplicate key and a rollback.                                              *)
Insert(c) ==
  LET call == calls[c] IN
  /\ call.step = "insert"
  /\ IF Duplicate(call)
     THEN Go(c, "winner") /\ UNCHANGED tableVars
     ELSE Commits(call) /\ (Answer(c, Success(call)) \/ Answer(c, "error"))
  /\ lock' = {}
  /\ UNCHANGED <<gateVars, adminVars, configVars>>

(* A cancelled context, a failing statement or Redis, wherever the call stands. *)
Abort(c) ==
  /\ calls[c].step \notin {"idle", "done"}
  /\ Answer(c, IF calls[c].step = "admit" THEN "temporary" ELSE "error")
  /\ lock' = lock \ {c}
  /\ UNCHANGED <<gateVars, adminVars, configVars, tableVars>>

(* A failed purchase gives its admission back, though it may have committed. *)
ReturnGivesBack(c) ==
  LET call == calls[c] IN
  /\ call.step = "done"
  /\ calls' = [calls EXCEPT ![c] = NoCall]
  /\ \/ /\ call.answer = "error"
        /\ \E b \in buyers : b.user = call.user
        /\ stock' = stock + 1
        /\ buyers' = {b \in buyers : b.user # call.user}
     \/ UNCHANGED <<stock, buyers>>
  /\ UNCHANGED <<ready, owners, status, stream, adminVars, configVars, tableVars, lock>>

(* The caller has its answer. A Stream task is acknowledged if it succeeded, and *)
(* otherwise either stays for another delivery or has had its last one.          *)
Return(c) ==
  LET call == calls[c]
      task == [order |-> call.order, user |-> call.user]
  IN
  /\ call.step = "done"
  /\ calls' = [calls EXCEPT ![c] = NoCall]
  /\ \/ /\ entry # "stream" \/ call.answer \notin {"created", "replayed"}
        /\ UNCHANGED <<stream, status>>
     \/ /\ entry = "stream" /\ call.answer \in {"created", "replayed"}
        /\ stream' = stream \ {task}
        /\ UNCHANGED status
     \/ /\ entry = "stream" /\ call.answer \notin {"created", "replayed"}
        /\ stream' = stream \ {task}
        /\ status' = [status EXCEPT ![call.order] = "FAILED"]
  /\ UNCHANGED <<ready, stock, buyers, owners, adminVars, configVars, tableVars, lock>>

-----------------------------------------------------------------------------
(* Administration. *)

(* Rows that a pessimistic purchase has locked wait for it. *)
RowsFree == mode = "pessimistic" => lock = {}

(* Service.SetActivityStatus without a cache. *)
SetActivityStatus ==
  /\ entry = "direct"
  /\ RowsFree
  /\ enabled' = ~enabled
  /\ UNCHANGED <<clock, inFlight, snapshot, gateVars>>

(* Activity and item are read in one snapshot, without a lock. *)
LoadPreheatSnapshot == BeginPreheat(available)

(* With one, it and PreheatActivity touch the same two stores in the same order *)
(* as the service that replaced them.                                           *)
CachedAdmin ==
  /\ entry # "direct"
  /\ \/ RowsFree /\ (BeginDisable \/ FinishEnable)
     \/ LoadPreheatSnapshot
     \/ PublishActivity
     \/ FinishDisable
     \/ BeginEnable
     \/ \E call \in inFlight : AdminCallFails(call)
     \/ SnapshotExpires

Admin ==
  /\ SetActivityStatus \/ CachedAdmin \/ Tick
  /\ UNCHANGED <<configVars, tableVars, lock, calls>>

(* product-rpc's SetStatus. *)
SetProductStatus ==
  /\ RowsFree
  /\ onSale' = ~onSale
  /\ UNCHANGED <<gateVars, adminVars, configVars, available, version, claims, lock, calls>>

-----------------------------------------------------------------------------
Enter ==
  \/ \E c \in Clients, u \in Users, o \in OrderNos : Begin(c, u, o)
  \/ \E u \in Users, o \in OrderNos : EnqueueStream(u, o)
  \/ \E c \in Clients, t \in stream : ProcessStreamTask(c, t)

Purchasing(c) ==
  \/ Admit(c) \/ Find(c) \/ Load(c) \/ DecrementStock(c) \/ Retry(c)
  \/ Insert(c) \/ ReadWinner(c)

Next ==
  \/ Enter
  \/ \E c \in Clients : Purchasing(c) \/ Abort(c) \/ Return(c)
  \/ Admin
  \/ SetProductStatus

Spec == Init /\ [][Next]_vars

-----------------------------------------------------------------------------
(* Properties. *)

(* In every stock mode the stock that is left and the orders that were made   *)
(* add up to the initial stock, and neither goes below zero: no order without *)
(* a unit, no unit taken by a transaction that was rolled back, no decrement  *)
(* lost between two transactions that have read the same row.                 *)
StockBacksClaims ==
  /\ available >= 0
  /\ available + Cardinality(claims) = InitialStock

(* However often a user asks at a time, and whatever was left unanswered, the *)
(* user has one order and an order number one user.                           *)
OneClaimPerUser ==
  \A k, l \in claims : k.user = l.user \/ k.order = l.order => k = l

(* A transaction that ran into a duplicate key always finds the order that    *)
(* won, whichever of the two keys it was and whoever rolled back meanwhile:   *)
(* "duplicate seckill claim without committed order" is never reported.       *)
WinnerIsFound == \A c \in Clients : calls[c].answer # "orphan"

(* A purchase gives up as busy only after as many others have succeeded as it *)
(* had attempts: a version conflict is always somebody's sale, never a        *)
(* conflict with oneself or with a rollback.                                  *)
BusyMeansSales ==
  \A c \in Clients : calls[c].answer = "busy" => Cardinality(claims) >= MaxAttempts

(* With FOR UPDATE no order is committed for an activity or a product that is *)
(* switched off at that moment: what the transaction has checked stays true   *)
(* up to its end.                                                             *)
LockedChecksHold ==
  [][mode = "pessimistic" /\ claims' # claims => enabled /\ onSale]_vars

(* Redis never has more units to give than MySQL has left for users who are   *)
(* not yet admitted: an admission whose outcome is unknown is never returned. *)
GateNeverAhead ==
  ready /\ ~LatePublish =>
    stock + Cardinality({b \in buyers : \A k \in claims : k.user # b.user}) <= available
=============================================================================
