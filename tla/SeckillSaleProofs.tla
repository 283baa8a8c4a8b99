-------------------------- MODULE SeckillSaleProofs --------------------------
(***************************************************************************)
(* Proofs about the sale for any number of users, order numbers, units and *)
(* consumers. The argument: every task anywhere in the system was admitted *)
(* by the script (owners), an order number is admitted once, and a task    *)
(* only moves on when the stage behind it has committed. What depends on   *)
(* the snapshot not being rebuilt during the sale is stated under          *)
(* ~LatePublish.                                                           *)
(***************************************************************************)
EXTENDS SeckillSale, TLAPS, FiniteSetTheorems

(* Every task in the pipeline is one the admission script indexed. *)
Provenance ==
  /\ buyers \subseteq owners
  /\ stream \subseteq owners
  /\ pending \subseteq owners
  /\ \A j \in jobs : j.task \in owners
  /\ lateReserve \subseteq owners
  /\ lateOrder \subseteq owners
  /\ reservations \subseteq owners
  /\ orders \subseteq owners

UniqueOrderNo == \A s, t \in owners : s.order = t.order => s = t

(* What a consumer believes about the stage behind it has been committed. *)
Backed(t) == \E r \in reservations : r.user = t.user

StagesCommitted ==
  /\ \A j \in jobs : j.step = "order" => Backed(j.task)
  /\ \A j \in jobs : j.step = "complete" => j.task \in orders
  /\ \A t \in lateOrder : Backed(t)
  /\ \A t \in orders : Backed(t)

(* What the projector and the Outbox know of an order. *)
EventsMatch ==
  /\ \A t \in orders : t.order \in outbox
  /\ \A t \in owners : t.order \in ledger => status[t.order] # "QUEUED"
  /\ \A o \in ledger : \E t \in owners : t.order = o

(* The snapshot and the buyers it remembers, when it is never rebuilt late. *)
SnapshotFaithful ==
  /\ clock = "upcoming" => owners = {}
  /\ ~LatePublish =>
       /\ ready => owners = buyers
       /\ \A s, t \in owners : s.user = t.user => s = t
       /\ ready => stock + Cardinality(owners) <= InitialStock
       /\ "preheat" \in inFlight => snapshot <= InitialStock

IndInv ==
  /\ TypeOK
  /\ Provenance
  /\ UniqueOrderNo
  /\ StagesCommitted
  /\ EventsMatch
  /\ SnapshotFaithful
  /\ StockConserved
  /\ NoTaskLost
  /\ QueuedHasWork
-----------------------------------------------------------------------------
(* Tasks, and the moves of a job. *)

(* There are finitely many tasks, so every table and hash of the sale is      *)
(* finite and has a size.                                                     *)
LEMMA TaskFinite == IsFiniteSet(Task)
<1> DEFINE f == [p \in OrderNos \X Users |-> [order |-> p[1], user |-> p[2]]]
<1>1. IsFiniteSet(OrderNos \X Users)
  BY SaleAssumption, FS_Product
<1>2. f \in [OrderNos \X Users -> Task]
  BY DEF Task
<1>3. \A t \in Task : \E p \in OrderNos \X Users : f[p] = t
  <2> SUFFICES ASSUME NEW t \in Task PROVE \E p \in OrderNos \X Users : f[p] = t
    OBVIOUS
  <2>1. <<t.order, t.user>> \in OrderNos \X Users
    BY DEF Task
  <2>2. f[<<t.order, t.user>>] = t
    BY <2>1 DEF Task
  <2> QED
    BY <2>1, <2>2
<1>4. f \in Surjection(OrderNos \X Users, Task)
  BY <1>2, <1>3 DEF Surjection
<1> QED
  BY <1>1, <1>4, FS_Surjection

(* A job that moves on keeps its worker and its task; the others do not move. *)
LEMMA GotoMoves ==
  ASSUME NEW J \in SUBSET Job, J = jobs, NEW j \in J, NEW s \in Steps
  PROVE  /\ Goto(j, s) \in SUBSET Job
         /\ \A k \in Goto(j, s) : k \in J \/ (k.task = j.task /\ k.step = s)
BY DEF Goto, Job, Steps

-----------------------------------------------------------------------------
(* Type correctness. *)

(* The state before the first preheat has the declared types. *)
LEMMA TypeInit == Init => TypeOK
<1> SUFFICES ASSUME Init PROVE TypeOK
  OBVIOUS
<1>1. GateTypeOK
  BY DEF Init, GateInit, GateTypeOK, Status
<1>2. AdminTypeOK
  BY DEF Init, AdminInit, AdminTypeOK, Phases
<1>3. InventoryTypeOK /\ OrderTypeOK
  BY SaleAssumption DEF Init, InventoryInit, InventoryTypeOK, OrderInit, OrderTypeOK
<1>4. retries \in [OrderNos -> Nat] /\ faults \in 0 .. MaxFaults
  BY OrchestratorAssumption DEF Init
<1> QED
  BY <1>1, <1>2, <1>3, <1>4 DEF Init, TypeOK

(* Every action keeps the types, given only the types before it. *)
LEMMA TypeStep == TypeOK /\ [Next]_vars => TypeOK'
<1> SUFFICES ASSUME TypeOK, [Next]_vars PROVE TypeOK'
  OBVIOUS
<1> USE DEF gateVars, adminVars, inventoryVars, orderVars, queueVars, callVars
<1> USE DEF TypeOK, GateTypeOK, AdminTypeOK, InventoryTypeOK, OrderTypeOK
<1>1. ASSUME NEW u \in Users, NEW o \in OrderNos, NEW now \in Phases, Enqueue(u, o, now)
      PROVE  TypeOK'
  <2>1. stock \in Nat \ {0}
    BY <1>1 DEF Enqueue, ReserveAndEnqueue, Decision
  <2>2. [order |-> o, user |-> u] \in Task
    BY DEF Task
  <2> QED
    BY <1>1, <2>1, <2>2 DEF Enqueue, ReserveAndEnqueue, Status
<1>2. CASE Admin
  BY <1>2 DEF Admin, Tick, BeginPreheat, ListActivityItems, PublishActivity, BeginDisable, FinishDisable,
       BeginEnable, FinishEnable, AdminCallFails, SnapshotExpires, Publish, DropSnapshot, Phases
<1>3. ASSUME NEW w \in Workers, Discover(w) PROVE TypeOK'
  BY <1>3 DEF Discover
<1>4. ASSUME NEW w \in Workers, NEW b \in SUBSET stream, ReadGroup(w, b) PROVE TypeOK'
  BY <1>4 DEF ReadGroup, Fetched, Job, Steps
<1>5. ASSUME NEW w \in Workers, NEW b \in SUBSET pending, AutoClaim(w, b) PROVE TypeOK'
  BY <1>5 DEF AutoClaim, Fetched, Job, Steps
<1>6. ASSUME NEW w \in Workers, Crash(w) PROVE TypeOK'
  BY <1>6, OrchestratorAssumption DEF Crash, Job
<1>7. ASSUME NEW j \in jobs, StartTask(j) PROVE TypeOK'
  BY <1>7, GotoMoves DEF StartTask, Steps
<1>8. ASSUME NEW j \in jobs, ReserveAnswered(j) PROVE TypeOK'
  BY <1>8, GotoMoves DEF ReserveAnswered, Reserve, Commits, Job, Steps
<1>9. ASSUME NEW j \in jobs, ReserveUnknown(j) PROVE TypeOK'
  BY <1>9, GotoMoves DEF ReserveUnknown, Job, Steps
<1>10. ASSUME NEW j \in jobs, OrderAnswered(j) PROVE TypeOK'
  BY <1>10, GotoMoves DEF OrderAnswered, CreateOrder, Job, Task, Steps
<1>11. ASSUME NEW j \in jobs, OrderUnknown(j) PROVE TypeOK'
  BY <1>11, GotoMoves DEF OrderUnknown, Job, Steps
<1>12. ASSUME NEW j \in jobs, Complete(j) PROVE TypeOK'
  BY <1>12 DEF Complete, Job, Task
<1>13. ASSUME NEW j \in jobs, RecordFailure(j) PROVE TypeOK'
  BY <1>13 DEF RecordFailure, Job, Task, Status
<1>14. ASSUME NEW j \in jobs, ScriptFails(j) PROVE TypeOK'
  BY <1>14, OrchestratorAssumption DEF ScriptFails
<1>15. ASSUME NEW t \in lateReserve, LateReserve(t) PROVE TypeOK'
  BY <1>15 DEF LateReserve, Reserve, Commits
<1>16. ASSUME NEW t \in lateOrder, LateOrder(t) PROVE TypeOK'
  BY <1>16 DEF LateOrder, CreateOrder, Task
<1>17. ASSUME NEW o \in outbox, Project(o) PROVE TypeOK'
  BY <1>17 DEF Project, Status
<1>18. CASE UNCHANGED vars
  BY <1>18 DEF vars
<1> QED
  BY <1>1, <1>2, <1>3, <1>4, <1>5, <1>6, <1>7, <1>8, <1>9, <1>10, <1>11, <1>12,
     <1>13, <1>14, <1>15, <1>16, <1>17, <1>18
     DEF Next, Consume, Process, Batches

-----------------------------------------------------------------------------
(* The inductive step, one lemma per part of the invariant. *)

(* Tasks only enter the pipeline through the script and only move inside it. *)
LEMMA ProvenanceStep ==
  ASSUME IndInv, TypeOK', Next
  PROVE  Provenance'
<1> USE DEF gateVars, adminVars, inventoryVars, orderVars, queueVars, callVars
<1> USE DEF IndInv, TypeOK, GateTypeOK, AdminTypeOK, InventoryTypeOK, OrderTypeOK,
            Provenance
<1>1. ASSUME NEW u \in Users, NEW o \in OrderNos, NEW now \in Phases, Enqueue(u, o, now)
      PROVE  Provenance'
  BY <1>1 DEF Enqueue, ReserveAndEnqueue
<1>2. CASE Admin
  BY <1>2 DEF Admin, Tick, BeginPreheat, ListActivityItems, PublishActivity, BeginDisable, FinishDisable,
       BeginEnable, FinishEnable, AdminCallFails, SnapshotExpires, Publish, DropSnapshot
<1>3. ASSUME NEW w \in Workers, NEW b \in SUBSET stream, ReadGroup(w, b)
      PROVE  Provenance'
  BY <1>3 DEF ReadGroup, Fetched
<1>4. ASSUME NEW w \in Workers, NEW b \in SUBSET pending, AutoClaim(w, b)
      PROVE  Provenance'
  BY <1>4 DEF AutoClaim, Fetched
<1>5. ASSUME NEW w \in Workers, Crash(w) PROVE Provenance'
  BY <1>5 DEF Crash
<1>6. ASSUME NEW j \in jobs, StartTask(j) PROVE Provenance'
  BY <1>6, GotoMoves DEF StartTask, Job, Steps
<1>7. ASSUME NEW j \in jobs, ReserveAnswered(j) PROVE Provenance'
  BY <1>7, GotoMoves
     DEF ReserveAnswered, Reserve, ReserveAnswer, Commits, ByOrderNo, ByUserItem,
         Job, Steps
<1>8. ASSUME NEW j \in jobs, ReserveUnknown(j) PROVE Provenance'
  BY <1>8, GotoMoves DEF ReserveUnknown, Job, Steps
<1>9. ASSUME NEW j \in jobs, OrderAnswered(j) PROVE Provenance'
  BY <1>9, GotoMoves DEF OrderAnswered, CreateOrder, CreateAnswer, Taken, Job, Steps
<1>10. ASSUME NEW j \in jobs, OrderUnknown(j) PROVE Provenance'
  BY <1>10, GotoMoves DEF OrderUnknown, Job, Steps
<1>11. ASSUME NEW t \in lateReserve, LateReserve(t) PROVE Provenance'
  BY <1>11 DEF LateReserve, Reserve, Commits, ByOrderNo, ByUserItem
<1>12. ASSUME NEW t \in lateOrder, LateOrder(t) PROVE Provenance'
  BY <1>12 DEF LateOrder, CreateOrder, Taken
<1>13. ASSUME NEW j \in jobs, Complete(j) PROVE Provenance'
  BY <1>13 DEF Complete
<1>14. ASSUME NEW j \in jobs, RecordFailure(j) PROVE Provenance'
  BY <1>14 DEF RecordFailure
<1>15. ASSUME NEW j \in jobs, ScriptFails(j) PROVE Provenance'
  BY <1>15 DEF ScriptFails
<1>16. ASSUME NEW w \in Workers, Discover(w) PROVE Provenance'
  BY <1>16 DEF Discover
<1>17. ASSUME NEW o \in outbox, Project(o) PROVE Provenance'
  BY <1>17 DEF Project
<1> QED
  BY <1>1, <1>2, <1>3, <1>4, <1>5, <1>6, <1>7, <1>8, <1>9, <1>10, <1>11,
     <1>12, <1>13, <1>14, <1>15, <1>16, <1>17 DEF Next, Consume, Process,
     Batches

(* Only the script indexes an order number, and only a fresh one. *)
LEMMA UniqueOrderNoStep ==
  ASSUME IndInv, TypeOK', Next
  PROVE  UniqueOrderNo'
<1> USE DEF gateVars, adminVars, inventoryVars, orderVars, queueVars, callVars
<1> USE DEF IndInv, UniqueOrderNo
<1>1. ASSUME NEW u \in Users, NEW o \in OrderNos, NEW now \in Phases, Enqueue(u, o, now)
      PROVE  UniqueOrderNo'
  BY <1>1 DEF Enqueue, ReserveAndEnqueue, Fresh
<1>2. CASE UNCHANGED owners
  BY <1>2
<1> QED
  BY <1>1, <1>2 DEF Next, Consume, Process, Batches, Admin, Tick,
     BeginPreheat, ListActivityItems, PublishActivity, BeginDisable, FinishDisable, BeginEnable,
     FinishEnable, AdminCallFails, SnapshotExpires, Publish, DropSnapshot,
     Discover, ReadGroup, AutoClaim, Crash, StartTask, ReserveAnswered,
     Reserve, ReserveUnknown, OrderAnswered, CreateOrder, OrderUnknown,
     Complete, RecordFailure, ScriptFails, LateReserve, LateOrder, Project

(* A consumer moves on only after the stage behind it has committed. *)
LEMMA StagesCommittedStep ==
  ASSUME IndInv, TypeOK', Next
  PROVE  StagesCommitted'
<1> USE DEF gateVars, adminVars, inventoryVars, orderVars, queueVars, callVars
<1> USE DEF IndInv, TypeOK, GateTypeOK, AdminTypeOK, InventoryTypeOK, OrderTypeOK,
            StagesCommitted, Backed
<1>1. ASSUME NEW w \in Workers, NEW b \in SUBSET stream, ReadGroup(w, b)
      PROVE  StagesCommitted'
  BY <1>1 DEF ReadGroup, Fetched
<1>2. ASSUME NEW w \in Workers, NEW b \in SUBSET pending, AutoClaim(w, b)
      PROVE  StagesCommitted'
  BY <1>2 DEF AutoClaim, Fetched
<1>3. ASSUME NEW w \in Workers, Crash(w) PROVE StagesCommitted'
  BY <1>3 DEF Crash
<1>4. ASSUME NEW j \in jobs, StartTask(j) PROVE StagesCommitted'
  BY <1>4, GotoMoves DEF StartTask, Job, Steps
<1>5. ASSUME NEW j \in jobs, ReserveAnswered(j) PROVE StagesCommitted'
  BY <1>5, GotoMoves
     DEF ReserveAnswered, Reserve, ReserveAnswer, Commits, ByOrderNo, ByUserItem,
         Job, Steps
<1>6. ASSUME NEW j \in jobs, ReserveUnknown(j) PROVE StagesCommitted'
  BY <1>6, GotoMoves DEF ReserveUnknown, Job, Steps
<1>7. ASSUME NEW j \in jobs, OrderAnswered(j) PROVE StagesCommitted'
  BY <1>7, GotoMoves DEF OrderAnswered, CreateOrder, CreateAnswer, Taken, Job, Steps
<1>8. ASSUME NEW j \in jobs, OrderUnknown(j) PROVE StagesCommitted'
  BY <1>8, GotoMoves DEF OrderUnknown, Job, Steps
<1>9. ASSUME NEW j \in jobs, Complete(j) PROVE StagesCommitted'
  BY <1>9 DEF Complete
<1>10. ASSUME NEW j \in jobs, RecordFailure(j) PROVE StagesCommitted'
  BY <1>10 DEF RecordFailure
<1>11. ASSUME NEW j \in jobs, ScriptFails(j) PROVE StagesCommitted'
  BY <1>11 DEF ScriptFails
<1>12. ASSUME NEW t \in lateReserve, LateReserve(t) PROVE StagesCommitted'
  BY <1>12 DEF LateReserve, Reserve, Commits, ByOrderNo, ByUserItem
<1>13. ASSUME NEW t \in lateOrder, LateOrder(t) PROVE StagesCommitted'
  BY <1>13 DEF LateOrder, CreateOrder, Taken
<1>14. CASE UNCHANGED <<jobs, lateOrder, reservations, orders>>
  BY <1>14
<1> QED
  BY <1>1, <1>2, <1>3, <1>4, <1>5, <1>6, <1>7, <1>8, <1>9, <1>10, <1>11,
     <1>12, <1>13, <1>14 DEF Next, Consume, Process, Batches, Enqueue,
     ReserveAndEnqueue, Admin, Tick, BeginPreheat, ListActivityItems, PublishActivity,
     BeginDisable, FinishDisable, BeginEnable, FinishEnable, AdminCallFails,
     SnapshotExpires, Publish, DropSnapshot, Discover, Project

(* An order and its Outbox row are one commit; a projected result is final or FAILED. *)
LEMMA EventsMatchStep ==
  ASSUME IndInv, TypeOK', Next
  PROVE  EventsMatch'
<1> USE DEF gateVars, adminVars, inventoryVars, orderVars, queueVars, callVars
<1> USE DEF IndInv, TypeOK, GateTypeOK, AdminTypeOK, InventoryTypeOK, OrderTypeOK,
            EventsMatch, Provenance, UniqueOrderNo
<1>1. ASSUME NEW u \in Users, NEW o \in OrderNos, NEW now \in Phases, Enqueue(u, o, now)
      PROVE  EventsMatch'
  BY <1>1 DEF Enqueue, ReserveAndEnqueue, Fresh, Task
<1>2. ASSUME NEW j \in jobs, OrderAnswered(j) PROVE EventsMatch'
  BY <1>2, GotoMoves DEF OrderAnswered, CreateOrder, CreateAnswer, Taken, Job, Task
<1>3. ASSUME NEW t \in lateOrder, LateOrder(t) PROVE EventsMatch'
  BY <1>3 DEF LateOrder, CreateOrder, Taken, Task
<1>4. ASSUME NEW j \in jobs, RecordFailure(j) PROVE EventsMatch'
  BY <1>4 DEF RecordFailure, Job, Task
<1>5. ASSUME NEW o \in outbox, Project(o) PROVE EventsMatch'
  BY <1>5 DEF Project, Task
<1>6. CASE UNCHANGED <<orders, outbox, owners, ledger, status>>
  BY <1>6
<1> QED
  BY <1>1, <1>2, <1>3, <1>4, <1>5, <1>6 DEF Next, Consume, Process, Batches,
     Admin, Tick, BeginPreheat, ListActivityItems, PublishActivity, BeginDisable, FinishDisable,
     BeginEnable, FinishEnable, AdminCallFails, SnapshotExpires, Publish,
     DropSnapshot, Discover, ReadGroup, AutoClaim, Crash, StartTask,
     ReserveAnswered, Reserve, ReserveUnknown, OrderUnknown, Complete,
     ScriptFails, LateReserve

(* An entry leaves the Stream only for an order or for the dead letter Stream. *)
LEMMA NoTaskLostStep ==
  ASSUME IndInv, TypeOK', Next
  PROVE  NoTaskLost'
<1> USE DEF gateVars, adminVars, inventoryVars, orderVars, queueVars, callVars
<1> USE DEF IndInv, TypeOK, GateTypeOK, AdminTypeOK, InventoryTypeOK, OrderTypeOK,
            NoTaskLost, StagesCommitted, Provenance, UniqueOrderNo
<1>1. ASSUME NEW u \in Users, NEW o \in OrderNos, NEW now \in Phases, Enqueue(u, o, now)
      PROVE  NoTaskLost'
  BY <1>1 DEF Enqueue, ReserveAndEnqueue
<1>2. ASSUME NEW j \in jobs, OrderAnswered(j) PROVE NoTaskLost'
  BY <1>2, GotoMoves DEF OrderAnswered, CreateOrder, CreateAnswer, Taken
<1>3. ASSUME NEW t \in lateOrder, LateOrder(t) PROVE NoTaskLost'
  BY <1>3 DEF LateOrder, CreateOrder, Taken
<1>4. ASSUME NEW j \in jobs, Complete(j) PROVE NoTaskLost'
  BY <1>4 DEF Complete
<1>5. ASSUME NEW j \in jobs, RecordFailure(j) PROVE NoTaskLost'
  BY <1>5 DEF RecordFailure
<1>6. CASE UNCHANGED <<owners, stream, orders, dlq>>
  BY <1>6
<1> QED
  BY <1>1, <1>2, <1>3, <1>4, <1>5, <1>6 DEF Next, Consume, Process, Batches,
     Admin, Tick, BeginPreheat, ListActivityItems, PublishActivity, BeginDisable, FinishDisable,
     BeginEnable, FinishEnable, AdminCallFails, SnapshotExpires, Publish,
     DropSnapshot, Discover, ReadGroup, AutoClaim, Crash, StartTask,
     ReserveAnswered, Reserve, ReserveUnknown, OrderUnknown, ScriptFails,
     LateReserve, Project

(* Whoever takes the last work item of a QUEUED result also changes the result. *)
LEMMA QueuedHasWorkStep ==
  ASSUME IndInv, TypeOK', Next
  PROVE  QueuedHasWork'
<1> USE DEF gateVars, adminVars, inventoryVars, orderVars, queueVars, callVars
<1> USE DEF IndInv, TypeOK, GateTypeOK, AdminTypeOK, InventoryTypeOK, OrderTypeOK,
            QueuedHasWork, EventsMatch, StagesCommitted, Provenance, UniqueOrderNo
<1>1. ASSUME NEW u \in Users, NEW o \in OrderNos, NEW now \in Phases, Enqueue(u, o, now)
      PROVE  QueuedHasWork'
  BY <1>1 DEF Enqueue, ReserveAndEnqueue, Fresh, Task
<1>2. ASSUME NEW j \in jobs, OrderAnswered(j) PROVE QueuedHasWork'
  BY <1>2, GotoMoves DEF OrderAnswered, CreateOrder, CreateAnswer, Taken
<1>3. ASSUME NEW t \in lateOrder, LateOrder(t) PROVE QueuedHasWork'
  BY <1>3 DEF LateOrder, CreateOrder, Taken
<1>4. ASSUME NEW j \in jobs, Complete(j) PROVE QueuedHasWork'
  BY <1>4 DEF Complete, Job
<1>5. ASSUME NEW j \in jobs, RecordFailure(j) PROVE QueuedHasWork'
  BY <1>5 DEF RecordFailure, Job, Task
<1>6. ASSUME NEW o \in outbox, Project(o) PROVE QueuedHasWork'
  BY <1>6 DEF Project, Task
<1>7. CASE UNCHANGED <<owners, status, stream, outbox, ledger>>
  BY <1>7
<1> QED
  BY <1>1, <1>2, <1>3, <1>4, <1>5, <1>6, <1>7 DEF Next, Consume, Process,
     Batches, Admin, Tick, BeginPreheat, ListActivityItems, PublishActivity, BeginDisable,
     FinishDisable, BeginEnable, FinishEnable, AdminCallFails,
     SnapshotExpires, Publish, DropSnapshot, Discover, ReadGroup, AutoClaim,
     Crash, StartTask, ReserveAnswered, Reserve, ReserveUnknown, OrderUnknown,
     ScriptFails, LateReserve

(* One call of ReserveSeckillStock takes a unit exactly when it adds a row. *)
LEMMA ReserveConserves ==
  ASSUME InventoryTypeOK, StockConserved, NEW t, Reserve(t)
  PROVE  StockConserved'
<1>1. CASE Commits(t)
  <2>1. t \notin reservations /\ dbStock > 0
    BY <1>1 DEF Commits, ByOrderNo
  <2>2. IsFiniteSet(reservations) /\ Cardinality(reservations) \in Nat
    BY TaskFinite, FS_Subset, FS_CardinalityType DEF InventoryTypeOK
  <2>3. Cardinality(reservations \cup {t}) = Cardinality(reservations) + 1
    BY <2>1, <2>2, FS_AddElement
  <2>4. reservations' = reservations \cup {t} /\ dbStock' = dbStock - 1
    BY <1>1 DEF Reserve
  <2>5. Cardinality(reservations') = Cardinality(reservations) + 1
    BY <2>3, <2>4
  <2>6. dbStock + Cardinality(reservations) = InitialStock /\ dbStock \in Nat
    BY DEF StockConserved, InventoryTypeOK
  <2> HIDE DEF StockConserved, InventoryTypeOK
  <2>7. dbStock' + Cardinality(reservations') = InitialStock
    BY <2>2, <2>4, <2>5, <2>6
  <2> QED
    BY <2>7 DEF StockConserved
<1>2. CASE ~Commits(t)
  BY <1>2 DEF Reserve, inventoryVars, StockConserved
<1> QED
  BY <1>1, <1>2

(* A unit leaves the item row exactly when a new reservation row is committed. *)
LEMMA StockConservedStep ==
  ASSUME IndInv, TypeOK', Next
  PROVE  StockConserved'
<1> USE DEF gateVars, adminVars, inventoryVars, orderVars, queueVars, callVars
<1> USE DEF IndInv, StockConserved, TypeOK, InventoryTypeOK
<1>1. ASSUME NEW j \in jobs, ReserveAnswered(j) PROVE StockConserved'
  BY <1>1, ReserveConserves DEF ReserveAnswered
<1>2. ASSUME NEW t \in lateReserve, LateReserve(t) PROVE StockConserved'
  BY <1>2, ReserveConserves DEF LateReserve
<1>3. CASE UNCHANGED <<dbStock, reservations>>
  BY <1>3
<1> QED
  BY <1>1, <1>2, <1>3 DEF Next, Consume, Process, Batches, Enqueue,
     ReserveAndEnqueue, Admin, Tick, BeginPreheat, ListActivityItems, PublishActivity,
     BeginDisable, FinishDisable, BeginEnable, FinishEnable, AdminCallFails,
     SnapshotExpires, Publish, DropSnapshot, Discover, ReadGroup, AutoClaim,
     Crash, StartTask, ReserveUnknown, OrderAnswered, CreateOrder,
     OrderUnknown, Complete, RecordFailure, ScriptFails, LateOrder, Project

(* The snapshot and the buyers it remembers stay in step with what was admitted. *)
LEMMA SnapshotFaithfulStep ==
  ASSUME IndInv, TypeOK', Next
  PROVE  SnapshotFaithful'
<1> USE DEF gateVars, adminVars, inventoryVars, orderVars, queueVars, callVars
<1> USE DEF IndInv, TypeOK, GateTypeOK, AdminTypeOK, InventoryTypeOK, SnapshotFaithful
<1>1. ASSUME NEW u \in Users, NEW o \in OrderNos, NEW now \in Phases, Enqueue(u, o, now)
      PROVE  SnapshotFaithful'
  <2> DEFINE task == [order |-> o, user |-> u]
  <2>1. ready /\ stock > 0 /\ now = "open" /\ \A b \in buyers : b.user # u
    BY <1>1 DEF Enqueue, ReserveAndEnqueue, Decision
  <2>2. clock # "upcoming"
    BY <1>1, <2>1 DEF Enqueue, Reached
  <2>3. task \notin owners
    BY <1>1 DEF Enqueue, Fresh
  <2>4. IsFiniteSet(owners) /\ Cardinality(owners) \in Nat
    BY TaskFinite, FS_Subset, FS_CardinalityType
  <2>5. Cardinality(owners \cup {task}) = Cardinality(owners) + 1
    BY <2>3, <2>4, FS_AddElement
  <2>6. /\ owners' = owners \cup {task} /\ buyers' = buyers \cup {task}
        /\ ready' = ready /\ stock' = stock - 1
        /\ UNCHANGED <<clock, inFlight, snapshot>>
    BY <1>1 DEF Enqueue, ReserveAndEnqueue
  <2>7. ~LatePublish => stock' + Cardinality(owners') <= InitialStock
    BY <2>1, <2>4, <2>5, <2>6, SaleAssumption
  <2>8. ~LatePublish => \A s, t \in owners' : s.user = t.user => s = t
    BY <2>1, <2>6
  <2> QED
    BY <2>1, <2>2, <2>6, <2>7, <2>8
<1>2. CASE Admin
  <2>1. CASE Tick
    BY <1>2, <2>1 DEF Admin, Tick
  <2>2. CASE BeginPreheat(ListActivityItems)
    <3>1. Cardinality(reservations) \in Nat
      BY TaskFinite, FS_Subset, FS_CardinalityType
    <3>2. dbStock <= InitialStock
      BY <3>1, SaleAssumption DEF StockConserved
    <3> QED
      BY <1>2, <2>2, <3>2 DEF Admin, BeginPreheat, ListActivityItems
  <2>3. CASE PublishActivity
    <3>1. /\ "preheat" \in inFlight /\ (LatePublish \/ clock = "upcoming")
          /\ ready' = TRUE /\ stock' = snapshot /\ buyers' = {}
          /\ inFlight' = inFlight \ {"preheat"} /\ UNCHANGED <<clock, owners, snapshot>>
      BY <2>3 DEF PublishActivity, Publish
    <3>2. ~LatePublish => owners = {} /\ Cardinality(owners) = 0
      BY <3>1, FS_EmptySet
    <3>3. ~LatePublish => owners' = {} /\ Cardinality(owners') = 0
      BY <3>1, <3>2
    <3>4. ~LatePublish => stock' + Cardinality(owners') <= InitialStock
      BY <3>1, <3>3, SaleAssumption
    <3> QED
      BY <3>1, <3>3, <3>4
  <2>4. CASE BeginDisable \/ FinishDisable \/ BeginEnable \/ FinishEnable
    BY <1>2, <2>4
       DEF Admin, BeginDisable, FinishDisable, BeginEnable, FinishEnable,
           DropSnapshot
  <2>5. CASE (\E call \in inFlight : AdminCallFails(call)) \/ SnapshotExpires
    BY <1>2, <2>5 DEF Admin, AdminCallFails, SnapshotExpires, DropSnapshot
  <2> QED
    BY <1>2, <2>1, <2>2, <2>3, <2>4, <2>5 DEF Admin
<1>3. CASE UNCHANGED <<clock, owners, ready, buyers, stock, inFlight, snapshot>>
  BY <1>3
<1> QED
  BY <1>1, <1>2, <1>3 DEF Next, Consume, Process, Batches, Discover,
     ReadGroup, AutoClaim, Crash, StartTask, ReserveAnswered, Reserve,
     ReserveUnknown, OrderAnswered, CreateOrder, OrderUnknown, Complete,
     RecordFailure, ScriptFails, LateReserve, LateOrder, Project

-----------------------------------------------------------------------------
(* The invariant, and what follows from it. *)

(* The invariant holds before anybody is admitted. *)
LEMMA IndInvInit == Init => IndInv
<1> SUFFICES ASSUME Init PROVE IndInv
  OBVIOUS
<1>1. TypeOK
  BY TypeInit
<1>2. Provenance /\ UniqueOrderNo /\ StagesCommitted /\ EventsMatch
  BY DEF Init, GateInit, InventoryInit, OrderInit, Provenance, UniqueOrderNo,
         StagesCommitted, EventsMatch
<1>3. SnapshotFaithful
  BY DEF Init, GateInit, AdminInit, SnapshotFaithful
<1>4. StockConserved
  BY FS_EmptySet, SaleAssumption DEF Init, InventoryInit, StockConserved
<1>5. NoTaskLost /\ QueuedHasWork
  BY DEF Init, GateInit, NoTaskLost, QueuedHasWork
<1> QED
  BY <1>1, <1>2, <1>3, <1>4, <1>5 DEF IndInv

(* Every action of every process keeps the invariant. *)
LEMMA IndInvStep == IndInv /\ [Next]_vars => IndInv'
<1>1. ASSUME IndInv, Next PROVE IndInv'
  <2>1. TypeOK'
    BY <1>1, TypeStep DEF IndInv
  <2> QED
    BY <1>1, <2>1, ProvenanceStep, UniqueOrderNoStep, StagesCommittedStep,
            EventsMatchStep,
       SnapshotFaithfulStep, StockConservedStep, NoTaskLostStep, QueuedHasWorkStep
       DEF IndInv
<1>2. ASSUME IndInv, UNCHANGED vars PROVE IndInv'
  BY <1>2 DEF vars, gateVars, adminVars, inventoryVars, orderVars, queueVars, callVars,
       IndInv, TypeOK, GateTypeOK, AdminTypeOK, InventoryTypeOK, OrderTypeOK, Provenance,
       UniqueOrderNo, StagesCommitted, Backed, EventsMatch, SnapshotFaithful, StockConserved,
       NoTaskLost, QueuedHasWork
<1> QED
  BY <1>1, <1>2

(* The inductive invariant holds throughout: the fact every theorem below     *)
(* about the sale's pipeline is read off from.                                *)
THEOREM SaleInvariant == Spec => []IndInv
BY IndInvInit, IndInvStep, PTL DEF Spec

(* Every variable of the composed sale keeps its type: in particular neither  *)
(* the Redis stock of the script nor available_stock in MySQL goes below zero.*)
THEOREM TypeCorrect == Spec => []TypeOK
<1>1. IndInv => TypeOK
  BY DEF IndInv
<1> QED
  BY <1>1, SaleInvariant, PTL

(* ReserveSeckillStock neither makes nor loses units of stock, whatever is    *)
(* retried, duplicated, rolled back or executed late.                         *)
THEOREM StockIsConserved == Spec => []StockConserved
<1>1. IndInv => StockConserved
  BY DEF IndInv
<1> QED
  BY <1>1, SaleInvariant, PTL

(* No crash, duplicate delivery, dropped script error or administrative call  *)
(* makes a task that the script accepted vanish without order or dead letter. *)
THEOREM AcceptedTasksAreKept == Spec => []NoTaskLost
<1>1. IndInv => NoTaskLost
  BY DEF IndInv
<1> QED
  BY <1>1, SaleInvariant, PTL

(* A result that the user can still read as QUEUED has an entry or an event   *)
(* under way that will change it.                                             *)
THEOREM QueuedResultsMove == Spec => []QueuedHasWork
<1>1. IndInv => QueuedHasWork
  BY DEF IndInv
<1> QED
  BY <1>1, SaleInvariant, PTL

(* An order stands on a reservation of its user, so the users with orders     *)
(* never outnumber the units, even when a snapshot is rebuilt during the sale.*)
THEOREM BuyersNeverExceedStock == Spec => []BuyersWithinStock
<1>1. ASSUME IndInv PROVE BuyersWithinStock
  <2> DEFINE holders == {r.user : r \in reservations}
  <2> DEFINE buyer == [r \in reservations |-> r.user]
  <2>1. IsFiniteSet(reservations) /\ Cardinality(reservations) \in Nat
    BY <1>1, TaskFinite, FS_Subset, FS_CardinalityType
       DEF IndInv, TypeOK, InventoryTypeOK
  <2>2. buyer \in Surjection(reservations, holders)
    BY DEF Surjection
  <2>3. IsFiniteSet(holders) /\ Cardinality(holders) <= Cardinality(reservations)
    BY <2>1, <2>2, FS_Surjection
  <2>4. {t.user : t \in orders} \subseteq holders
    BY <1>1 DEF IndInv, StagesCommitted, Backed
  <2>5. /\ Cardinality({t.user : t \in orders}) <= Cardinality(holders)
        /\ Cardinality({t.user : t \in orders}) \in Nat
        /\ Cardinality(holders) \in Nat
    BY <2>3, <2>4, FS_Subset, FS_CardinalityType
  <2>6. Cardinality(reservations) <= InitialStock
    BY <1>1, <2>1, SaleAssumption
       DEF IndInv, StockConserved, TypeOK, InventoryTypeOK
  <2> QED
    BY <2>1, <2>3, <2>5, <2>6, SaleAssumption DEF BuyersWithinStock
<1> QED
  BY <1>1, SaleInvariant, PTL

-----------------------------------------------------------------------------
(* What the sale guarantees when no snapshot is rebuilt after the start. *)

(* Then the order number of an order is the one its user's unit was reserved  *)
(* under: there is no other order number the user was ever admitted with.     *)
LEMMA OwnTicket ==
  ASSUME IndInv, ~LatePublish, NEW t \in owners, Backed(t)
  PROVE  t \in reservations
<1> PICK r \in reservations : r.user = t.user
  BY DEF Backed
<1>1. r \in owners
  BY DEF IndInv, Provenance
<1> QED
  BY <1>1 DEF IndInv, SnapshotFaithful

(* One purchase per user: if no preheat reaches Redis after the start, no     *)
(* user ever has two orders, although order-rpc only knows order numbers.     *)
THEOREM OneOrderEach == Spec => [](~LatePublish => OneOrderPerUser)
<1>1. ASSUME IndInv PROVE ~LatePublish => OneOrderPerUser
  BY <1>1 DEF IndInv, SnapshotFaithful, Provenance, OneOrderPerUser
<1> QED
  BY <1>1, SaleInvariant, PTL

(* No oversell end to end: if no preheat reaches Redis after the start,       *)
(* orders never outnumber the stock, although order-rpc does not know it.     *)
THEOREM NoOversell == Spec => [](~LatePublish => OrdersWithinStock)
<1>1. ASSUME IndInv PROVE ~LatePublish => OrdersWithinStock
  <2> SUFFICES ASSUME ~LatePublish PROVE OrdersWithinStock
    OBVIOUS
  <2>1. orders \subseteq reservations
    BY <1>1, OwnTicket DEF IndInv, Provenance, StagesCommitted
  <2>2. IsFiniteSet(reservations) /\ Cardinality(reservations) \in Nat
    BY <1>1, TaskFinite, FS_Subset, FS_CardinalityType
       DEF IndInv, TypeOK, InventoryTypeOK
  <2>3. Cardinality(orders) <= Cardinality(reservations) /\ Cardinality(orders) \in Nat
    BY <2>1, <2>2, FS_Subset, FS_CardinalityType
  <2> QED
    BY <1>1, <2>2, <2>3, SaleAssumption
       DEF IndInv, StockConserved, TypeOK, InventoryTypeOK, OrdersWithinStock
<1> QED
  BY <1>1, SaleInvariant, PTL

(* No reverse drift: if no preheat reaches Redis after the start, the         *)
(* snapshot never admits more users than MySQL has units left.                *)
THEOREM NoDrift == Spec => [](~LatePublish => NoReverseDrift)
<1>1. ASSUME IndInv PROVE ~LatePublish => NoReverseDrift
  <2> SUFFICES ASSUME ~LatePublish, ready PROVE stock <= dbStock
    BY DEF NoReverseDrift
  <2>1. IsFiniteSet(owners) /\ Cardinality(owners) \in Nat
    BY <1>1, TaskFinite, FS_Subset, FS_CardinalityType DEF IndInv, TypeOK, GateTypeOK
  <2>2. Cardinality(reservations) <= Cardinality(owners) /\ Cardinality(reservations) \in Nat
    BY <1>1, <2>1, FS_Subset, FS_CardinalityType DEF IndInv, Provenance
  <2>3. stock + Cardinality(owners) <= InitialStock
    BY <1>1 DEF IndInv, SnapshotFaithful
  <2> QED
    BY <1>1, <2>1, <2>2, <2>3, SaleAssumption
       DEF IndInv, StockConserved, TypeOK, GateTypeOK, InventoryTypeOK
<1> QED
  BY <1>1, SaleInvariant, PTL

-----------------------------------------------------------------------------
(* The contract. *)

(* The contract counts tickets with the same operator. *)
LEMMA SameCount == Contract!Cardinality(reservations) = Cardinality(reservations)
BY DEF Contract!Cardinality, Cardinality

(* A call of ReserveSeckillStock, answered or late, grants one ticket or none.*)
LEMMA ReserveGrants ==
  ASSUME IndInv, NEW t \in Task, Reserve(t), UNCHANGED orders
  PROVE  Contract!Grant(t) \/ UNCHANGED <<reservations, orders>>
<1>1. CASE Commits(t)
  <2>1. \A x \in reservations : x.user # t.user /\ x.order # t.order
    BY <1>1 DEF Commits, ByOrderNo, ByUserItem
  <2>2. Cardinality(reservations) \in Nat
    BY TaskFinite, FS_Subset, FS_CardinalityType DEF IndInv, TypeOK, InventoryTypeOK
  <2>3. Cardinality(reservations) < InitialStock
    BY <1>1, <2>2, SaleAssumption
       DEF Commits, IndInv, StockConserved, TypeOK, InventoryTypeOK
  <2>4. reservations' = reservations \cup {t}
    BY <1>1 DEF Reserve
  <2> QED
    BY <2>1, <2>3, <2>4, SameCount DEF Contract!Grant
<1>2. CASE ~Commits(t)
  BY <1>2 DEF Reserve, inventoryVars
<1> QED
  BY <1>1, <1>2

(* A call of CreateIdempotent, answered or late, sells a ticket its user owns.*)
LEMMA CreateSells ==
  ASSUME IndInv, ~LatePublish, NEW t \in owners, Backed(t), CreateOrder(t),
         UNCHANGED reservations
  PROVE  Contract!Sell(t) \/ UNCHANGED <<reservations, orders>>
<1>1. t \in reservations
  BY OwnTicket
<1>2. CASE Taken(t)
  BY <1>2 DEF CreateOrder, orderVars
<1>3. CASE ~Taken(t)
  BY <1>1, <1>3 DEF CreateOrder, Taken, Contract!Sell
<1> QED
  BY <1>2, <1>3

(* Every step of the sale is a step of the contract or leaves it alone. *)
LEMMA ContractStep ==
  ASSUME IndInv, ~LatePublish, [Next]_vars
  PROVE  [Contract!Next]_<<reservations, orders>>
<1> USE DEF gateVars, adminVars, inventoryVars, orderVars, queueVars, callVars
<1>1. ASSUME NEW j \in jobs, ReserveAnswered(j) PROVE [Contract!Next]_<<reservations, orders>>
  BY <1>1, ReserveGrants
     DEF ReserveAnswered, Contract!Next, Contract!Task, Task, IndInv, TypeOK, Job
<1>2. ASSUME NEW t \in lateReserve, LateReserve(t) PROVE [Contract!Next]_<<reservations, orders>>
  BY <1>2, ReserveGrants
     DEF LateReserve, Contract!Next, Contract!Task, Task, IndInv, TypeOK
<1>3. ASSUME NEW j \in jobs, OrderAnswered(j) PROVE [Contract!Next]_<<reservations, orders>>
  <2>1. j.task \in owners /\ j.task \in Task /\ Backed(j.task)
    BY <1>3 DEF OrderAnswered, IndInv, Provenance, StagesCommitted, TypeOK, Job
  <2> QED
    BY <1>3, <2>1, CreateSells DEF OrderAnswered, Contract!Next, Contract!Task, Task
<1>4. ASSUME NEW t \in lateOrder, LateOrder(t) PROVE [Contract!Next]_<<reservations, orders>>
  <2>1. t \in owners /\ t \in Task /\ Backed(t)
    BY DEF IndInv, Provenance, StagesCommitted, TypeOK
  <2> QED
    BY <1>4, <2>1, CreateSells DEF LateOrder, Contract!Next, Contract!Task, Task
<1>5. CASE UNCHANGED <<reservations, orders>>
  BY <1>5
<1> QED
  BY <1>1, <1>2, <1>3, <1>4, <1>5
     DEF Next, vars, Consume, Process, Enqueue, Admin, Discover, ReadGroup, AutoClaim, Crash,
         StartTask, ReserveUnknown, OrderUnknown, Complete, RecordFailure, ScriptFails, Project

(* If no preheat reaches Redis after the start, the sale implements its       *)
(* contract: a unit per ticket, a user and an order number per ticket, and    *)
(* every order sold against its own ticket.                                   *)
THEOREM KeepsContract == ASSUME ~LatePublish PROVE Spec => ImplementsContract
<1>1. Init => Contract!Init
  BY DEF Init, InventoryInit, OrderInit, Contract!Init
<1>2. IndInv /\ [Next]_vars => [Contract!Next]_<<reservations, orders>>
  BY ContractStep
<1> QED
  BY <1>1, <1>2, SaleInvariant, PTL DEF Spec, ImplementsContract, Contract!Spec

=============================================================================
