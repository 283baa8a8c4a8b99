--------------------------- MODULE PurchaseProofs ---------------------------
(***************************************************************************)
(* The purchase for any number of users, order numbers, clients and units, *)
(* every stock mode and every way in. What the tables and the gate promise *)
(* each other is not inductive: it rests on what a transaction knows while *)
(* it holds the row lock, on how far the version it has read may be behind,*)
(* on whose order numbers are under way, and on nothing being admitted     *)
(* before the activity begins. PurchaseInv says each of them.              *)
(***************************************************************************)
EXTENDS Purchase, FiniteSetTheorems, TLAPS

(* Everything that carries an order number, and its user. *)
TaskOf(call) == [order |-> call.order, user |-> call.user]
Active == {c \in Clients : calls[c].step # "idle"}
Held == claims \cup buyers \cup owners \cup {TaskOf(calls[c]) : c \in Active}

(* The steps of a call that is past its admission and has no answer yet. *)
Inside == {"find", "load", "update", "insert", "winner", "backoff"}

(* The item row says how many claims there are, twice. *)
LedgerInv ==
  /\ available \in Nat
  /\ available + Cardinality(claims) = InitialStock
  /\ version = Cardinality(claims)

(* An order number has one user wherever it is. *)
NumberInv ==
  /\ \A k, l \in Held : k.order = l.order => k.user = l.user
  /\ stream \subseteq owners

(* Nothing is sold before the activity begins. *)
TimeInv ==
  clock = "upcoming" =>
    /\ claims = {} /\ buyers = {} /\ stream = {}
    /\ "preheat" \in inFlight => snapshot = InitialStock

(* The gate has one unit less for everybody it has let in, and knows them. *)
GateInv ==
  /\ ~ready => buyers = {}
  /\ entry = "direct" => ~ready
  /\ \A a, b \in buyers : a.user = b.user => a = b
  /\ ready /\ ~LatePublish =>
       /\ stock + Cardinality(buyers) = InitialStock
       /\ claims \subseteq buyers /\ stream \subseteq buyers

(* What a transaction knows while it holds the lock. *)
LockKnows(c, call) ==
  /\ call.step = "insert" => lock = {c} /\ available > 0
  /\ mode = "pessimistic" /\ call.step \in {"update", "insert"} =>
       lock = {c} /\ enabled /\ onSale
  /\ mode = "pessimistic" /\ call.step = "update" => call.stock = available

(* Each attempt of an optimistic purchase was overtaken by a sale. *)
Overtaken(call) ==
  mode = "optimistic" =>
    /\ call.step \in {"admit", "find"} => call.attempt = 0
    /\ call.step = "load" => call.attempt <= version
    /\ call.step = "update" =>
         /\ call.attempt <= call.version
         /\ call.version <= version
         /\ call.stock = InitialStock - call.version
    /\ call.step = "backoff" => call.attempt + 1 <= version

(* A duplicate key has a winner, and the answers say what has happened. *)
Truthful(call) ==
  /\ call.step = "winner" => Existing(call) # {}
  /\ call.answer # "orphan"
  /\ call.answer = "busy" => Cardinality(claims) >= MaxAttempts

(* A call that found the activity open did so after it began. *)
InTime(call) ==
  /\ call.step # "idle" /\ call.now = "open" => clock # "upcoming"
  /\ call.step \in {"update", "insert"} => call.now = "open"
  /\ clock = "upcoming" /\ entry # "direct" => call.step \notin Inside

(* The gate knows who is inside, unless its snapshot was dropped. *)
KnownToGate(call) ==
  ready /\ ~LatePublish /\ call.step \in Inside => TaskOf(call) \in buyers

CallOK(c, call) ==
  /\ LockKnows(c, call)
  /\ Overtaken(call)
  /\ Truthful(call)
  /\ InTime(call)
  /\ KnownToGate(call)

PurchaseInv ==
  /\ TypeOK
  /\ LedgerInv
  /\ NumberInv
  /\ TimeInv
  /\ GateInv
  /\ OneClaimPerUser
  /\ \A c \in Clients : CallOK(c, calls[c])

-----------------------------------------------------------------------------
(* Facts about the state and its operators. *)

(* The tables and hashes are finite. *)
LEMMA TaskFinite == IsFiniteSet(Task)
<1> DEFINE P == OrderNos \X Users
           f == [p \in P |-> [order |-> p[1], user |-> p[2]]]
<1>1. IsFiniteSet(P)
  BY SaleAssumption, FS_Product
<1>2. f \in Surjection(P, Task)
  <2>1. f \in [P -> Task]
    BY DEF Task
  <2>2. ASSUME NEW t \in Task PROVE \E p \in P : f[p] = t
    <3>1. t = [order |-> t.order, user |-> t.user] /\ <<t.order, t.user>> \in P
      BY DEF Task
    <3>2. f[<<t.order, t.user>>] = t
      BY <3>1
    <3> QED
      BY <3>1, <3>2
  <2> QED
    BY <2>1, <2>2 DEF Surjection
<1> QED
  BY <1>1, <1>2, FS_Surjection

(* Adding a task to a set of tasks. *)
LEMMA AddTask ==
  ASSUME NEW S \in SUBSET Task, NEW t \in Task
  PROVE  /\ Cardinality(S) \in Nat
         /\ Cardinality(S \cup {t}) \in Nat
         /\ t \notin S => Cardinality(S \cup {t}) = Cardinality(S) + 1
<1>1. IsFiniteSet(S)
  BY TaskFinite, FS_Subset
<1> QED
  BY <1>1, FS_AddElement, FS_CardinalityType

(* A call that has begun has all its local variables. *)
LEMMA CallType ==
  ASSUME TypeOK, NEW c \in Clients
  PROVE  /\ calls[c].step # "idle" => calls[c] \in Call
         /\ calls[c].step = "idle" => calls[c] = NoCall
<1>1. calls[c] \in Call \/ calls[c] = NoCall
  BY DEF TypeOK
<1>2. calls[c] \in Call => calls[c].step \in Steps
  BY DEF Call
<1> QED
  BY <1>1, <1>2 DEF Steps, NoCall

(* A call begins with a clean set of local variables. *)
LEMMA NewCallType ==
  ASSUME NEW u \in Users, NEW o \in OrderNos, NEW now \in Phases, NEW step \in Steps
  PROVE  NewCall(u, o, now, step) \in Call
<1>1. "none" \in Answers /\ 0 \in Int /\ 0 \in Nat
  BY DEF Answers
<1> QED
  BY <1>1 DEF NewCall, Call

(* The next state of a call that goes on to another step ... *)
LEMMA GoEffect ==
  ASSUME TypeOK, NEW c \in Clients, calls[c].step # "idle", NEW step \in Steps, Go(c, step)
  PROVE  \E r \in Call :
           /\ calls' = [calls EXCEPT ![c] = r]
           /\ r.step = step /\ r.user = calls[c].user /\ r.order = calls[c].order
           /\ r.now = calls[c].now /\ r.stock = calls[c].stock /\ r.version = calls[c].version
           /\ r.attempt = calls[c].attempt /\ r.answer = calls[c].answer
<1>1. calls[c] \in Call
  BY CallType
<1> DEFINE r == [calls[c] EXCEPT !.step = step]
<1>2. r \in Call
  BY <1>1 DEF Call
<1>3. calls' = [calls EXCEPT ![c] = r]
  BY DEF Go
<1>4. /\ r.step = step /\ r.user = calls[c].user /\ r.order = calls[c].order
      /\ r.now = calls[c].now /\ r.stock = calls[c].stock /\ r.version = calls[c].version
      /\ r.attempt = calls[c].attempt /\ r.answer = calls[c].answer
  BY <1>1 DEF Call
<1> QED
  BY <1>2, <1>3, <1>4

(* ... and of one that is answered. *)
LEMMA AnswerEffect ==
  ASSUME TypeOK, NEW c \in Clients, calls[c].step # "idle", NEW answer \in Answers,
         Answer(c, answer)
  PROVE  \E r \in Call :
           /\ calls' = [calls EXCEPT ![c] = r]
           /\ r.step = "done" /\ r.user = calls[c].user /\ r.order = calls[c].order
           /\ r.now = "upcoming" /\ r.answer = answer
<1>1. calls[c] \in Call
  BY CallType
<1> DEFINE r == [NewCall(calls[c].user, calls[c].order, "upcoming", "done")
                   EXCEPT !.answer = answer]
<1>2. r \in Call
  <2>1. NewCall(calls[c].user, calls[c].order, "upcoming", "done") \in Call
    BY <1>1, NewCallType DEF Call, Steps, Phases
  <2> QED
    BY <2>1 DEF Call
<1>3. calls' = [calls EXCEPT ![c] = r]
  BY DEF Answer
<1>4. /\ r.step = "done" /\ r.user = calls[c].user /\ r.order = calls[c].order
      /\ r.now = "upcoming" /\ r.answer = answer
  BY DEF NewCall
<1> QED
  BY <1>2, <1>3, <1>4

(* The admission script reserves only for a new buyer, in time and in stock. *)
LEMMA DecisionReserved ==
  ASSUME NEW u \in Users, NEW now \in Phases
  PROVE  /\ Decision(u, now) \in {"not_ready", "replayed", "unavailable", "sold_out", "reserved"}
         /\ Decision(u, now) = "reserved" =>
              ready /\ now = "open" /\ stock # 0 /\ \A b \in buyers : b.user # u
         /\ ~ready => Decision(u, now) = "not_ready"
<1>1. CASE ~ready
  BY <1>1 DEF Decision
<1>2. CASE ready /\ \E b \in buyers : b.user = u
  BY <1>2 DEF Decision
<1>3. CASE ready /\ (\A b \in buyers : b.user # u) /\ now # "open"
  BY <1>3 DEF Decision
<1>4. CASE ready /\ (\A b \in buyers : b.user # u) /\ now = "open" /\ stock = 0
  BY <1>4 DEF Decision
<1>5. CASE ready /\ (\A b \in buyers : b.user # u) /\ now = "open" /\ stock # 0
  BY <1>5 DEF Decision
<1> QED
  BY <1>1, <1>2, <1>3, <1>4, <1>5

-----------------------------------------------------------------------------
(* The invariant. *)

(* The item has its stock, nobody has asked yet. *)
LEMMA PurchaseInit == Init => PurchaseInv
<1> SUFFICES ASSUME Init PROVE PurchaseInv
  OBVIOUS
<1> USE DEF Init, GateInit, AdminInit
<1>1. Cardinality({}) = 0
  BY FS_EmptySet
<1>2. TypeOK
  <2>1. GateTypeOK /\ AdminTypeOK
    BY DEF GateTypeOK, AdminTypeOK, Status, Phases
  <2>2. available \in Int /\ version \in Nat
    BY SaleAssumption
  <2>3. calls \in [Clients -> Call \cup {NoCall}]
    OBVIOUS
  <2> QED
    BY <2>1, <2>2, <2>3 DEF TypeOK
<1>3. LedgerInv
  BY <1>1, SaleAssumption DEF LedgerInv
<1>4. Active = {} /\ Held = {}
  BY DEF Active, Held, NoCall
<1>5. NumberInv /\ TimeInv /\ GateInv /\ OneClaimPerUser
  BY <1>4 DEF NumberInv, TimeInv, GateInv, OneClaimPerUser
<1>6. \A c \in Clients : CallOK(c, calls[c])
  BY DEF CallOK, LockKnows, Overtaken, Truthful, InTime, KnownToGate, NoCall, Inside
<1> QED
  BY <1>2, <1>3, <1>5, <1>6 DEF PurchaseInv

(* A call moves on and leaves the tables and the gate as they are, but for    *)
(* the Stream entry it may acknowledge.                                       *)
LEMMA CallMoves ==
  ASSUME PurchaseInv, NEW c \in Clients, NEW r \in Call \cup {NoCall},
         calls' = [calls EXCEPT ![c] = r],
         UNCHANGED <<ready, stock, buyers, owners, adminVars, configVars, tableVars>>,
         stream' \subseteq stream, status' \in [OrderNos -> Status],
         lock' \in SUBSET Clients, \A d \in Clients \ {c} : lock = {d} => lock' = {d},
         r.step # "idle" => \A k \in Held : k.order = r.order => k.user = r.user,
         CallOK(c, r)'
  PROVE  PurchaseInv'
<1> USE DEF adminVars, configVars, tableVars
<1>0. TypeOK /\ LedgerInv /\ NumberInv /\ TimeInv /\ GateInv /\ OneClaimPerUser
  BY DEF PurchaseInv
<1>1. calls' \in [Clients -> Call \cup {NoCall}]
  BY <1>0 DEF TypeOK
<1>2. calls'[c] = r /\ \A d \in Clients \ {c} : calls'[d] = calls[d]
  BY <1>0 DEF TypeOK
<1>3. TypeOK'
  BY <1>0, <1>1 DEF TypeOK, GateTypeOK, AdminTypeOK
<1>4. LedgerInv' /\ TimeInv' /\ GateInv' /\ OneClaimPerUser'
  BY <1>0 DEF LedgerInv, TimeInv, GateInv, OneClaimPerUser
<1>5. NumberInv'
  <2>1. \A k \in Held' : k \in Held \/ (r.step # "idle" /\ k = TaskOf(r))
    BY <1>2 DEF Held, Active
  <2>2. TaskOf(r).order = r.order /\ TaskOf(r).user = r.user
    BY DEF TaskOf
  <2> QED
    BY <1>0, <2>1, <2>2 DEF NumberInv
<1>6. ASSUME NEW d \in Clients PROVE CallOK(d, calls[d])'
  <2>1. CASE d = c
    BY <1>2, <2>1 DEF CallOK, LockKnows, Overtaken, Truthful, InTime, KnownToGate, Existing,
                      TaskOf
  <2>2. CASE d # c
    <3>1. CallOK(d, calls[d]) /\ calls'[d] = calls[d]
      BY <1>2, <2>2 DEF PurchaseInv
    <3>2. lock = {d} => lock' = {d}
      BY <2>2
    <3> QED
      BY <3>1, <3>2 DEF CallOK, LockKnows, Overtaken, Truthful, InTime, KnownToGate, Existing,
                        TaskOf
  <2> QED
    BY <2>1, <2>2
<1> QED
  BY <1>3, <1>4, <1>5, <1>6 DEF PurchaseInv

(* The order number of a call is one of those that are held. *)
LEMMA OwnNumber ==
  ASSUME PurchaseInv, NEW c \in Clients, calls[c].step # "idle"
  PROVE  /\ calls[c].order \in OrderNos /\ calls[c].user \in Users
         /\ TaskOf(calls[c]) \in Task /\ TaskOf(calls[c]) \in Held
         /\ \A k \in Held : k.order = calls[c].order => k.user = calls[c].user
<1>1. calls[c] \in Call
  BY CallType DEF PurchaseInv
<1>2. TaskOf(calls[c]) \in Held
  BY DEF Held, Active
<1> QED
  BY <1>1, <1>2 DEF PurchaseInv, NumberInv, TaskOf, Task, Call

(* A call is answered or given up: it holds nothing more. *)
LEMMA CallAnswers ==
  ASSUME PurchaseInv, NEW c \in Clients, calls[c].step # "idle", NEW answer \in Answers,
         Answer(c, answer), answer # "orphan",
         answer = "busy" => Cardinality(claims) >= MaxAttempts,
         UNCHANGED <<gateVars, adminVars, configVars, tableVars>>,
         lock' \in SUBSET Clients, \A d \in Clients \ {c} : lock = {d} => lock' = {d}
  PROVE  PurchaseInv'
<1>0. TypeOK
  BY DEF PurchaseInv
<1>1. PICK r \in Call :
        /\ calls' = [calls EXCEPT ![c] = r]
        /\ r.step = "done" /\ r.user = calls[c].user /\ r.order = calls[c].order
        /\ r.now = "upcoming" /\ r.answer = answer
  BY <1>0, AnswerEffect
<1>2. CallOK(c, r)'
  BY <1>1
  DEF CallOK, LockKnows, Overtaken, Truthful, InTime, KnownToGate, Inside, tableVars
<1>3. \A k \in Held : k.order = r.order => k.user = r.user
  BY <1>1, OwnNumber
<1>4. stream' \subseteq stream /\ status' \in [OrderNos -> Status]
  BY <1>0 DEF gateVars, TypeOK, GateTypeOK
<1> QED
  BY <1>1, <1>2, <1>3, <1>4, CallMoves DEF gateVars

(* Service.Purchase begins with a number of its own. *)
LEMMA BeginStep ==
  ASSUME PurchaseInv, NEW c \in Clients, NEW u \in Users, NEW o \in OrderNos, Begin(c, u, o)
  PROVE  PurchaseInv'
<1>0. TypeOK
  BY DEF PurchaseInv
<1> DEFINE r == NewCall(u, o, clock, IF entry = "gated" THEN "admit" ELSE "find")
<1>1. PICK q \in Call : q = r
  <2>1. clock \in Phases /\ (IF entry = "gated" THEN "admit" ELSE "find") \in Steps
    BY <1>0 DEF TypeOK, AdminTypeOK, Steps
  <2> QED
    BY <2>1, NewCallType
<1>2. /\ calls' = [calls EXCEPT ![c] = q]
      /\ q.step \in {"admit", "find"} /\ q.user = u /\ q.order = o /\ q.now = clock
      /\ q.attempt = 0 /\ q.answer = "none"
      /\ q.step = "find" => entry # "gated"
  BY <1>1 DEF Begin, NewCall
<1>3. entry = "direct" \/ q.step = "admit"
  BY <1>0, <1>2, PurchaseAssumption DEF Begin, TypeOK
<1>4. \A k \in Held : k.order # o
  BY DEF Begin, Fresh, Held, Active, TaskOf
<1>5. CallOK(c, q)'
  BY <1>2, <1>3
  DEF Begin, PurchaseInv, GateInv, CallOK, LockKnows, Overtaken, Truthful, InTime, KnownToGate,
      Inside, gateVars, adminVars, configVars, tableVars
<1>6. stream' \subseteq stream /\ status' \in [OrderNos -> Status]
  BY <1>0 DEF Begin, gateVars, TypeOK, GateTypeOK
<1>7. lock' \in SUBSET Clients
  BY <1>0 DEF Begin, TypeOK
<1> QED
  BY <1>2, <1>4, <1>5, <1>6, <1>7, CallMoves DEF Begin, gateVars

(* A consumer begins with a task of the Stream, which the gate has let in. *)
LEMMA ProcessStep ==
  ASSUME PurchaseInv, NEW c \in Clients, NEW t \in stream, ProcessStreamTask(c, t)
  PROVE  PurchaseInv'
<1>0. TypeOK /\ t \in Task
  BY DEF PurchaseInv, TypeOK, GateTypeOK
<1>1. PICK q \in Call : q = NewCall(t.user, t.order, "open", "find")
  <2>1. t.user \in Users /\ t.order \in OrderNos /\ "open" \in Phases /\ "find" \in Steps
    BY <1>0 DEF Task, Phases, Steps
  <2> QED
    BY <2>1, NewCallType
<1>2. /\ calls' = [calls EXCEPT ![c] = q]
      /\ q.step = "find" /\ q.user = t.user /\ q.order = t.order /\ q.now = "open"
      /\ q.attempt = 0 /\ q.answer = "none"
  BY <1>1 DEF ProcessStreamTask, NewCall
<1>3. TaskOf(q) = t
  BY <1>0, <1>2 DEF TaskOf, Task
<1>4. t \in Held /\ \A k \in Held : k.order = q.order => k.user = q.user
  BY <1>2 DEF PurchaseInv, NumberInv, Held
<1>5. clock # "upcoming" /\ (ready /\ ~LatePublish => t \in buyers)
  BY DEF PurchaseInv, TimeInv, GateInv
<1>6. CallOK(c, q)'
  <2>1. KnownToGate(q)' /\ InTime(q)'
    BY <1>2, <1>3, <1>5
    DEF ProcessStreamTask, KnownToGate, InTime, TaskOf, gateVars, adminVars
  <2> QED
    BY <1>2, <2>1 DEF CallOK, LockKnows, Overtaken, Truthful
<1>7. stream' \subseteq stream /\ status' \in [OrderNos -> Status]
  BY <1>0 DEF ProcessStreamTask, gateVars, TypeOK, GateTypeOK
<1>8. lock' \in SUBSET Clients
  BY <1>0 DEF ProcessStreamTask, TypeOK
<1> QED
  BY <1>2, <1>4, <1>6, <1>7, <1>8, CallMoves DEF ProcessStreamTask, gateVars

(* The buyer is new to the gate: one unit less, one buyer more. *)
LEMMA ReserveEffect ==
  ASSUME PurchaseInv, NEW t \in Task, ready, clock # "upcoming", stock # 0,
         \A b \in buyers : b.user # t.user,
         \A k \in Held : k.order = t.order => k.user = t.user,
         stock' = stock - 1, buyers' = buyers \cup {t},
         UNCHANGED <<ready, adminVars, configVars, tableVars>>,
         owners' \in {owners, owners \cup {t}},
         stream' \in SUBSET (stream \cup (owners' \cap {t})),
         \A k \in Held' : k \in Held \/ k = t
  PROVE  NumberInv' /\ TimeInv' /\ GateInv' /\ stock' \in Nat
<1> USE DEF adminVars, configVars, tableVars
<1>0. TypeOK /\ NumberInv /\ TimeInv /\ GateInv
  BY DEF PurchaseInv
<1>1. NumberInv'
  BY <1>0 DEF NumberInv
<1>2. TimeInv'
  BY DEF TimeInv
<1>3. buyers \in SUBSET Task /\ stock \in Nat
  BY <1>0 DEF TypeOK, GateTypeOK
<1>4. Cardinality(buyers') = Cardinality(buyers) + 1 /\ Cardinality(buyers) \in Nat
  BY <1>3, AddTask
<1>5. GateInv'
  BY <1>0, <1>3, <1>4 DEF GateInv
<1> QED
  BY <1>1, <1>2, <1>3, <1>5

(* What the gate answers to a call that waits for its admission. *)
LEMMA GateDecisionReserved ==
  ASSUME NEW u \in Users, NEW now \in Phases
  PROVE  /\ GateDecision(u, now) \in
              {"not_ready", "replayed", "unavailable", "sold_out", "reserved"}
         /\ GateDecision(u, now) = "reserved" =>
              ready /\ now = "open" /\ stock # 0 /\ \A b \in buyers : b.user # u
         /\ GateDecision(u, now) = "replayed" => ready /\ now = "open"
BY DecisionReserved DEF GateDecision

(* Gate.Reserve, its reply read or lost. *)
LEMMA AdmitStep ==
  ASSUME PurchaseInv, NEW c \in Clients, Admit(c)
  PROVE  PurchaseInv'
<1> USE DEF adminVars, configVars, tableVars
<1>0. TypeOK /\ calls[c].step = "admit" /\ calls[c] \in Call
  BY CallType DEF Admit, PurchaseInv
<1> DEFINE u == calls[c].user
           decision == GateDecision(calls[c].user, calls[c].now)
           task == TaskOf(calls[c])
<1>1. calls[c].user \in Users /\ calls[c].now \in Phases
  BY <1>0 DEF Call
<1>2. /\ decision \in {"not_ready", "replayed", "unavailable", "sold_out", "reserved"}
      /\ decision = "reserved" =>
           ready /\ calls[c].now = "open" /\ stock # 0 /\ \A b \in buyers : b.user # u
      /\ decision = "replayed" => ready /\ calls[c].now = "open"
  BY <1>1, GateDecisionReserved
<1>3. /\ GateReserve(c, decision)
      /\ UNCHANGED <<ready, owners, status, stream, adminVars, configVars, tableVars, lock>>
  BY DEF Admit
<1>4. CallOK(c, calls[c])
  BY DEF PurchaseInv
<1>5. calls[c].now = "open" => clock # "upcoming"
  BY <1>0, <1>4 DEF CallOK, InTime
<1> HIDE DEF decision
<1>6. lock' \in SUBSET Clients
  BY <1>0, <1>3 DEF TypeOK
<1>7. ASSUME decision # "reserved", NEW answer \in Answers \ {"orphan", "busy"},
             Answer(c, answer)
      PROVE  PurchaseInv'
  <2>1. UNCHANGED gateVars
    BY <1>3, <1>7 DEF GateReserve, gateVars
  <2> QED
    BY <1>0, <1>3, <1>6, <1>7, <2>1, CallAnswers
<1>8. CASE decision \in {"not_ready", "unavailable", "sold_out"}
  <2>1. Answer(c, decision) /\ decision \in Answers \ {"orphan", "busy"}
    BY <1>3, <1>8 DEF GateReserve, ParseReservation, Answers
  <2>2. PICK answer \in Answers \ {"orphan", "busy"} : answer = decision
    BY <2>1
  <2> QED
    BY <1>7, <1>8, <2>1, <2>2
<1>9. CASE decision = "replayed"
  <2>1. CASE Answer(c, "temporary")
    BY <1>7, <1>9, <2>1 DEF Answers
  <2>2. ASSUME NEW b \in buyers, b.user = u,
               calls' = [calls EXCEPT ![c].step = "find", ![c].order = b.order,
                                      ![c].replayed = TRUE]
        PROVE  PurchaseInv'
    <3>1. b \in Task /\ b \in Held
      BY <1>0 DEF TypeOK, GateTypeOK, Held
    <3>2. PICK r \in Call : r = [calls[c] EXCEPT !.step = "find", !.order = b.order, !.replayed = TRUE]
      BY <1>0, <3>1 DEF Call, Task, Steps
    <3>3. /\ calls' = [calls EXCEPT ![c] = r] /\ TaskOf(r) = b
          /\ r.step = "find" /\ r.user = b.user /\ r.order = b.order
          /\ r.now = calls[c].now /\ r.attempt = calls[c].attempt /\ r.answer = calls[c].answer
      <4>1. /\ r.step = "find" /\ r.user = b.user /\ r.order = b.order
            /\ r.now = calls[c].now /\ r.attempt = calls[c].attempt
            /\ r.answer = calls[c].answer
        BY <1>0, <2>2, <3>2 DEF Call
      <4>2. calls' = [calls EXCEPT ![c] = r]
        BY <1>0, <2>2, <3>2 DEF TypeOK
      <4> QED
        BY <3>1, <4>1, <4>2 DEF TaskOf, Task
    <3>4. \A k \in Held : k.order = r.order => k.user = r.user
      BY <3>1, <3>3 DEF PurchaseInv, NumberInv
    <3>5. UNCHANGED <<ready, stock, buyers, owners, status, stream>>
      BY <1>3, <1>9 DEF GateReserve
    <3>6. CallOK(c, r)'
      <4>1. KnownToGate(r)' /\ InTime(r)'
        BY <1>2, <1>3, <1>5, <1>9, <3>3, <3>5 DEF KnownToGate, InTime, TaskOf
      <4>2. LockKnows(c, r)' /\ Overtaken(r)' /\ Truthful(r)'
        BY <1>0, <1>3, <1>4, <3>3 DEF CallOK, LockKnows, Overtaken, Truthful
      <4> QED
        BY <4>1, <4>2 DEF CallOK
    <3>7. status' \in [OrderNos -> Status]
      BY <1>0, <3>5 DEF TypeOK, GateTypeOK
    <3> QED
      BY <1>3, <1>6, <3>3, <3>4, <3>5, <3>6, <3>7, CallMoves
  <2> QED
    BY <1>3, <1>9, <2>1, <2>2 DEF GateReserve, ParseReservation
<1>10. CASE decision = "reserved"
  <2>1. PICK t \in Task : t = task
    BY <1>0, OwnNumber
  <2>2. t.order = calls[c].order /\ t.user = u
    BY <2>1 DEF TaskOf
  <2>3. stock' = stock - 1 /\ buyers' = buyers \cup {t}
    BY <1>3, <1>10, <2>1 DEF GateReserve, TaskOf
  <2>4. PICK r \in Call :
          /\ calls' = [calls EXCEPT ![c] = r]
          /\ r.user = calls[c].user /\ r.order = calls[c].order
          /\ \/ r.step = "done" /\ r.now = "upcoming" /\ r.answer = "temporary"
             \/ /\ r.step = "find" /\ r.now = calls[c].now
                /\ r.attempt = calls[c].attempt /\ r.answer = calls[c].answer
    <3>1. Go(c, "find") \/ Answer(c, "temporary")
      BY <1>3, <1>10 DEF GateReserve, ParseReservation
    <3>2. "find" \in Steps /\ "temporary" \in Answers
      BY DEF Steps, Answers
    <3> QED
      BY <1>0, <3>1, <3>2, GoEffect, AnswerEffect
  <2>5. TaskOf(r) = t
    BY <2>1, <2>4 DEF TaskOf
  <2>6. calls'[c] = r /\ \A d \in Clients \ {c} : calls'[d] = calls[d]
    BY <1>0, <2>4 DEF TypeOK
  <2>7. \A k \in Held' : k \in Held \/ k = t
    BY <1>3, <2>3, <2>5, <2>6 DEF Held, Active
  <2>8. NumberInv' /\ TimeInv' /\ GateInv' /\ stock' \in Nat
    <3>1. \A k \in Held : k.order = t.order => k.user = t.user
      BY <1>0, <2>2, OwnNumber
    <3>2. /\ \A b \in buyers : b.user # t.user
          /\ ready /\ stock # 0 /\ clock # "upcoming"
      BY <1>2, <1>5, <1>10, <2>2
    <3>3. owners' \in {owners, owners \cup {t}} /\ stream' \in SUBSET (stream \cup (owners' \cap {t}))
      BY <1>3
    <3> QED
      BY <1>3, <2>3, <2>7, <3>1, <3>2, <3>3, ReserveEffect
  <2>9. TypeOK'
    <3>1. calls' \in [Clients -> Call \cup {NoCall}]
      BY <1>0, <2>4 DEF TypeOK
    <3>2. buyers' \in SUBSET Task
      BY <1>0, <2>3 DEF TypeOK, GateTypeOK
    <3> QED
      BY <1>0, <1>3, <2>8, <3>1, <3>2 DEF TypeOK, GateTypeOK, AdminTypeOK
  <2>10. LedgerInv' /\ OneClaimPerUser'
    BY <1>3 DEF PurchaseInv, LedgerInv, OneClaimPerUser
  <2>11. ASSUME NEW d \in Clients PROVE CallOK(d, calls[d])'
    <3>1. CASE d = c
      <4>1. calls'[d] = r /\ t \in buyers'
        BY <2>3, <2>6, <3>1
      <4>2. KnownToGate(calls[d])' /\ InTime(calls[d])'
        BY <1>2, <1>3, <1>5, <1>10, <2>4, <2>5, <4>1 DEF KnownToGate, InTime, Inside
      <4>3. LockKnows(d, calls[d])' /\ Overtaken(calls[d])' /\ Truthful(calls[d])'
        BY <1>0, <1>3, <1>4, <2>4, <4>1 DEF CallOK, LockKnows, Overtaken, Truthful
      <4> QED
        BY <4>2, <4>3 DEF CallOK
    <3>2. CASE d # c
      <4>1. CallOK(d, calls[d]) /\ calls'[d] = calls[d]
        BY <2>6, <3>2 DEF PurchaseInv
      <4> QED
        BY <1>3, <2>3, <4>1
        DEF CallOK, LockKnows, Overtaken, Truthful, InTime, KnownToGate, Existing, TaskOf
    <3> QED
      BY <3>1, <3>2
  <2> QED
    BY <2>8, <2>9, <2>10, <2>11 DEF PurchaseInv
<1> QED
  BY <1>2, <1>8, <1>9, <1>10

(* enqueueStream lets a new buyer in. *)
LEMMA EnqueueStep ==
  ASSUME PurchaseInv, NEW u \in Users, NEW o \in OrderNos, EnqueueStream(u, o)
  PROVE  PurchaseInv'
<1> USE DEF adminVars, configVars, tableVars
<1>0. TypeOK /\ UNCHANGED <<adminVars, configVars, tableVars, lock, calls>>
  BY DEF PurchaseInv, EnqueueStream
<1>1. PICK t \in Task : t = [order |-> o, user |-> u]
  BY DEF Task
<1>2. PICK now \in Phases : Reached(now) /\ ReserveAndEnqueue(u, o, now)
  BY DEF EnqueueStream
<1>3. ready /\ now = "open" /\ stock # 0 /\ \A b \in buyers : b.user # u
  BY <1>2, DecisionReserved DEF ReserveAndEnqueue
<1>4. clock # "upcoming"
  BY <1>2, <1>3 DEF Reached
<1>5. /\ stock' = stock - 1 /\ buyers' = buyers \cup {t} /\ owners' = owners \cup {t}
      /\ stream' = stream \cup {t} /\ UNCHANGED ready
      /\ status' = [status EXCEPT ![o] = "QUEUED"]
  BY <1>1, <1>2 DEF ReserveAndEnqueue
<1>6. \A k \in Held : k.order # o
  BY DEF EnqueueStream, Fresh, Held, Active, TaskOf
<1>7. \A k \in Held' : k \in Held \/ k = t
  BY <1>0, <1>5 DEF Held, Active
<1>8. NumberInv' /\ TimeInv' /\ GateInv' /\ stock' \in Nat
  <2>1. /\ \A k \in Held : k.order = t.order => k.user = t.user
        /\ \A b \in buyers : b.user # t.user
    BY <1>1, <1>3, <1>6
  <2>2. /\ owners' \in {owners, owners \cup {t}}
        /\ stream' \in SUBSET (stream \cup (owners' \cap {t}))
    BY <1>5
  <2> QED
    BY <1>0, <1>3, <1>4, <1>5, <1>7, <2>1, <2>2, ReserveEffect
<1>9. TypeOK'
  <2>1. status' \in [OrderNos -> Status]
    BY <1>0, <1>5 DEF TypeOK, GateTypeOK, Status
  <2>2. buyers' \in SUBSET Task /\ owners' \in SUBSET Task /\ stream' \in SUBSET Task
    BY <1>0, <1>5 DEF TypeOK, GateTypeOK
  <2> QED
    BY <1>0, <1>5, <1>8, <2>1, <2>2 DEF TypeOK, GateTypeOK, AdminTypeOK
<1>10. LedgerInv' /\ OneClaimPerUser'
  BY <1>0 DEF PurchaseInv, LedgerInv, OneClaimPerUser
<1>11. \A d \in Clients : CallOK(d, calls[d])'
  BY <1>0, <1>5
  DEF PurchaseInv, CallOK, LockKnows, Overtaken, Truthful, InTime, KnownToGate, Existing, TaskOf
<1> QED
  BY <1>8, <1>9, <1>10, <1>11 DEF PurchaseInv

(* A call goes on inside the repository, with other local variables. *)
LEMMA InsideMoves ==
  ASSUME PurchaseInv, NEW c \in Clients, calls[c].step \in Inside, NEW r \in Call,
         calls' = [calls EXCEPT ![c] = r],
         r.user = calls[c].user, r.order = calls[c].order, r.now = calls[c].now,
         r.answer = calls[c].answer,
         UNCHANGED <<gateVars, adminVars, configVars, tableVars>>,
         lock' \in SUBSET Clients, \A d \in Clients \ {c} : lock = {d} => lock' = {d},
         r.step \in Inside,
         r.step \in {"update", "insert"} => r.now = "open",
         r.step = "winner" => Existing(r) # {},
         LockKnows(c, r)', Overtaken(r)'
  PROVE  PurchaseInv'
<1>0. TypeOK /\ CallOK(c, calls[c]) /\ calls[c].step # "idle"
  BY DEF PurchaseInv, Inside
<1>1. \A k \in Held : k.order = r.order => k.user = r.user
  BY <1>0, OwnNumber
<1>2. Truthful(r)'
  BY <1>0 DEF CallOK, Truthful, tableVars, Existing
<1>3. InTime(r)' /\ KnownToGate(r)'
  BY <1>0 DEF CallOK, InTime, KnownToGate, adminVars, configVars, gateVars, TaskOf
<1>4. CallOK(c, r)'
  BY <1>2, <1>3 DEF CallOK
<1>5. stream' \subseteq stream /\ status' \in [OrderNos -> Status]
  BY <1>0 DEF gateVars, TypeOK, GateTypeOK
<1> QED
  BY <1>1, <1>4, <1>5, CallMoves DEF gateVars

(* findExistingPurchase, before and after the transaction. *)
LEMMA FindStep ==
  ASSUME PurchaseInv, NEW c \in Clients, Find(c) \/ ReadWinner(c)
  PROVE  PurchaseInv'
<1>0. /\ TypeOK /\ CallOK(c, calls[c]) /\ calls[c].step \in {"find", "winner"}
      /\ calls[c].step # "idle" /\ calls[c].step \in Inside
      /\ UNCHANGED <<gateVars, adminVars, configVars, tableVars, lock>>
  BY DEF PurchaseInv, Find, ReadWinner, Inside
<1>1. lock' \in SUBSET Clients
  BY <1>0 DEF TypeOK
<1>2. CASE Answer(c, "replayed")
  BY <1>0, <1>1, <1>2, CallAnswers DEF Answers
<1>3. CASE calls[c].step = "find" /\ Go(c, "load")
  <2>1. "load" \in Steps
    BY DEF Steps
  <2>2. PICK r \in Call :
           /\ calls' = [calls EXCEPT ![c] = r]
           /\ r.step = "load" /\ r.user = calls[c].user /\ r.order = calls[c].order
           /\ r.now = calls[c].now /\ r.stock = calls[c].stock /\ r.version = calls[c].version
           /\ r.attempt = calls[c].attempt /\ r.answer = calls[c].answer
    BY <1>0, <1>3, <2>1, GoEffect
  <2>3. LockKnows(c, r)' /\ Overtaken(r)'
    BY <1>0, <1>3, <2>2
    DEF CallOK, LockKnows, Overtaken, configVars, tableVars, TypeOK
  <2> QED
    BY <1>0, <1>1, <2>2, <2>3, InsideMoves DEF Inside
<1> QED
  BY <1>0, <1>2, <1>3 DEF Find, ReadWinner, CallOK, Truthful

(* loadPurchaseSnapshot. *)
LEMMA LoadStep ==
  ASSUME PurchaseInv, NEW c \in Clients, Load(c)
  PROVE  PurchaseInv'
<1>0. /\ TypeOK /\ CallOK(c, calls[c]) /\ calls[c].step = "load" /\ calls[c] \in Call
      /\ UNCHANGED <<gateVars, adminVars, configVars, tableVars>>
      /\ calls[c].step \in Inside /\ calls[c].step # "idle"
  BY CallType DEF PurchaseInv, Load, Inside
<1>1. CASE ~Sellable(calls[c])
  <2>1. Answer(c, "unavailable") /\ UNCHANGED lock
    BY <1>1 DEF Load
  <2> QED
    BY <1>0, <2>1, CallAnswers DEF Answers, TypeOK
<1>2. CASE Sellable(calls[c])
  <2>1. PICK r \in Call :
          /\ r.step = "update" /\ r.user = calls[c].user /\ r.order = calls[c].order
          /\ r.now = calls[c].now /\ r.answer = calls[c].answer
          /\ r.attempt = calls[c].attempt /\ r.stock = available /\ r.version = version
          /\ calls' = [calls EXCEPT ![c] = r]
    <3>1. PICK r \in Call :
            r = [calls[c] EXCEPT !.step = "update", !.stock = available, !.version = version]
      BY <1>0 DEF Call, Steps, TypeOK
    <3>2. calls' = [calls EXCEPT ![c] = r]
      BY <1>0, <1>2, <3>1 DEF Load, TypeOK
    <3> QED
      BY <1>0, <3>1, <3>2 DEF Call
  <2>2. /\ calls[c].now = "open" /\ enabled /\ onSale
        /\ mode = "pessimistic" => lock = {} /\ lock' = {c}
        /\ mode # "pessimistic" => lock' = lock
    BY <1>2 DEF Load, Sellable
  <2>3. lock' \in SUBSET Clients /\ \A d \in Clients \ {c} : lock = {d} => lock' = {d}
    BY <1>0, <2>2 DEF TypeOK
  <2>4. LockKnows(c, r)'
    BY <1>0, <2>1, <2>2 DEF LockKnows, adminVars, configVars, tableVars
  <2>5. Overtaken(r)'
    <3>1. calls[c].attempt \in Nat /\ available \in Nat /\ version \in Nat
      BY <1>0 DEF Call, PurchaseInv, LedgerInv, TypeOK
    <3>2. available = InitialStock - version
      BY <3>1, SaleAssumption DEF PurchaseInv, LedgerInv
    <3> QED
      BY <1>0, <2>1, <3>1, <3>2 DEF CallOK, Overtaken, configVars, tableVars
  <2> QED
    BY <1>0, <2>1, <2>2, <2>3, <2>4, <2>5, InsideMoves DEF Inside
<1> QED
  BY <1>1, <1>2

(* decrementStock: an optimistic attempt that misses was overtaken. *)
LEMMA DecrementStep ==
  ASSUME PurchaseInv, NEW c \in Clients, DecrementStock(c)
  PROVE  PurchaseInv'
<1>0. /\ TypeOK /\ CallOK(c, calls[c]) /\ calls[c].step = "update" /\ calls[c] \in Call
      /\ UNCHANGED <<gateVars, adminVars, configVars, tableVars>>
      /\ lock \subseteq {c} /\ lock' \in {{}, {c}}
      /\ calls[c].step \in Inside /\ calls[c].step # "idle"
  BY CallType DEF PurchaseInv, DecrementStock, Inside
<1>1. lock' \in SUBSET Clients /\ \A d \in Clients \ {c} : lock = {d} => lock' = {d}
  BY <1>0
<1>2. /\ available \in Nat /\ version = Cardinality(claims) /\ version \in Nat
      /\ available = InitialStock - version
  BY SaleAssumption DEF PurchaseInv, LedgerInv, TypeOK
<1>3. calls[c].attempt \in Nat /\ calls[c].version \in Nat /\ calls[c].stock \in Int
  BY <1>0 DEF Call
<1>4. CASE ~Empty(calls[c]) /\ Matches(calls[c]) /\ Go(c, "insert") /\ lock' = {c}
  <2>1. available > 0
    BY <1>0, <1>2, <1>3, <1>4 DEF Empty, Matches, CallOK, LockKnows
  <2>2. "insert" \in Steps
    BY DEF Steps
  <2>3. PICK r \in Call :
           /\ calls' = [calls EXCEPT ![c] = r]
           /\ r.step = "insert" /\ r.user = calls[c].user /\ r.order = calls[c].order
           /\ r.now = calls[c].now /\ r.answer = calls[c].answer
    BY <1>0, <1>4, <2>2, GoEffect
  <2>4. LockKnows(c, r)' /\ Overtaken(r)'
    BY <1>0, <1>4, <2>1, <2>3
    DEF CallOK, LockKnows, Overtaken, adminVars, configVars, tableVars
  <2>5. r.now = "open"
    BY <1>0, <2>3 DEF CallOK, InTime
  <2> QED
    BY <1>0, <1>1, <2>3, <2>4, <2>5, InsideMoves DEF Inside
<1>5. CASE ~Empty(calls[c]) /\ ~Matches(calls[c]) /\ mode = "optimistic"
  <2>1. calls[c].attempt + 1 <= version
    <3>1. /\ calls[c].attempt <= calls[c].version /\ calls[c].version <= version
          /\ calls[c].stock = InitialStock - calls[c].version
      BY <1>0, <1>5 DEF CallOK, Overtaken
    <3>2. calls[c].stock > 0
      BY <1>3, <1>5 DEF Empty
    <3>3. version # calls[c].version
      BY <1>2, <1>5, <3>1, <3>2 DEF Matches
    <3> QED
      BY <1>2, <1>3, <3>1, <3>3
  <2>2. CASE calls[c].attempt + 1 = MaxAttempts /\ Answer(c, "busy")
    <3>1. Cardinality(claims) >= MaxAttempts
      BY <1>2, <2>1, <2>2
    <3> QED
      BY <1>0, <1>1, <2>2, <3>1, CallAnswers DEF Answers
  <2>3. CASE Go(c, "backoff")
    <3>1. "backoff" \in Steps
      BY DEF Steps
    <3>2. PICK r \in Call :
           /\ calls' = [calls EXCEPT ![c] = r]
           /\ r.step = "backoff" /\ r.user = calls[c].user /\ r.order = calls[c].order
           /\ r.now = calls[c].now /\ r.attempt = calls[c].attempt
           /\ r.answer = calls[c].answer
      BY <1>0, <2>3, <3>1, GoEffect
    <3>3. LockKnows(c, r)' /\ Overtaken(r)'
      BY <1>0, <2>1, <3>2 DEF LockKnows, Overtaken, tableVars
    <3> QED
      BY <1>0, <1>1, <3>2, <3>3, InsideMoves DEF Inside
  <2> QED
    BY <1>5, <2>2, <2>3 DEF DecrementStock, Empty, Matches
<1>6. CASE Answer(c, "sold_out")
  BY <1>0, <1>1, <1>6, CallAnswers DEF Answers
<1> QED
  BY <1>4, <1>5, <1>6 DEF DecrementStock

(* waitOptimisticRetry is over. *)
LEMMA RetryStep ==
  ASSUME PurchaseInv, NEW c \in Clients, Retry(c)
  PROVE  PurchaseInv'
<1>0. /\ TypeOK /\ CallOK(c, calls[c]) /\ calls[c].step = "backoff" /\ calls[c] \in Call
      /\ UNCHANGED <<gateVars, adminVars, configVars, tableVars, lock>>
      /\ calls[c].step \in Inside
  BY CallType DEF PurchaseInv, Retry, Inside
<1>1. PICK r \in Call :
        r = [calls[c] EXCEPT !.step = "load", !.attempt = calls[c].attempt + 1]
  <2>1. calls[c].attempt + 1 \in Nat /\ "load" \in Steps
    BY <1>0 DEF Call, Steps
  <2> QED
    BY <1>0, <2>1 DEF Call
<1>2. calls' = [calls EXCEPT ![c] = r]
  BY <1>0, <1>1 DEF Retry, TypeOK
<1>3. /\ r.step = "load" /\ r.user = calls[c].user /\ r.order = calls[c].order
      /\ r.now = calls[c].now /\ r.answer = calls[c].answer
      /\ r.attempt = calls[c].attempt + 1
  BY <1>0, <1>1 DEF Call
<1>4. LockKnows(c, r)' /\ Overtaken(r)'
  BY <1>0, <1>3 DEF CallOK, LockKnows, Overtaken, configVars, tableVars
<1> QED
  BY <1>0, <1>2, <1>3, <1>4, InsideMoves DEF Inside, TypeOK

(* The INSERTs run into the order of another transaction. *)
LEMMA DuplicateStep ==
  ASSUME PurchaseInv, NEW c \in Clients, Insert(c), Duplicate(calls[c])
  PROVE  PurchaseInv'
<1>0. /\ TypeOK /\ CallOK(c, calls[c]) /\ calls[c].step = "insert"
      /\ UNCHANGED <<gateVars, adminVars, configVars, tableVars>>
      /\ Go(c, "winner") /\ lock' = {}
      /\ calls[c].step \in Inside /\ calls[c].step # "idle" /\ "winner" \in Steps
  BY DEF PurchaseInv, Insert, Inside, Steps
<1>1. PICK r \in Call :
        /\ calls' = [calls EXCEPT ![c] = r]
        /\ r.step = "winner" /\ r.user = calls[c].user /\ r.order = calls[c].order
        /\ r.now = calls[c].now /\ r.answer = calls[c].answer
  BY <1>0, GoEffect
<1>2. Existing(r) # {}
  <2>1. PICK k \in claims : k.order = calls[c].order \/ k.user = calls[c].user
    BY DEF Duplicate
  <2>2. k.user = calls[c].user
    BY <1>0, <2>1, OwnNumber DEF Held
  <2> QED
    BY <1>1, <2>2 DEF Existing
<1>3. LockKnows(c, r)' /\ Overtaken(r)'
  BY <1>1 DEF LockKnows, Overtaken
<1>4. \A d \in Clients \ {c} : lock # {d}
  BY <1>0 DEF CallOK, LockKnows
<1> QED
  BY <1>0, <1>1, <1>2, <1>3, <1>4, InsideMoves DEF Inside

(* The INSERTs and COMMIT: one claim more, one unit less. *)
LEMMA CommitStep ==
  ASSUME PurchaseInv, NEW c \in Clients, Insert(c), ~Duplicate(calls[c])
  PROVE  PurchaseInv'
<1>0. /\ TypeOK /\ CallOK(c, calls[c]) /\ calls[c].step = "insert"
      /\ UNCHANGED <<gateVars, adminVars, configVars>>
      /\ \E a \in {"created", "replayed", "error"} : Answer(c, a)
      /\ Commits(calls[c]) /\ lock' = {} /\ calls[c].step # "idle"
  BY DEF PurchaseInv, Insert, Success
<1>1. PICK t \in Task : t = TaskOf(calls[c])
  BY <1>0, OwnNumber
<1>2. t.order = calls[c].order /\ t.user = calls[c].user
  BY <1>1 DEF TaskOf
<1>3. /\ claims' = claims \cup {t} /\ available' = available - 1 /\ version' = version + 1
      /\ UNCHANGED onSale
  BY <1>0, <1>1 DEF Commits, TaskOf
<1>4. \A k \in claims : k.order # t.order /\ k.user # t.user
  BY <1>2 DEF Duplicate
<1>5. lock = {c} /\ available > 0 /\ clock # "upcoming"
      /\ (ready /\ ~LatePublish => t \in buyers)
  BY <1>0, <1>1 DEF CallOK, LockKnows, InTime, KnownToGate, Inside
<1>6. PICK r \in Call :
        /\ calls' = [calls EXCEPT ![c] = r]
        /\ r.step = "done" /\ r.user = calls[c].user /\ r.order = calls[c].order
        /\ r.now = "upcoming" /\ r.answer \in {"created", "replayed", "error"}
  BY <1>0, AnswerEffect DEF Answers
<1>7. calls'[c] = r /\ \A d \in Clients \ {c} : calls'[d] = calls[d]
  BY <1>0, <1>6 DEF TypeOK
<1>8. claims \in SUBSET Task /\ claims' \in SUBSET Task
  BY <1>0, <1>3 DEF TypeOK
<1>9. /\ Cardinality(claims) \in Nat
      /\ Cardinality(claims') = Cardinality(claims) + 1
  <2>1. t \notin claims
    BY <1>4
  <2> QED
    BY <1>3, <1>8, <2>1, AddTask
<1>10. LedgerInv'
  BY <1>3, <1>5, <1>9 DEF PurchaseInv, LedgerInv
<1>11. TypeOK'
  <2>1. calls' \in [Clients -> Call \cup {NoCall}]
    BY <1>0, <1>6 DEF TypeOK
  <2>2. available' \in Int /\ version' \in Nat
    BY <1>9, <1>10 DEF LedgerInv
  <2> QED
    BY <1>0, <1>3, <1>8, <2>1, <2>2
    DEF TypeOK, GateTypeOK, AdminTypeOK, gateVars, adminVars, configVars
<1>12. NumberInv'
  <2>1. TaskOf(r) = t /\ t \in Held
    BY <1>0, <1>1, <1>6, OwnNumber DEF TaskOf
  <2>2. Held' \subseteq Held
    BY <1>0, <1>3, <1>7, <2>1 DEF Held, Active, gateVars
  <2> QED
    BY <1>0, <2>2 DEF PurchaseInv, NumberInv, gateVars
<1>13. TimeInv' /\ GateInv'
  BY <1>0, <1>3, <1>5 DEF PurchaseInv, TimeInv, GateInv, gateVars, adminVars, configVars
<1>14. OneClaimPerUser'
  BY <1>3, <1>4 DEF PurchaseInv, OneClaimPerUser
<1>15. ASSUME NEW d \in Clients PROVE CallOK(d, calls[d])'
  <2>1. CASE d = c
    BY <1>6, <1>7, <2>1
    DEF CallOK, LockKnows, Overtaken, Truthful, InTime, KnownToGate, Inside
  <2>2. CASE d # c
    <3>1. CallOK(d, calls[d]) /\ calls'[d] = calls[d] /\ lock # {d}
      BY <1>5, <1>7, <2>2 DEF PurchaseInv
    <3>2. LockKnows(d, calls[d])'
      BY <1>0, <3>1 DEF CallOK, LockKnows, configVars
    <3>3. Overtaken(calls[d])'
      <4>1. calls[d].step # "idle" =>
              calls[d].attempt \in Nat /\ calls[d].version \in Nat
        BY <1>0, CallType DEF Call
      <4>2. version \in Nat
        BY <1>0 DEF TypeOK
      <4> QED
        BY <1>0, <1>3, <3>1, <4>1, <4>2 DEF CallOK, Overtaken, configVars
    <3>4. Truthful(calls[d])'
      BY <1>3, <1>9, <3>1, PurchaseAssumption DEF CallOK, Truthful, Existing
    <3>5. InTime(calls[d])' /\ KnownToGate(calls[d])'
      BY <1>0, <3>1 DEF CallOK, InTime, KnownToGate, gateVars, adminVars, configVars
    <3> QED
      BY <3>2, <3>3, <3>4, <3>5 DEF CallOK
  <2> QED
    BY <2>1, <2>2
<1> QED
  BY <1>10, <1>11, <1>12, <1>13, <1>14, <1>15 DEF PurchaseInv

(* A call is aborted, or its caller has its answer. *)
LEMMA EndStep ==
  ASSUME PurchaseInv, NEW c \in Clients, Abort(c) \/ Return(c)
  PROVE  PurchaseInv'
<1>0. TypeOK
  BY DEF PurchaseInv
<1>1. CASE Abort(c)
  BY <1>0, <1>1, CallAnswers DEF Abort, Answers, TypeOK
<1>2. CASE Return(c)
  <2>1. /\ calls' = [calls EXCEPT ![c] = NoCall]
        /\ UNCHANGED <<ready, stock, buyers, owners, adminVars, configVars, tableVars, lock>>
        /\ stream' \subseteq stream
    BY <1>2 DEF Return
  <2>2. status' \in [OrderNos -> Status]
    BY <1>0, <1>2 DEF Return, TypeOK, GateTypeOK, Status
  <2>3. NoCall.step = "idle" /\ NoCall.answer = "none"
    BY DEF NoCall
  <2>4. CallOK(c, NoCall)'
    BY <2>3 DEF CallOK, LockKnows, Overtaken, Truthful, InTime, KnownToGate, Inside
  <2> QED
    BY <1>0, <2>1, <2>2, <2>3, <2>4, CallMoves DEF TypeOK
<1> QED
  BY <1>1, <1>2

(* The switches of the administration wait for a pessimistic transaction. *)
LEMMA SwitchStep ==
  ASSUME PurchaseInv, RowsFree, enabled' \in BOOLEAN, onSale' \in BOOLEAN,
         inFlight' \in SUBSET {"preheat", "disable", "enable"},
         "preheat" \in inFlight' => "preheat" \in inFlight,
         UNCHANGED <<gateVars, clock, snapshot, configVars, available, version, claims, lock, calls>>
  PROVE  PurchaseInv'
<1> USE DEF gateVars, configVars
<1>0. TypeOK /\ LedgerInv /\ NumberInv /\ TimeInv /\ GateInv /\ OneClaimPerUser
  BY DEF PurchaseInv
<1>1. TypeOK'
  BY <1>0 DEF TypeOK, GateTypeOK, AdminTypeOK
<1>2. LedgerInv' /\ TimeInv' /\ GateInv' /\ OneClaimPerUser'
  BY <1>0 DEF LedgerInv, TimeInv, GateInv, OneClaimPerUser
<1>3. NumberInv'
  BY <1>0 DEF NumberInv, Held, Active
<1>4. ASSUME NEW d \in Clients PROVE CallOK(d, calls[d])'
  <2>1. CallOK(d, calls[d])
    BY DEF PurchaseInv
  <2>2. LockKnows(d, calls[d])'
    BY <2>1 DEF CallOK, LockKnows, RowsFree
  <2> QED
    BY <2>1, <2>2 DEF CallOK, Overtaken, Truthful, InTime, KnownToGate, Existing, TaskOf
<1> QED
  BY <1>1, <1>2, <1>3, <1>4 DEF PurchaseInv

(* Everything of the administration that no row lock is in the way of. *)
LEMMA AdminMoves ==
  ASSUME PurchaseInv, UNCHANGED <<owners, status, stream, enabled, configVars, tableVars, lock, calls>>,
         ready' \in BOOLEAN, stock' \in Nat, buyers' \in {{}, buyers},
         snapshot' \in Nat, clock' \in Phases, clock' = "upcoming" => clock = "upcoming",
         inFlight' \in SUBSET {"preheat", "disable", "enable"},
         clock' = "upcoming" /\ "preheat" \in inFlight' => snapshot' = InitialStock,
         GateInv',
         \/ UNCHANGED <<ready, buyers>>
         \/ ready' = FALSE
         \/ LatePublish
         \/ clock = "upcoming" /\ entry # "direct"
  PROVE  PurchaseInv'
<1> USE DEF configVars, tableVars
<1>0. TypeOK /\ LedgerInv /\ NumberInv /\ TimeInv /\ GateInv /\ OneClaimPerUser
  BY DEF PurchaseInv
<1>1. TypeOK'
  <2>1. buyers' \in SUBSET Task
    BY <1>0 DEF TypeOK, GateTypeOK
  <2> QED
    BY <1>0, <2>1 DEF TypeOK, GateTypeOK, AdminTypeOK
<1>2. LedgerInv' /\ OneClaimPerUser' /\ TimeInv'
  BY <1>0 DEF LedgerInv, OneClaimPerUser, TimeInv
<1>3. NumberInv'
  BY <1>0 DEF NumberInv, Held, Active
<1>4. ASSUME NEW d \in Clients PROVE CallOK(d, calls[d])'
  <2>1. CallOK(d, calls[d])
    BY DEF PurchaseInv
  <2>2. KnownToGate(calls[d])'
    BY <2>1 DEF CallOK, KnownToGate, InTime
  <2> QED
    BY <2>1, <2>2 DEF CallOK, LockKnows, Overtaken, Truthful, InTime, Existing
<1> QED
  BY <1>1, <1>2, <1>3, <1>4 DEF PurchaseInv

(* Time goes on. *)
LEMMA TickStep ==
  ASSUME PurchaseInv, Tick, UNCHANGED <<configVars, tableVars, lock, calls>>
  PROVE  PurchaseInv'
<1>1. GateInv'
  BY DEF PurchaseInv, GateInv, Tick, gateVars, configVars, tableVars
<1>2. clock' \in Phases /\ clock' # "upcoming"
  BY DEF Tick, Phases
<1>3. /\ ready' \in BOOLEAN /\ stock' \in Nat /\ snapshot' \in Nat
      /\ inFlight' \in SUBSET {"preheat", "disable", "enable"}
  BY DEF PurchaseInv, TypeOK, GateTypeOK, AdminTypeOK, Tick, gateVars
<1>4. UNCHANGED <<owners, status, stream, enabled, configVars, tableVars, lock, calls>>
  BY DEF Tick, gateVars
<1>5. buyers' \in {{}, buyers}
  BY DEF Tick, gateVars
<1>6. UNCHANGED <<ready, buyers>>
  BY DEF Tick, gateVars
<1> QED
  BY <1>1, <1>2, <1>3, <1>4, <1>5, <1>6, AdminMoves

(* PreheatActivity reads the stock and later publishes it. *)
LEMMA PreheatStep ==
  ASSUME PurchaseInv, entry # "direct", LoadPreheatSnapshot \/ PublishActivity,
         UNCHANGED <<configVars, tableVars, lock, calls>>
  PROVE  PurchaseInv'
<1> USE DEF configVars, tableVars
<1>0. TypeOK /\ LedgerInv /\ TimeInv /\ GateInv
  BY DEF PurchaseInv
<1>1. CASE LoadPreheatSnapshot
  <2>0. /\ clock = "upcoming" /\ inFlight' = inFlight \cup {"preheat"} /\ snapshot' = available
        /\ UNCHANGED <<clock, enabled, ready, stock, buyers, owners, status, stream>>
    BY <1>1 DEF LoadPreheatSnapshot, BeginPreheat, gateVars
  <2>1. available \in Nat /\ available = InitialStock
    <3>1. claims = {} /\ Cardinality({}) = 0
      BY <1>0, <2>0, FS_EmptySet DEF TimeInv
    <3> QED
      BY <1>0, <3>1, SaleAssumption DEF LedgerInv
  <2>2. GateInv'
    BY <1>0, <2>0 DEF GateInv
  <2>3. /\ ready' \in BOOLEAN /\ stock' \in Nat /\ snapshot' \in Nat /\ clock' \in Phases
        /\ inFlight' \in SUBSET {"preheat", "disable", "enable"}
    BY <1>0, <2>0, <2>1 DEF TypeOK, GateTypeOK, AdminTypeOK
  <2> QED
    BY <2>0, <2>1, <2>2, <2>3, AdminMoves
<1>2. CASE PublishActivity
  <2>0. /\ "preheat" \in inFlight /\ (LatePublish \/ clock = "upcoming")
        /\ ready' = TRUE /\ stock' = snapshot /\ buyers' = {}
        /\ inFlight' = inFlight \ {"preheat"}
        /\ UNCHANGED <<clock, enabled, snapshot, owners, status, stream>>
    BY <1>2 DEF PublishActivity, Publish
  <2>1. Cardinality({}) = 0
    BY FS_EmptySet
  <2>2. GateInv'
    BY <1>0, <2>0, <2>1, SaleAssumption DEF GateInv, TimeInv
  <2>3. /\ ready' \in BOOLEAN /\ stock' \in Nat /\ snapshot' \in Nat /\ clock' \in Phases
        /\ inFlight' \in SUBSET {"preheat", "disable", "enable"}
    BY <1>0, <2>0 DEF TypeOK, AdminTypeOK
  <2> QED
    BY <1>0, <2>0, <2>2, <2>3, AdminMoves DEF TimeInv
<1> QED
  BY <1>1, <1>2

(* The cached item is deleted, or an administrative call stops half way. *)
LEMMA DropStep ==
  ASSUME PurchaseInv,
         \/ FinishDisable \/ BeginEnable \/ SnapshotExpires
         \/ \E call \in inFlight : AdminCallFails(call),
         UNCHANGED <<configVars, tableVars, lock, calls>>
  PROVE  PurchaseInv'
<1> USE DEF configVars, tableVars
<1>0. TypeOK /\ TimeInv /\ GateInv
  BY DEF PurchaseInv
<1>1. /\ UNCHANGED <<clock, enabled, snapshot, stock, owners, status, stream>>
      /\ \/ UNCHANGED <<ready, buyers>>
         \/ ready' = FALSE /\ buyers' = {}
  BY DEF FinishDisable, BeginEnable, SnapshotExpires, AdminCallFails, DropSnapshot, adminVars, gateVars
<1>2. /\ inFlight' \in SUBSET {"preheat", "disable", "enable"}
      /\ "preheat" \in inFlight' => "preheat" \in inFlight
  BY <1>0 DEF FinishDisable, BeginEnable, SnapshotExpires, AdminCallFails, adminVars, TypeOK, AdminTypeOK
<1>3. GateInv'
  BY <1>0, <1>1 DEF GateInv
<1>4. ready' \in BOOLEAN /\ stock' \in Nat /\ snapshot' \in Nat /\ clock' \in Phases
  BY <1>0, <1>1 DEF TypeOK, GateTypeOK, AdminTypeOK
<1>5. /\ clock' = "upcoming" /\ "preheat" \in inFlight' => snapshot' = InitialStock
      /\ clock' = "upcoming" => clock = "upcoming"
  BY <1>0, <1>1, <1>2 DEF TimeInv
<1>6. buyers' \in {{}, buyers}
  BY <1>1
<1> QED
  BY <1>1, <1>2, <1>3, <1>4, <1>5, <1>6, AdminMoves

(* The administration as a whole. *)
LEMMA AdminStep ==
  ASSUME PurchaseInv, Admin \/ SetProductStatus
  PROVE  PurchaseInv'
<1>0. TypeOK
  BY DEF PurchaseInv
<1>1. CASE SetProductStatus
  BY <1>0, <1>1, SwitchStep DEF SetProductStatus, adminVars, TypeOK, AdminTypeOK
<1>2. CASE SetActivityStatus /\ UNCHANGED <<configVars, tableVars, lock, calls>>
  BY <1>0, <1>2, SwitchStep DEF SetActivityStatus, tableVars, TypeOK, AdminTypeOK
<1>3. CASE RowsFree /\ (BeginDisable \/ FinishEnable) /\ UNCHANGED <<configVars, tableVars, lock, calls>>
  <2>1. /\ enabled' \in BOOLEAN /\ inFlight' \in SUBSET {"preheat", "disable", "enable"}
        /\ "preheat" \in inFlight' => "preheat" \in inFlight
        /\ UNCHANGED <<clock, snapshot, gateVars>>
    BY <1>0, <1>3 DEF BeginDisable, FinishEnable, TypeOK, AdminTypeOK
  <2> QED
    BY <1>0, <1>3, <2>1, SwitchStep DEF tableVars, TypeOK
<1> QED
  BY <1>1, <1>2, <1>3, TickStep, PreheatStep, DropStep DEF Admin, CachedAdmin

(* The invariant is inductive. *)
LEMMA PurchaseStep == PurchaseInv /\ [Next]_vars => PurchaseInv'
<1> SUFFICES ASSUME PurchaseInv, [Next]_vars PROVE PurchaseInv'
  OBVIOUS
<1>1. CASE Enter
  BY <1>1, BeginStep, EnqueueStep, ProcessStep DEF Enter
<1>2. ASSUME NEW c \in Clients, Purchasing(c) PROVE PurchaseInv'
  BY <1>2, AdmitStep, FindStep, LoadStep, DecrementStep, RetryStep, DuplicateStep, CommitStep
  DEF Purchasing
<1>3. ASSUME NEW c \in Clients, Abort(c) \/ Return(c) PROVE PurchaseInv'
  BY <1>3, EndStep
<1>4. CASE UNCHANGED vars
  BY <1>4
  DEF vars, gateVars, adminVars, configVars, tableVars, PurchaseInv, TypeOK, GateTypeOK,
      AdminTypeOK, LedgerInv, NumberInv, Held, Active, TimeInv, GateInv, OneClaimPerUser,
      CallOK, LockKnows, Overtaken, Truthful, InTime, KnownToGate, Existing
<1> QED
  BY <1>1, <1>2, <1>3, <1>4, AdminStep DEF Next

(* It holds in every state of the purchase. *)
LEMMA PurchaseInvariant == Spec => []PurchaseInv
BY PurchaseInit, PurchaseStep, PTL DEF Spec

-----------------------------------------------------------------------------
(* The properties. *)

(* The gate has taken a unit for every buyer and MySQL one for every claim,   *)
(* and every claim is of a buyer: the difference is who is still under way.   *)
LEMMA GateIsBehind == PurchaseInv => GateNeverAhead
<1> SUFFICES ASSUME PurchaseInv, ready, ~LatePublish
             PROVE  stock + Cardinality({b \in buyers : \A k \in claims : k.user # b.user})
                      <= available
  BY DEF GateNeverAhead
<1> DEFINE waiting == {b \in buyers : \A k \in claims : k.user # b.user}
<1>1. /\ buyers \in SUBSET Task /\ claims \subseteq buyers /\ stock \in Nat /\ available \in Nat
      /\ stock + Cardinality(buyers) = InitialStock
      /\ available + Cardinality(claims) = InitialStock
      /\ \A a, b \in buyers : a.user = b.user => a = b
  BY DEF PurchaseInv, TypeOK, GateTypeOK, GateInv, LedgerInv
<1>2. waiting = buyers \ claims
  BY <1>1
<1>3. IsFiniteSet(buyers) /\ IsFiniteSet(claims)
  BY <1>1, TaskFinite, FS_Subset
<1>4. Cardinality(buyers \ claims) = Cardinality(buyers) - Cardinality(buyers \cap claims)
  BY <1>3, FS_Difference
<1>5. buyers \cap claims = claims
  BY <1>1
<1>6. Cardinality(buyers) \in Nat /\ Cardinality(claims) \in Nat
  BY <1>3, FS_CardinalityType
<1>7. Cardinality(waiting) = Cardinality(buyers) - Cardinality(claims)
  BY <1>2, <1>4, <1>5
<1> HIDE DEF waiting
<1>8. stock + Cardinality(waiting) <= available
  BY <1>1, <1>6, <1>7, SaleAssumption
<1> QED
  BY <1>8 DEF waiting

(* The types of the purchase, its gate and its administration. *)
THEOREM PurchaseTypes == Spec => []TypeOK
BY PurchaseInvariant, PTL DEF PurchaseInv

(* The stock in seckill_items and the claims add up in every stock mode, for  *)
(* any number of concurrent transactions, aborts and unknown outcomes.        *)
THEOREM StockIsBacked == Spec => []StockBacksClaims
<1>1. PurchaseInv => StockBacksClaims
  BY DEF PurchaseInv, LedgerInv, StockBacksClaims
<1> QED
  BY <1>1, PurchaseInvariant, PTL

(* Repository.Purchase makes one order for a user, however often it is asked. *)
THEOREM OneClaim == Spec => []OneClaimPerUser
BY PurchaseInvariant, PTL DEF PurchaseInv

(* A duplicate key always has a committed order behind it.                    *)
THEOREM WinnerFound == Spec => []WinnerIsFound
<1>1. PurchaseInv => WinnerIsFound
  BY DEF PurchaseInv, CallOK, Truthful, WinnerIsFound
<1> QED
  BY <1>1, PurchaseInvariant, PTL

(* An optimistic purchase is only given up as busy after as many sales as it  *)
(* had attempts: optimisticMaxAttempts conflicts are as many other sales.     *)
THEOREM BusyAfterSales == Spec => []BusyMeansSales
<1>1. PurchaseInv => BusyMeansSales
  BY DEF PurchaseInv, CallOK, Truthful, BusyMeansSales
<1> QED
  BY <1>1, PurchaseInvariant, PTL

(* The Redis gate never lets in more than MySQL can serve, whatever was       *)
(* admitted, lost, aborted or dropped.                                        *)
THEOREM GateBehindStock == Spec => []GateNeverAhead
BY PurchaseInvariant, GateIsBehind, PTL

(* SELECT ... FOR UPDATE: what a pessimistic purchase has checked is still    *)
(* true when it commits.                                                      *)
THEOREM LockedChecks == Spec => LockedChecksHold
<1> DEFINE Checked == mode = "pessimistic" /\ claims' # claims => enabled /\ onSale
<1>1. ASSUME PurchaseInv, [Next]_vars PROVE Checked
  <2>1. UNCHANGED claims \/ \E c \in Clients : Insert(c)
    BY <1>1
    DEF Next, Enter, Begin, EnqueueStream, ProcessStreamTask, Purchasing, Admit, Find, Load,
        DecrementStock, Retry, ReadWinner, Abort, Return, Admin, SetProductStatus, vars, tableVars
  <2>2. ASSUME NEW c \in Clients, Insert(c), mode = "pessimistic" PROVE enabled /\ onSale
    BY <1>1, <2>2 DEF PurchaseInv, CallOK, LockKnows, Insert
  <2> QED
    BY <2>1, <2>2
<1>2. PurchaseInv /\ [Next]_vars => [Checked]_vars
  BY <1>1
<1>3. Spec => [][Checked]_vars
  BY <1>2, PurchaseInvariant, PTL DEF Spec
<1> QED
  BY <1>3 DEF LockedChecksHold
=============================================================================
