-------------------------- MODULE LoadReportProofs --------------------------
(***************************************************************************)
(* The report of the load test, for any number of requests, users and      *)
(* workers: what it counts, what it was told and what is in the tables.    *)
(* Neither the samples nor the claims alone say enough. Between the commit *)
(* of an order and the sample of its request, the order is explained by    *)
(* the worker that still has the job; under the Stream, by the sample that *)
(* was taken before the order was made.                                    *)
(***************************************************************************)
EXTENDS LoadTestProofs

(* What the answers of the purchases say of the tables. *)
ServedInv ==
  /\ \A c \in Clients : calls[c].answer # "none" <=> calls[c].step = "done"
  /\ \A c \in Clients : calls[c].answer = "created" => TaskOf(calls[c]) \in claims
  /\ \A c, d \in Clients :
       c # d /\ calls[c].answer = "created" /\ calls[d].answer = "created" =>
         calls[c].order # calls[d].order
  /\ \A o \in OrderNos : status[o] # "SUCCEEDED"

(* What comes through the Stream is in the results hash. *)
IndexedInv ==
  entry = "stream" =>
    /\ claims \subseteq owners
    /\ \A c \in Active : TaskOf(calls[c]) \in owners

(* A request is sampled once, by the worker that has it. *)
WorkInv ==
  /\ phase \in {"setup", "users", "wait"} =>
       /\ samples = [i \in Sequences |-> NoSample]
       /\ \A c \in Clients : calls[c].step = "idle"
  /\ phase = "run" =>
       /\ \A c \in Clients : hands[c] <= fed
       /\ \A c, d \in Clients : hands[c] = hands[d] /\ hands[c] # 0 => c = d
       /\ \A c \in Clients : hands[c] # 0 => samples[hands[c]] = NoSample
       /\ \A i \in Sequences : fed < i => samples[i] = NoSample
       /\ \A i \in Sequences :
            samples[i].answer = "none" => fed < i \/ \E c \in Clients : hands[c] = i
  /\ phase \in {"drain", "report"} => \A i \in Sequences : samples[i].answer # "none"

(* Without the Stream every purchase is a worker's, for the user of its job. *)
HandInv ==
  entry # "stream" /\ phase # "off" =>
    \A c \in Clients : calls[c].step # "idle" =>
      /\ phase = "run" /\ hands[c] \in Sequences
      /\ calls[c].user = owner[hands[c]]

(* What a request was told: an order in the tables, unless it was queued; and *)
(* that it is a replay only with an order, a new one being one number.        *)
Honest(i) ==
  /\ samples[i].answer \notin {"QUEUED", "FAILED"} =>
       \A o \in samples[i].order : [order |-> o, user |-> owner[i]] \in claims
  /\ samples[i].answer \in Accepted => entry = "stream"
  /\ samples[i].answer = "created" => entry # "stream"
  /\ samples[i].answer = "replayed" => samples[i].replayed = TRUE
  /\ samples[i].replayed = TRUE => samples[i].answer \in {"replayed"} \cup Accepted
  /\ i \in New => \E o \in OrderNos : samples[i].order = {o}

(* Nobody was told of an order that is not theirs, or of a new order twice. *)
ToldInv ==
  /\ \A i \in Sequences : Honest(i)
  /\ \A i, j \in New : i # j => samples[i].order # samples[j].order
  /\ \A i \in Sequences, c \in Clients :
       samples[i].answer = "created" /\ calls[c].answer = "created" =>
         samples[i].order # {calls[c].order}

(* The request that explains an order. *)
ByCall(k, i) ==
  \/ k.order \in samples[i].order
  \/ samples[i].answer \in Unclear
  \/ \E c \in Clients :
       /\ hands[c] = i
       /\ calls[c].answer \in {"created", "replayed", "error"} /\ TaskOf(calls[c]) = k

ByTask(t, i) == t.order \in samples[i].order \/ samples[i].answer \in Unclear

ExplainedInv ==
  /\ entry # "stream" => \A k \in claims : \E i \in Sequences : owner[i] = k.user /\ ByCall(k, i)
  /\ entry = "stream" => \A t \in owners : \E i \in Sequences : owner[i] = t.user /\ ByTask(t, i)

ReportInv ==
  /\ LoadInv
  /\ ServedInv
  /\ IndexedInv
  /\ WorkInv
  /\ HandInv
  /\ phase # "off" => ToldInv /\ ExplainedInv

-----------------------------------------------------------------------------
(* The purchases. *)

(* What a step of a purchase makes of its call: it is not answered as created *)
(* unless it has just made an order with a number of its own.                 *)
Moves(c, r) ==
  /\ calls' = [calls EXCEPT ![c] = r]
  /\ r.answer # "none" <=> r.step = "done"
  /\ r.user = calls[c].user
  /\ entry # "stream" \/ r.order = calls[c].order
  /\ \/ UNCHANGED claims /\ r.answer # "created"
     \/ /\ r.answer \in {"created", "replayed", "error"}
        /\ claims' = claims \cup {TaskOf(r)}
        /\ \A k \in claims : k.order # r.order

LEMMA PurchaseMoves ==
  ASSUME LoadInv, ServedInv, NEW c \in Clients, Purchasing(c) \/ Abort(c)
  PROVE  /\ calls[c].step \notin {"idle", "done"}
         /\ UNCHANGED <<entry, owners, status>>
         /\ \E r \in Call : r.step # "idle" /\ Moves(c, r)
<1>0. TypeOK /\ (entry = "stream" => calls[c].step # "admit")
  BY DEF LoadInv, PurchaseInv, StreamInv, GateKnows
<1>1. calls[c].step \notin {"idle", "done"}
  BY DEF Purchasing, Abort, Admit, Find, Load, DecrementStock, Retry, Insert, ReadWinner
<1>2. UNCHANGED <<entry, owners, status>>
  BY DEF Purchasing, Abort, Admit, Find, Load, DecrementStock, Retry, Insert, ReadWinner,
         gateVars, configVars
<1> SUFFICES \E r \in Call : r.step # "idle" /\ Moves(c, r)
  BY <1>1, <1>2
<1>3. calls[c] \in Call /\ calls[c].answer = "none"
  BY <1>0, <1>1, CallType DEF ServedInv
<1>4. ASSUME NEW step \in Steps \ {"done"}, Go(c, step), UNCHANGED claims
      PROVE  \E r \in Call : r.step # "idle" /\ Moves(c, r)
  <2>1. PICK r \in Call :
          /\ calls' = [calls EXCEPT ![c] = r]
          /\ r.step = step /\ r.user = calls[c].user /\ r.order = calls[c].order
          /\ r.answer = calls[c].answer
    BY <1>0, <1>1, <1>4, GoEffect
  <2>2. step # "idle"
    BY DEF Steps
  <2> QED
    BY <1>3, <1>4, <2>1, <2>2 DEF Moves
<1>5. ASSUME NEW answer \in Answers \ {"none"}, Answer(c, answer),
             \/ UNCHANGED claims /\ answer # "created"
             \/ /\ answer \in {"created", "replayed", "error"}
                /\ claims' = claims \cup {TaskOf(calls[c])}
                /\ \A k \in claims : k.order # calls[c].order
      PROVE  \E r \in Call : r.step # "idle" /\ Moves(c, r)
  <2>1. PICK r \in Call :
          /\ calls' = [calls EXCEPT ![c] = r]
          /\ r.step = "done" /\ r.user = calls[c].user /\ r.order = calls[c].order
          /\ r.answer = answer
    BY <1>0, <1>1, <1>5, AnswerEffect
  <2>2. TaskOf(r) = TaskOf(calls[c])
    BY <2>1 DEF TaskOf
  <2> QED
    BY <1>5, <2>1, <2>2 DEF Moves
<1>6. CASE Admit(c)
  <2>0. UNCHANGED claims /\ entry # "stream"
    BY <1>0, <1>6 DEF Admit, tableVars
  <2>1. PICK u \in Users, now \in Phases : u = calls[c].user /\ now = calls[c].now
    BY <1>3 DEF Call
  <2>2. PICK decision \in {"not_ready", "replayed", "unavailable", "sold_out", "reserved"} :
          decision = GateDecision(u, now)
    BY GateDecisionReserved
  <2>3. ParseReservation(c, decision) \/ Answer(c, "temporary")
    BY <1>6, <2>1, <2>2 DEF Admit, GateReserve
  <2>4. CASE Answer(c, "temporary")
    BY <1>5, <2>0, <2>4 DEF Answers
  <2>5. CASE Go(c, "find")
    BY <1>4, <2>0, <2>5 DEF Steps
  <2>6. CASE decision \in {"not_ready", "unavailable", "sold_out"} /\ Answer(c, decision)
    BY <1>5, <2>0, <2>6 DEF Answers
  <2>7. ASSUME NEW b \in buyers,
               calls' = [calls EXCEPT ![c].step = "find", ![c].order = b.order, ![c].replayed = TRUE]
        PROVE  \E r \in Call : r.step # "idle" /\ Moves(c, r)
    <3>1. b.order \in OrderNos
      BY <1>0 DEF TypeOK, GateTypeOK, Task
    <3> DEFINE r == [calls[c] EXCEPT !.step = "find", !.order = b.order, !.replayed = TRUE]
    <3>2. r \in Call /\ r.step = "find" /\ r.user = calls[c].user /\ r.answer = calls[c].answer
      BY <1>3, <3>1 DEF Call, Steps
    <3>3. calls' = [calls EXCEPT ![c] = r]
      BY <1>0, <1>3, <2>7 DEF TypeOK, Call
    <3>4. Moves(c, r)
      BY <1>3, <2>0, <3>2, <3>3 DEF Moves
    <3> QED
      BY <3>2, <3>4
  <2> QED
    BY <2>3, <2>4, <2>5, <2>6, <2>7 DEF ParseReservation
<1>7. CASE Find(c) \/ ReadWinner(c)
  BY <1>4, <1>5, <1>7 DEF Find, ReadWinner, Steps, Answers, tableVars
<1>8. CASE Load(c)
  <2>1. UNCHANGED claims
    BY <1>8 DEF Load, tableVars
  <2>2. CASE Answer(c, "unavailable")
    BY <1>5, <2>1, <2>2 DEF Answers
  <2>3. CASE calls' = [calls EXCEPT ![c].step = "update",
                                    ![c].stock = available, ![c].version = version]
    <3> DEFINE r == [calls[c] EXCEPT !.step = "update", !.stock = available, !.version = version]
    <3>1. available \in Int /\ version \in Nat
      BY <1>0 DEF TypeOK
    <3>2. r \in Call /\ r.step = "update" /\ r.user = calls[c].user /\ r.order = calls[c].order
          /\ r.answer = calls[c].answer
      BY <1>3, <3>1 DEF Call, Steps
    <3>3. calls' = [calls EXCEPT ![c] = r]
      BY <1>0, <1>3, <2>3 DEF TypeOK, Call
    <3>4. Moves(c, r)
      BY <1>3, <2>1, <3>2, <3>3 DEF Moves
    <3> QED
      BY <3>2, <3>4
  <2> QED
    BY <1>8, <2>2, <2>3 DEF Load
<1>9. CASE DecrementStock(c)
  <2>1. UNCHANGED claims
    BY <1>9 DEF DecrementStock, tableVars
  <2>2. Go(c, "insert") \/ Go(c, "backoff") \/ Answer(c, "busy") \/ Answer(c, "sold_out")
    BY <1>9 DEF DecrementStock
  <2> QED
    BY <1>4, <1>5, <2>1, <2>2 DEF Steps, Answers
<1>10. CASE Retry(c)
  <2>1. UNCHANGED claims
    BY <1>10 DEF Retry, tableVars
  <2> DEFINE r == [calls[c] EXCEPT !.step = "load", !.attempt = calls[c].attempt + 1]
  <2>0. calls[c].attempt + 1 \in Nat
    BY <1>3 DEF Call
  <2>2. r \in Call /\ r.step = "load" /\ r.user = calls[c].user /\ r.order = calls[c].order
        /\ r.answer = calls[c].answer
    BY <1>3, <2>0 DEF Call, Steps
  <2>3. calls' = [calls EXCEPT ![c] = r]
    BY <1>0, <1>3, <1>10 DEF TypeOK, Call, Retry
  <2>4. Moves(c, r)
    BY <1>3, <2>1, <2>2, <2>3 DEF Moves
  <2> QED
    BY <2>2, <2>4
<1>11. CASE Insert(c)
  <2>1. CASE Go(c, "winner") /\ UNCHANGED tableVars
    BY <1>4, <2>1 DEF Steps, tableVars
  <2>2. CASE /\ ~Duplicate(calls[c]) /\ Commits(calls[c])
             /\ Answer(c, Success(calls[c])) \/ Answer(c, "error")
    <3>0. PICK answer \in {"created", "replayed"} : answer = Success(calls[c])
      BY DEF Success
    <3>1. claims' = claims \cup {TaskOf(calls[c])} /\ \A k \in claims : k.order # calls[c].order
      BY <2>2 DEF Commits, Duplicate, TaskOf
    <3> QED
      BY <1>5, <2>2, <3>0, <3>1 DEF Answers
  <2> QED
    BY <1>11, <2>1, <2>2 DEF Insert
<1>12. CASE Abort(c)
  <2>1. PICK answer \in {"temporary", "error"} : Answer(c, answer)
    BY <1>12 DEF Abort
  <2>2. UNCHANGED claims
    BY <1>12 DEF Abort, tableVars
  <2> QED
    BY <1>5, <2>1, <2>2 DEF Answers
<1> QED
  BY <1>6, <1>7, <1>8, <1>9, <1>10, <1>11, <1>12 DEF Purchasing

(* A call is replaced. *)
LEMMA ServedMove ==
  ASSUME LoadInv, ServedInv, NEW c \in Clients, NEW r,
         calls' = [calls EXCEPT ![c] = r], r.answer # "none" <=> r.step = "done",
         claims \subseteq claims', UNCHANGED status,
         \/ r.answer # "created"
         \/ TaskOf(r) \in claims' /\ \A k \in claims : k.order # r.order
  PROVE  ServedInv'
<1>1. calls'[c] = r /\ \A d \in Clients \ {c} : calls'[d] = calls[d]
  BY DEF LoadInv, PurchaseInv, TypeOK
<1>2. \A d \in Clients : calls[d].answer = "created" => \E k \in claims : k.order = calls[d].order
  BY DEF ServedInv, TaskOf
<1>3. \A d \in Clients : calls'[d].answer # "none" <=> calls'[d].step = "done"
  BY <1>1 DEF ServedInv
<1>4. \A d \in Clients : calls'[d].answer = "created" => TaskOf(calls'[d]) \in claims'
  BY <1>1 DEF ServedInv
<1>5. \A d, e \in Clients :
        d # e /\ calls'[d].answer = "created" /\ calls'[e].answer = "created" =>
          calls'[d].order # calls'[e].order
  BY <1>1, <1>2 DEF ServedInv
<1>6. \A o \in OrderNos : status'[o] # "SUCCEEDED"
  BY DEF ServedInv
<1> QED
  BY <1>3, <1>4, <1>5, <1>6 DEF ServedInv, TaskOf

(* What the answers say stays true, whoever the clients are. *)
LEMMA ServedStep ==
  ASSUME LoadInv, ServedInv, IndexedInv, [Next]_vars
  PROVE  ServedInv' /\ IndexedInv'
<1>0. /\ PurchaseInv /\ TypeOK /\ entry' = entry
      /\ owners \subseteq owners' /\ claims \subseteq claims'
  BY PurchaseGrows DEF LoadInv, PurchaseInv
<1>1. ASSUME NEW c \in Clients, NEW r, calls' = [calls EXCEPT ![c] = r], UNCHANGED claims,
             r.step # "idle" => entry # "stream" \/ TaskOf(r) \in owners'
      PROVE  IndexedInv'
  <2>1. calls'[c] = r /\ \A d \in Clients \ {c} : calls'[d] = calls[d]
    BY <1>0, <1>1 DEF TypeOK
  <2> QED
    BY <1>0, <1>1, <2>1 DEF IndexedInv, Active, TaskOf
<1>2. ASSUME NEW c \in Clients, NEW u \in Users, NEW o \in OrderNos, Begin(c, u, o)
      PROVE  ServedInv' /\ IndexedInv'
  <2>1. PICK r : r = NewCall(u, o, clock, IF entry = "gated" THEN "admit" ELSE "find")
    OBVIOUS
  <2>2. calls' = [calls EXCEPT ![c] = r] /\ UNCHANGED <<claims, status>> /\ entry # "stream"
    BY <1>2, <2>1 DEF Begin, gateVars, tableVars
  <2>3. r.answer = "none" /\ r.step # "done"
    BY <2>1 DEF NewCall
  <2> QED
    BY <1>1, <2>2, <2>3, ServedMove
<1>3. ASSUME NEW u \in Users, NEW o \in OrderNos, EnqueueStream(u, o)
      PROVE  ServedInv' /\ IndexedInv'
  <2>1. UNCHANGED <<claims, calls>> /\ status' = [status EXCEPT ![o] = "QUEUED"]
    BY <1>3 DEF EnqueueStream, ReserveAndEnqueue, tableVars
  <2>2. \A p \in OrderNos : status'[p] # "SUCCEEDED"
    BY <1>0, <2>1 DEF ServedInv, TypeOK, GateTypeOK
  <2> QED
    BY <1>0, <2>1, <2>2 DEF ServedInv, IndexedInv, Active, TaskOf
<1>4. ASSUME NEW c \in Clients, NEW t \in stream, ProcessStreamTask(c, t)
      PROVE  ServedInv' /\ IndexedInv'
  <2>1. PICK r : r = NewCall(t.user, t.order, "open", "find")
    OBVIOUS
  <2>2. calls' = [calls EXCEPT ![c] = r] /\ UNCHANGED <<claims, status>>
    BY <1>4, <2>1 DEF ProcessStreamTask, gateVars, tableVars
  <2>3. r.answer = "none" /\ r.step # "done" /\ TaskOf(r) = [order |-> t.order, user |-> t.user]
    BY <2>1 DEF NewCall, TaskOf
  <2>4. t \in owners' /\ t = [order |-> t.order, user |-> t.user]
    BY <1>0 DEF PurchaseInv, NumberInv, TypeOK, GateTypeOK, Task
  <2> QED
    BY <1>1, <2>2, <2>3, <2>4, ServedMove
<1>5. ASSUME NEW c \in Clients, Purchasing(c) \/ Abort(c)
      PROVE  ServedInv' /\ IndexedInv'
  <2>1. calls[c].step \notin {"idle", "done"} /\ UNCHANGED <<entry, owners, status>>
    BY <1>5, PurchaseMoves
  <2>2. PICK r \in Call : Moves(c, r)
    BY <1>5, PurchaseMoves
  <2>3. ServedInv'
    BY <1>0, <2>1, <2>2, ServedMove DEF Moves
  <2>4. ASSUME entry = "stream" PROVE TaskOf(r) \in owners
    <3>1. TaskOf(r) = TaskOf(calls[c])
      BY <2>2, <2>4 DEF Moves, TaskOf
    <3> QED
      BY <2>1, <2>4, <3>1 DEF IndexedInv, Active
  <2>5. IndexedInv'
    <3>1. calls'[c] = r /\ \A d \in Clients \ {c} : calls'[d] = calls[d]
      BY <1>0, <2>2 DEF TypeOK, Moves
    <3>2. claims' = claims \/ claims' = claims \cup {TaskOf(r)}
      BY <2>2 DEF Moves
    <3>3. entry = "stream" => claims' \subseteq owners'
      BY <2>1, <2>4, <3>2 DEF IndexedInv
    <3>4. ASSUME entry = "stream", NEW d \in Clients, calls'[d].step # "idle"
          PROVE  TaskOf(calls'[d]) \in owners'
      BY <2>1, <2>4, <3>1, <3>4 DEF IndexedInv, Active
    <3> QED
      BY <1>0, <3>3, <3>4 DEF IndexedInv, Active, TaskOf
  <2> QED
    BY <2>3, <2>5
<1>6. ASSUME NEW c \in Clients, Return(c)
      PROVE  ServedInv' /\ IndexedInv'
  <2>1. calls' = [calls EXCEPT ![c] = NoCall] /\ UNCHANGED <<claims, owners>>
    BY <1>6 DEF Return, tableVars
  <2>2. NoCall.answer = "none" /\ NoCall.step = "idle"
    BY DEF NoCall
  <2>3. IndexedInv'
    BY <1>1, <2>1, <2>2
  <2>4. \A o \in OrderNos : status'[o] # "SUCCEEDED"
    <3>1. status' = status \/ \E p \in OrderNos : status' = [status EXCEPT ![p] = "FAILED"]
      <4>1. calls[c].order \in OrderNos
        BY <1>0, <1>6, CallType DEF Return, Call
      <4> QED
        BY <1>6, <4>1 DEF Return
    <3> QED
      BY <1>0, <3>1 DEF ServedInv, TypeOK, GateTypeOK
  <2>5. calls'[c] = NoCall /\ \A d \in Clients \ {c} : calls'[d] = calls[d]
    BY <1>0, <2>1 DEF TypeOK
  <2>6. /\ \A d \in Clients : calls'[d].answer # "none" <=> calls'[d].step = "done"
        /\ \A d \in Clients : calls'[d].answer = "created" => TaskOf(calls'[d]) \in claims'
    BY <2>1, <2>2, <2>5 DEF ServedInv
  <2>7. \A d, e \in Clients :
          d # e /\ calls'[d].answer = "created" /\ calls'[e].answer = "created" =>
            calls'[d].order # calls'[e].order
    BY <2>2, <2>5 DEF ServedInv
  <2>8. ServedInv'
    BY <2>4, <2>6, <2>7 DEF ServedInv, TaskOf
  <2> QED
    BY <2>3, <2>8
<1>7. CASE Admin \/ SetProductStatus \/ UNCHANGED vars
  <2>1. UNCHANGED <<claims, calls, status>>
    BY <1>7
    DEF Admin, SetActivityStatus, CachedAdmin, Tick, BeginDisable, FinishEnable, LoadPreheatSnapshot,
        BeginPreheat, PublishActivity, Publish, FinishDisable, BeginEnable, DropSnapshot,
        AdminCallFails, SnapshotExpires, SetProductStatus, vars, gateVars, tableVars
  <2> QED
    BY <1>0, <2>1 DEF ServedInv, IndexedInv, Active, TaskOf
<1> QED
  BY <1>2, <1>3, <1>4, <1>5, <1>6, <1>7 DEF Next, Enter

-----------------------------------------------------------------------------
(* The workers. *)

(* A worker takes a sample of the answer, or learns nothing of an order. *)
Hears(c, answer, orders, replayed) ==
  \/ answer \in Unclear \cap Quiet /\ orders = {} /\ replayed = FALSE
  \/ /\ answer = calls[c].answer /\ answer \in Answers
     /\ orders = IF answer \in {"created", "replayed"}
                 THEN {k.order : k \in Existing(calls[c])} ELSE {}
     /\ replayed = (answer = "replayed")

LEMMA SampleSamples ==
  ASSUME LoadInv, ServedInv, NEW c \in Clients, Sample(c)
  PROVE  \E i \in Sequences, answer \in Outcomes \ {"none"}, orders \in SUBSET OrderNos,
            replayed \in BOOLEAN :
           /\ i = hands[c] /\ Sampled(i, answer, orders, replayed)
           /\ Hears(c, answer, orders, replayed)
<1>1. calls[c].step = "done" /\ calls[c] \in Call /\ TypeOK
  BY CallType DEF LoadInv, PurchaseInv, Sample, Return
<1>2. PICK i \in Sequences : i = hands[c]
  BY DEF Sample
<1>3. PICK a \in Outcomes \ {"none"} : a = calls[c].answer /\ a \in Answers
  <2>1. calls[c].answer # "orphan" /\ calls[c].answer # "none"
    BY <1>1 DEF LoadInv, PurchaseInv, CallOK, Truthful, ServedInv
  <2> QED
    BY <1>1, <2>1 DEF Outcomes, Call
<1>4. PICK told \in SUBSET OrderNos :
        told = IF a \in {"created", "replayed"} THEN {k.order : k \in Existing(calls[c])} ELSE {}
  BY <1>1 DEF Existing, TypeOK, Task
<1>5. PICK flag \in BOOLEAN : flag = (a = "replayed")
  OBVIOUS
<1>6. CASE Sampled(i, a, told, flag)
  <2>1. Hears(c, a, told, flag)
    BY <1>3, <1>4, <1>5 DEF Hears
  <2> QED
    BY <1>2, <1>6, <2>1
<1>7. CASE \E answer \in {"lost", "timeout", "unread_200", "error"} : Sampled(i, answer, {}, FALSE)
  <2>1. PICK answer \in {"lost", "timeout", "unread_200", "error"} : Sampled(i, answer, {}, FALSE)
    BY <1>7
  <2>2. answer \in Outcomes \ {"none"} /\ answer \in Unclear \cap Quiet
    BY DEF Outcomes, Answers, Unclear, Quiet, Accepted
  <2>3. {} \in SUBSET OrderNos /\ FALSE \in BOOLEAN
    OBVIOUS
  <2>4. Hears(c, answer, {}, FALSE)
    BY <2>2 DEF Hears
  <2> QED
    BY <1>2, <2>1, <2>2, <2>3, <2>4
<1> QED
  BY <1>2, <1>3, <1>4, <1>5, <1>6, <1>7 DEF Sample, Unsure

(* What is told is an outcome. *)
LEMMA ReadTells ==
  ASSUME LoadInv, ServedInv, ReadOrder \/ ReadProjection
  PROVE  /\ entry = "stream" /\ phase = "drain" /\ UNCHANGED <<vars, phase, owner, fed, hands>>
         /\ \A i \in Sequences :
              \/ samples'[i] = samples[i]
              \/ /\ samples[i].answer = "QUEUED" /\ samples'[i].order = samples[i].order
                 /\ samples'[i].replayed = samples[i].replayed
                 /\ samples'[i].answer \in Accepted
                 /\ samples'[i].answer = "SUCCEEDED" =>
                      \A o \in samples[i].order : [order |-> o, user |-> owner[i]] \in claims
<1>1. phase = "drain" /\ entry = "stream" /\ ToolTypeOK
  BY DEF LoadInv, PollInv, NoPoll, ReadOrder, ReadProjection
<1>2. UNCHANGED <<vars, phase, owner, fed, hands>>
  BY DEF ReadOrder, ReadProjection
<1>3. ASSUME NEW o \in poll.order PROVE status[o] \in {"NONE", "QUEUED", "FAILED"}
  <2>1. o \in OrderNos /\ status[o] \in Status
    BY <1>1, <1>3 DEF ToolTypeOK, LoadInv, PurchaseInv, TypeOK, GateTypeOK
  <2> QED
    BY <2>1 DEF Status, ServedInv
<1>4. PICK orders : orders = poll.order
  OBVIOUS
<1>5. CASE UNCHANGED samples
  BY <1>1, <1>2, <1>5
<1>6. ASSUME NEW answer \in {"QUEUED", "FAILED"}, Tell(orders, answer)
      PROVE  \A i \in Sequences :
               \/ samples'[i] = samples[i]
               \/ /\ samples[i].answer = "QUEUED" /\ samples'[i].order = samples[i].order
                  /\ samples'[i].replayed = samples[i].replayed
                  /\ samples'[i].answer = answer
  BY <1>1, <1>6, TellEffect DEF Outcomes
<1>7. ASSUME NEW o \in orders, FindOwnedByOrderNo(Asker, o), Tell(orders, "SUCCEEDED"),
             NEW i \in Sequences, samples'[i] # samples[i]
      PROVE  /\ samples[i].answer = "QUEUED" /\ samples'[i].order = samples[i].order
             /\ samples'[i].replayed = samples[i].replayed
             /\ samples'[i].answer = "SUCCEEDED"
             /\ \A p \in samples[i].order : [order |-> p, user |-> owner[i]] \in claims
  <2>1. /\ samples[i].answer = "QUEUED" /\ samples'[i].order = samples[i].order
        /\ samples'[i].replayed = samples[i].replayed
        /\ samples'[i].answer = "SUCCEEDED"
    BY <1>1, <1>7, TellEffect DEF Outcomes
  <2>2. samples[i].order = orders
    BY <1>7 DEF Tell
  <2>3. PICK p \in OrderNos : samples[i].order = {p}
    BY <1>1, <2>1 DEF LoadInv, SampleInv
  <2>4. o \in samples[i].order /\ Committed(o)
    BY <1>7, <2>2 DEF FindOwnedByOrderNo, Committed
  <2>5. [order |-> o, user |-> owner[i]] \in claims
    BY <1>1, <2>4, CommittedOwner
  <2> QED
    BY <2>1, <2>2, <2>3, <2>5, <1>7
<1>8. \/ UNCHANGED samples
      \/ \E answer \in {"QUEUED", "FAILED"} : Tell(orders, answer)
      \/ \E o \in orders : FindOwnedByOrderNo(Asker, o) /\ Tell(orders, "SUCCEEDED")
  BY <1>3, <1>4 DEF ReadOrder, ReadProjection
<1> QED
  BY <1>1, <1>2, <1>5, <1>6, <1>7, <1>8 DEF Accepted

(* What happens beside the workers. *)
LEMMA BesideEffect ==
  ASSUME Beside
  PROVE  /\ UNCHANGED toolVars
         /\ \/ phase \in {"wait", "run", "drain"} /\ Tick /\ UNCHANGED <<claims, owners, calls>>
            \/ /\ phase \in {"run", "drain"}
               /\ \/ \E c \in Clients, t \in stream : ProcessStreamTask(c, t)
                  \/ \E c \in Clients : Purchasing(c) \/ Abort(c)
                  \/ entry = "stream" /\ \E c \in Clients : Return(c)
<1>1. UNCHANGED toolVars
  BY DEF Beside
<1>2. CASE phase \in {"wait", "run", "drain"} /\ Tick /\ UNCHANGED <<configVars, tableVars, lock, calls>>
  BY <1>1, <1>2 DEF Tick, gateVars, tableVars
<1> QED
  BY <1>1, <1>2 DEF Beside

(* Each request has one worker and one sample. *)
LEMMA WorkStep ==
  ASSUME LoadInv, ServedInv, WorkInv, [LoadNext]_loadVars
  PROVE  WorkInv'
<1>0. ToolTypeOK /\ TypeOK /\ Requests \in Nat \ {0} /\ fed \in 0 .. Requests
  BY LoadTestAssumption DEF LoadInv, PurchaseInv, ToolTypeOK
<1> USE <1>0
<1>1. CASE Prepare /\ ~AwaitStart
  <2>1. /\ phase \in {"setup", "users", "wait"} /\ UNCHANGED <<samples, calls>>
        /\ phase' \in {"setup", "users", "wait", "failed"}
    BY <1>1
    DEF Prepare, CreateSeckillItem, SetupFails, PrepareUsersEnds, TakeUser, RegisterAndLogin,
        WorkerEnds, vars
  <2> QED
    BY <2>1 DEF WorkInv
<1>2. CASE AwaitStart
  <2>1. /\ phase' = "run" /\ fed' = 0 /\ hands' = [c \in Clients |-> 0]
        /\ samples' = [i \in Sequences |-> NoSample]
    BY <1>2 DEF AwaitStart, WorkInv
  <2> QED
    BY <2>1 DEF WorkInv, Sequences
<1>3. ASSUME NEW c \in Clients, Post(c) PROVE WorkInv'
  <2>1. /\ phase = "run" /\ hands[c] = 0 /\ fed < Requests /\ fed' = fed + 1
        /\ hands' = [hands EXCEPT ![c] = fed + 1] /\ UNCHANGED <<phase, samples>>
    BY <1>3 DEF Post
  <2>2. hands'[c] = fed + 1 /\ \A d \in Clients \ {c} : hands'[d] = hands[d]
    BY <2>1 DEF ToolTypeOK
  <2>3. \A d \in Clients : hands[d] \in Nat /\ hands[d] <= fed
    BY <2>1 DEF WorkInv, ToolTypeOK, Gone
  <2>4. \A d \in Clients : hands'[d] <= fed'
    BY <2>1, <2>2, <2>3
  <2>5. \A d, e \in Clients : hands'[d] = hands'[e] /\ hands'[d] # 0 => d = e
    BY <2>1, <2>2, <2>3 DEF WorkInv
  <2>6. fed + 1 \in Sequences /\ samples[fed + 1] = NoSample
    BY <2>1 DEF WorkInv, Sequences
  <2>7. \A d \in Clients : hands'[d] # 0 => samples'[hands'[d]] = NoSample
    BY <2>1, <2>2, <2>6 DEF WorkInv
  <2>8. \A i \in Sequences : fed' < i => samples'[i] = NoSample
    BY <2>1 DEF WorkInv, Sequences
  <2>9. ASSUME NEW i \in Sequences, samples'[i].answer = "none"
        PROVE  fed' < i \/ \E d \in Clients : hands'[d] = i
    <3>1. fed < i \/ \E d \in Clients : hands[d] = i
      BY <2>1, <2>9 DEF WorkInv
    <3>2. CASE fed < i
      BY <2>1, <2>2, <3>2 DEF Sequences
    <3>3. ASSUME NEW d \in Clients, hands[d] = i PROVE \E e \in Clients : hands'[e] = i
      BY <2>1, <2>2, <3>3 DEF Sequences
    <3> QED
      BY <3>1, <3>2, <3>3
  <2> QED
    BY <2>1, <2>4, <2>5, <2>7, <2>8, <2>9 DEF WorkInv
<1>4. ASSUME NEW c \in Clients, Sample(c) PROVE WorkInv'
  <2>1. PICK i \in Sequences, answer \in Outcomes \ {"none"}, orders \in SUBSET OrderNos,
             replayed \in BOOLEAN :
          /\ i = hands[c] /\ Sampled(i, answer, orders, replayed)
          /\ Hears(c, answer, orders, replayed)
    BY <1>4, SampleSamples
  <2>2. phase = "run" /\ hands' = [hands EXCEPT ![c] = 0] /\ UNCHANGED <<phase, fed>>
    BY <1>4 DEF Sample
  <2>3. hands'[c] = 0 /\ \A d \in Clients \ {c} : hands'[d] = hands[d]
    BY <2>2 DEF ToolTypeOK
  <2>4. /\ samples'[i] = [answer |-> answer, order |-> orders, replayed |-> replayed]
        /\ \A j \in Sequences \ {i} : samples'[j] = samples[j]
    BY <2>1, SampledType
  <2>5. \A d \in Clients : hands'[d] <= fed'
    BY <2>2, <2>3 DEF WorkInv
  <2>6. \A d, e \in Clients : hands'[d] = hands'[e] /\ hands'[d] # 0 => d = e
    BY <2>2, <2>3 DEF WorkInv
  <2>7. i <= fed /\ \A d \in Clients \ {c} : hands[d] # i
    BY <2>1, <2>2 DEF WorkInv, Sequences
  <2>8. ASSUME NEW d \in Clients, hands'[d] # 0 PROVE samples'[hands'[d]] = NoSample
    <3>1. d # c /\ hands'[d] = hands[d] /\ hands[d] # i /\ hands[d] # 0 /\ hands[d] <= fed
      BY <2>2, <2>3, <2>7, <2>8 DEF WorkInv
    <3>2. hands[d] \in Sequences
      BY <3>1 DEF ToolTypeOK, Sequences, Gone
    <3> QED
      BY <2>2, <2>4, <3>1, <3>2 DEF WorkInv
  <2>9. \A j \in Sequences : fed' < j => samples'[j] = NoSample
    BY <2>2, <2>4, <2>7 DEF WorkInv, Sequences
  <2>10. ASSUME NEW j \in Sequences, samples'[j].answer = "none"
         PROVE  fed' < j \/ \E d \in Clients : hands'[d] = j
    <3>1. j # i /\ samples'[j] = samples[j]
      BY <2>4, <2>10
    <3> QED
      BY <2>1, <2>2, <2>3, <2>10, <3>1 DEF WorkInv
  <2> QED
    BY <2>2, <2>5, <2>6, <2>8, <2>9, <2>10 DEF WorkInv
<1>5. CASE PostAsync \/ Reject
  <2>1. PICK i \in Sequences, answer \in Outcomes, orders \in SUBSET OrderNos, replayed \in BOOLEAN :
          /\ i = fed + 1 /\ fed' = fed + 1
          /\ Sampled(i, answer, orders, replayed) /\ Learns(i, answer, orders, replayed)
    BY <1>5, SentSamples DEF LoadInv
  <2>0. answer # "none"
    BY <2>1 DEF Learns, Quiet
  <2>2. phase = "run" /\ UNCHANGED <<phase, hands>>
    BY <1>5 DEF PostAsync, Reject
  <2>3. \A c \in Clients : hands[c] \in Nat /\ hands[c] <= fed /\ hands[c] # i
    BY <2>1, <2>2 DEF WorkInv, ToolTypeOK, Gone
  <2>4. /\ samples'[i] = [answer |-> answer, order |-> orders, replayed |-> replayed]
        /\ \A j \in Sequences \ {i} : samples'[j] = samples[j]
    BY <2>1, SampledType
  <2>5. \A j \in Sequences : fed' < j => samples'[j] = NoSample
    BY <2>1, <2>2, <2>4 DEF WorkInv, Sequences
  <2>6. ASSUME NEW j \in Sequences, samples'[j].answer = "none"
        PROVE  fed' < j \/ \E c \in Clients : hands'[c] = j
    <3>1. j # i /\ samples'[j] = samples[j]
      BY <2>0, <2>4, <2>6
    <3>2. fed < j \/ \E c \in Clients : hands[c] = j
      BY <2>2, <2>6, <3>1 DEF WorkInv
    <3> QED
      BY <2>1, <2>2, <3>1, <3>2 DEF Sequences
  <2>7. \A c \in Clients : hands'[c] <= fed'
    BY <2>1, <2>2, <2>3
  <2>8. ASSUME NEW c \in Clients, hands'[c] # 0 PROVE samples'[hands'[c]] = NoSample
    <3>1. hands[c] \in Sequences /\ hands'[c] = hands[c]
      BY <2>2, <2>3, <2>8 DEF Sequences
    <3> QED
      BY <2>2, <2>3, <2>4, <2>8, <3>1 DEF WorkInv
  <2>9. \A c, d \in Clients : hands'[c] = hands'[d] /\ hands'[c] # 0 => c = d
    BY <2>2 DEF WorkInv
  <2> QED
    BY <2>2, <2>5, <2>6, <2>7, <2>8, <2>9 DEF WorkInv
<1>6. CASE RunEnds
  <2>1. /\ phase = "run" /\ phase' \in {"drain", "report"} /\ fed = Requests
        /\ \A c \in Clients : hands[c] = 0
        /\ UNCHANGED samples
    BY <1>6 DEF RunEnds
  <2>2. \A i \in Sequences : samples[i].answer # "none"
    BY <2>1 DEF WorkInv, Sequences
  <2> QED
    BY <2>1, <2>2 DEF WorkInv
<1>7. CASE ReadOrder \/ ReadProjection
  <2>1. phase = "drain" /\ UNCHANGED phase
    BY <1>7, ReadTells
  <2>2. \A i \in Sequences : samples'[i].answer # "none"
    BY <1>7, <2>1, ReadTells DEF WorkInv, Accepted
  <2> QED
    BY <2>1, <2>2 DEF WorkInv
<1>8. CASE PollFails \/ NextRound \/ \E o \in round : SendPoll(o)
  <2>1. /\ phase = "drain" /\ phase' \in {"drain", "report"} /\ UNCHANGED samples
    BY <1>8 DEF PollFails, NextRound, SendPoll, LoadInv, PollInv, NoPoll
  <2> QED
    BY <2>1 DEF WorkInv
<1>9. CASE Beside
  <2>1. UNCHANGED <<phase, samples, hands, fed>> /\ (phase \in {"run", "drain"} \/ UNCHANGED calls)
    BY <1>9, BesideEffect DEF toolVars
  <2> QED
    BY <2>1 DEF WorkInv
<1>10. CASE OtherClients
  BY <1>10 DEF OtherClients, WorkInv, toolVars
<1>11. CASE CollectBackendState \/ UNCHANGED loadVars
  <2>1. UNCHANGED <<phase, samples, hands, fed, calls>>
    BY <1>11 DEF CollectBackendState, loadVars, toolVars, vars
  <2> QED
    BY <2>1 DEF WorkInv
<1> QED
  BY <1>1, <1>2, <1>3, <1>4, <1>5, <1>6, <1>7, <1>8, <1>9, <1>10, <1>11
  DEF LoadNext, Run, Drain

(* Without the Stream a purchase belongs to a worker. *)
LEMMA HandStep ==
  ASSUME LoadInv, ServedInv, WorkInv, HandInv, [LoadNext]_loadVars
  PROVE  HandInv'
<1>0. /\ ToolTypeOK /\ TypeOK /\ entry' = entry /\ owner' = owner
      /\ (phase = "off" <=> phase' = "off")
  BY SetupStep, StreamStep DEF LoadInv, PurchaseInv
<1> SUFFICES ASSUME entry # "stream", phase # "off"
             PROVE  \A c \in Clients : calls'[c].step # "idle" =>
                      /\ phase' = "run" /\ hands'[c] \in Sequences
                      /\ calls'[c].user = owner[hands'[c]]
  BY <1>0 DEF HandInv
<1> USE <1>0
<1>1. CASE Prepare
  <2>1. phase \in {"setup", "users", "wait"} /\ UNCHANGED calls
    BY <1>1
    DEF Prepare, CreateSeckillItem, SetupFails, PrepareUsersEnds, AwaitStart, TakeUser,
        RegisterAndLogin, WorkerEnds, vars
  <2> QED
    BY <2>1 DEF WorkInv
<1>2. ASSUME NEW c \in Clients, Post(c)
      PROVE  \A d \in Clients : calls'[d].step # "idle" =>
               /\ phase' = "run" /\ hands'[d] \in Sequences
               /\ calls'[d].user = owner[hands'[d]]
  <2>1. PICK o \in OrderNos : Begin(c, owner[fed + 1], o)
    BY <1>2 DEF Post
  <2>2. PICK r : r = NewCall(owner[fed + 1], o, clock, IF entry = "gated" THEN "admit" ELSE "find")
    OBVIOUS
  <2>3. calls' = [calls EXCEPT ![c] = r] /\ r.user = owner[fed + 1]
    BY <2>1, <2>2 DEF Begin, NewCall
  <2>4. /\ phase = "run" /\ phase' = "run" /\ fed < Requests
        /\ hands' = [hands EXCEPT ![c] = fed + 1]
    BY <1>2 DEF Post
  <2>5. fed + 1 \in Sequences
    BY <2>4, LoadTestAssumption DEF ToolTypeOK, Sequences
  <2>6. /\ calls'[c] = r /\ \A d \in Clients \ {c} : calls'[d] = calls[d]
        /\ hands'[c] = fed + 1 /\ \A d \in Clients \ {c} : hands'[d] = hands[d]
    BY <2>3, <2>4 DEF TypeOK, ToolTypeOK
  <2> QED
    BY <2>3, <2>4, <2>5, <2>6 DEF HandInv
<1>3. ASSUME NEW c \in Clients, Sample(c)
      PROVE  \A d \in Clients : calls'[d].step # "idle" =>
               /\ phase' = "run" /\ hands'[d] \in Sequences
               /\ calls'[d].user = owner[hands'[d]]
  <2>1. /\ phase' = "run" /\ hands' = [hands EXCEPT ![c] = 0]
        /\ calls' = [calls EXCEPT ![c] = NoCall]
    BY <1>3 DEF Sample, Return
  <2>2. /\ calls'[c].step = "idle" /\ \A d \in Clients \ {c} : calls'[d] = calls[d]
        /\ \A d \in Clients \ {c} : hands'[d] = hands[d]
    BY <2>1 DEF TypeOK, ToolTypeOK, NoCall
  <2> QED
    BY <2>1, <2>2 DEF HandInv
<1>4. CASE RunEnds
  <2>1. UNCHANGED calls /\ \A c \in Clients : hands[c] = 0
    BY <1>4 DEF RunEnds, vars
  <2> QED
    BY <2>1 DEF HandInv, Sequences
<1>5. CASE PostAsync \/ Reject
  <2>1. UNCHANGED <<phase, hands, calls>>
    BY <1>5 DEF PostAsync, Reject, vars
  <2> QED
    BY <2>1 DEF HandInv
<1>6. CASE Drain
  BY <1>6 DEF Drain, SendPoll, ReadOrder, ReadProjection, PollFails, NextRound, LoadInv, PollInv, NoPoll
<1>7. CASE Beside
  <2>1. UNCHANGED <<phase, hands>>
    BY <1>7, BesideEffect DEF toolVars
  <2>2. CASE UNCHANGED calls
    BY <2>1, <2>2 DEF HandInv
  <2>3. ASSUME NEW c \in Clients, Purchasing(c) \/ Abort(c)
        PROVE  \A d \in Clients : calls'[d].step # "idle" =>
                 /\ phase' = "run" /\ hands'[d] \in Sequences
                 /\ calls'[d].user = owner[hands'[d]]
    <3>1. calls[c].step # "idle"
      BY <2>3, PurchaseMoves
    <3>2. PICK r \in Call : calls' = [calls EXCEPT ![c] = r] /\ r.user = calls[c].user
      BY <2>3, PurchaseMoves DEF Moves
    <3>3. calls'[c] = r /\ \A d \in Clients \ {c} : calls'[d] = calls[d]
      BY <3>2 DEF TypeOK
    <3> QED
      BY <2>1, <3>1, <3>2, <3>3 DEF HandInv
  <2>4. ASSUME NEW c \in Clients, NEW t \in stream, ProcessStreamTask(c, t) PROVE FALSE
    BY <2>4 DEF ProcessStreamTask
  <2> QED
    BY <1>7, <2>2, <2>3, <2>4, BesideEffect
<1>8. CASE OtherClients
  BY <1>8 DEF OtherClients
<1>9. CASE CollectBackendState \/ UNCHANGED loadVars
  <2>1. UNCHANGED <<phase, hands, calls>>
    BY <1>9 DEF CollectBackendState, loadVars, toolVars, vars
  <2> QED
    BY <2>1 DEF HandInv
<1> QED
  BY <1>1, <1>2, <1>3, <1>4, <1>5, <1>6, <1>7, <1>8, <1>9 DEF LoadNext, Run

-----------------------------------------------------------------------------
(* The samples and the tables. *)

(* The order of a request that was told it is new. *)
LEMMA CreatedOrder ==
  ASSUME LoadInv, ServedInv, NEW c \in Clients, calls[c].answer = "created"
  PROVE  /\ calls[c].order \in OrderNos
         /\ {k.order : k \in Existing(calls[c])} = {calls[c].order}
<1>1. calls[c] \in Call
  <2>1. calls[c].step # "idle"
    BY DEF ServedInv
  <2> QED
    BY <2>1, CallType DEF LoadInv, PurchaseInv
<1>2. PICK t \in claims : t = TaskOf(calls[c])
  BY DEF ServedInv
<1>3. t.order = calls[c].order /\ t.user = calls[c].user
  BY <1>2 DEF TaskOf
<1>4. Existing(calls[c]) = {t}
  BY <1>3 DEF Existing, LoadInv, PurchaseInv, OneClaimPerUser
<1> QED
  BY <1>1, <1>3, <1>4 DEF Call

(* A new sample that was not told of an order it could share. *)
LEMMA ToldSample ==
  ASSUME ToolTypeOK, ToldInv, NEW i \in Sequences, NEW answer \in Outcomes,
         NEW orders \in SUBSET OrderNos, NEW replayed \in BOOLEAN,
         Sampled(i, answer, orders, replayed),
         claims \subseteq claims', UNCHANGED <<owner, entry>>,
         \A c \in Clients : calls'[c].answer = "created" => calls'[c] = calls[c],
         answer \notin {"QUEUED", "FAILED"} =>
           \A o \in orders : [order |-> o, user |-> owner[i]] \in claims,
         answer \in Accepted => entry = "stream",
         answer = "created" => entry # "stream",
         answer = "replayed" => replayed = TRUE,
         replayed = TRUE => answer \in {"replayed"} \cup Accepted,
         answer \in {"created"} \cup Accepted /\ replayed = FALSE =>
           /\ \E o \in OrderNos : orders = {o}
           /\ \A j \in New : samples[j].order # orders,
         answer = "created" =>
           \A c \in Clients : calls'[c].answer = "created" => orders # {calls'[c].order}
  PROVE  ToldInv'
<1>1. /\ samples'[i] = [answer |-> answer, order |-> orders, replayed |-> replayed]
      /\ \A j \in Sequences \ {i} : samples'[j] = samples[j]
  BY SampledType
<1>2. samples'[i].answer = answer /\ samples'[i].order = orders /\ samples'[i].replayed = replayed
  BY <1>1
<1>3. /\ i \in New' <=> answer \in {"created"} \cup Accepted /\ replayed = FALSE
      /\ \A j \in Sequences \ {i} : j \in New' <=> j \in New
      /\ New' \subseteq Sequences
  BY <1>1, <1>2 DEF New
<1>4. Honest(i)'
  BY <1>2, <1>3 DEF Honest
<1>5. ASSUME NEW j \in Sequences \ {i} PROVE Honest(j)'
  <2>1. Honest(j)
    BY DEF ToldInv
  <2> QED
    BY <1>1, <1>3, <2>1 DEF Honest
<1>6. \A j, l \in New' : j # l => samples'[j].order # samples'[l].order
  BY <1>1, <1>2, <1>3 DEF ToldInv
<1>7. \A j \in Sequences, c \in Clients :
        samples'[j].answer = "created" /\ calls'[c].answer = "created" =>
          samples'[j].order # {calls'[c].order}
  BY <1>1, <1>2 DEF ToldInv
<1> QED
  BY <1>4, <1>5, <1>6, <1>7 DEF ToldInv

(* A call goes on beside the samples. *)
LEMMA ToldMove ==
  ASSUME LoadInv, ToldInv, NEW c \in Clients, NEW r, calls' = [calls EXCEPT ![c] = r],
         UNCHANGED <<samples, owner, entry>>, claims \subseteq claims',
         r.answer = "created" => \A k \in claims : k.order # r.order
  PROVE  ToldInv'
<1>1. calls'[c] = r /\ \A d \in Clients \ {c} : calls'[d] = calls[d]
  BY DEF LoadInv, PurchaseInv, TypeOK
<1>2. ASSUME NEW i \in Sequences, samples[i].answer = "created", r.answer = "created"
      PROVE  samples[i].order # {r.order}
  <2>1. ASSUME NEW o \in samples[i].order PROVE \E k \in claims : k.order = o
    <3>1. PICK k \in claims : k = [order |-> o, user |-> owner[i]]
      BY <1>2, <2>1 DEF ToldInv, Honest
    <3> QED
      BY <3>1
  <2> QED
    BY <1>2, <2>1
<1>3. \A i \in Sequences, d \in Clients :
        samples'[i].answer = "created" /\ calls'[d].answer = "created" =>
          samples'[i].order # {calls'[d].order}
  BY <1>1, <1>2 DEF ToldInv
<1> QED
  BY <1>3 DEF ToldInv, Honest, New

LEMMA ToldStep ==
  ASSUME LoadInv, ServedInv, WorkInv, HandInv, ToldInv, phase # "off", [LoadNext]_loadVars
  PROVE  ToldInv'
<1>0. ToolTypeOK /\ TypeOK /\ owner' = owner /\ entry' = entry /\ claims \subseteq claims'
  <2>1. PurchaseInv /\ [Next]_vars
    BY ToolIsClient DEF LoadInv
  <2> QED
    BY <2>1, SetupStep, PurchaseGrows DEF LoadInv, PurchaseInv
<1>1. CASE UNCHANGED <<samples, calls>>
  BY <1>0, <1>1 DEF ToldInv, Honest, New
<1>2. CASE Prepare \/ RunEnds \/ PollFails \/ NextRound \/ \E o \in round : SendPoll(o)
  <2>1. UNCHANGED <<samples, calls>>
    BY <1>2
    DEF Prepare, CreateSeckillItem, SetupFails, PrepareUsersEnds, AwaitStart, TakeUser,
        RegisterAndLogin, WorkerEnds, RunEnds, PollFails, NextRound, SendPoll, vars
  <2> QED
    BY <1>1, <2>1
<1>3. ASSUME NEW c \in Clients, Post(c) PROVE ToldInv'
  <2>1. PICK o \in OrderNos : Begin(c, owner[fed + 1], o)
    BY <1>3 DEF Post
  <2>2. PICK r : r = NewCall(owner[fed + 1], o, clock, IF entry = "gated" THEN "admit" ELSE "find")
    OBVIOUS
  <2>3. calls' = [calls EXCEPT ![c] = r] /\ r.answer = "none" /\ UNCHANGED samples
    BY <1>3, <2>1, <2>2 DEF Begin, NewCall, Post
  <2> QED
    BY <1>0, <2>3, ToldMove
<1>4. ASSUME NEW c \in Clients, Sample(c) PROVE ToldInv'
  <2>1. PICK i \in Sequences, answer \in Outcomes \ {"none"}, orders \in SUBSET OrderNos,
             replayed \in BOOLEAN :
          /\ i = hands[c] /\ Sampled(i, answer, orders, replayed)
          /\ Hears(c, answer, orders, replayed)
    BY <1>4, SampleSamples
  <2>2. /\ entry # "stream" /\ calls[c].step # "idle"
        /\ calls' = [calls EXCEPT ![c] = NoCall]
    BY <1>4 DEF Sample, Return, LoadInv, StreamInv, Sequences
  <2>3. /\ calls'[c].answer = "none" /\ \A d \in Clients \ {c} : calls'[d] = calls[d]
    BY <1>0, <2>2 DEF TypeOK, NoCall
  <2>4. calls[c].user = owner[i]
    BY <2>1, <2>2 DEF HandInv
  <2>5. \A o \in orders : [order |-> o, user |-> owner[i]] \in claims
    <3>1. ASSUME NEW k \in Existing(calls[c])
          PROVE  [order |-> k.order, user |-> owner[i]] \in claims
      BY <1>0, <2>4, <3>1 DEF Existing, TypeOK, Task
    <3> QED
      BY <2>1, <3>1 DEF Hears
  <2>6. ASSUME answer = "created"
        PROVE  /\ \E o \in OrderNos : orders = {o}
               /\ \A j \in New : samples[j].order # orders
               /\ \A d \in Clients : calls'[d].answer = "created" => orders # {calls'[d].order}
    <3>1. calls[c].answer = "created" /\ orders = {k.order : k \in Existing(calls[c])}
      BY <2>1, <2>6 DEF Hears, Quiet
    <3>2. calls[c].order \in OrderNos /\ orders = {calls[c].order}
      BY <3>1, CreatedOrder
    <3>3. \A d \in Clients : calls'[d].answer = "created" => calls'[d].order # calls[c].order
      BY <2>3, <3>1 DEF ServedInv
    <3>4. \A j \in New : j \in Sequences /\ samples[j].answer = "created"
      BY <2>2 DEF ToldInv, Honest, New
    <3> QED
      BY <3>1, <3>2, <3>3, <3>4 DEF ToldInv
  <2>7. /\ answer \notin Accepted /\ (answer = "replayed" => replayed = TRUE)
        /\ (replayed = TRUE => answer = "replayed")
    <3>1. CASE answer \in Quiet /\ replayed = FALSE
      BY <3>1 DEF Quiet
    <3>2. CASE answer \in Answers /\ replayed = (answer = "replayed")
      BY <3>2 DEF Answers, Accepted
    <3> QED
      BY <2>1, <3>1, <3>2 DEF Hears
  <2>8. \A d \in Clients : calls'[d].answer = "created" => calls'[d] = calls[d]
    BY <2>3
  <2>9. /\ answer \in Outcomes
        /\ answer \in Accepted => entry = "stream"
        /\ answer = "created" => entry # "stream"
        /\ answer = "replayed" => replayed = TRUE
        /\ replayed = TRUE => answer \in {"replayed"} \cup Accepted
    BY <2>2, <2>7
  <2>10. /\ answer \in {"created"} \cup Accepted /\ replayed = FALSE =>
              /\ \E o \in OrderNos : orders = {o}
              /\ \A j \in New : samples[j].order # orders
         /\ answer = "created" =>
              \A d \in Clients : calls'[d].answer = "created" => orders # {calls'[d].order}
    BY <2>6, <2>7
  <2>11. /\ Sampled(i, answer, orders, replayed)
         /\ claims \subseteq claims' /\ owner' = owner /\ entry' = entry
    BY <1>0, <2>1
  <2>12. CASE answer = "created"
    <3>1. replayed = FALSE
      BY <2>7, <2>12
    <3> QED
      BY <1>0, <2>5, <2>8, <2>9, <2>10, <2>11, <2>12, <3>1, ToldSample
  <2>13. CASE answer # "created" /\ replayed = FALSE
    BY <1>0, <2>5, <2>7, <2>8, <2>9, <2>11, <2>13, ToldSample
  <2>14. CASE replayed = TRUE
    BY <1>0, <2>5, <2>7, <2>8, <2>9, <2>11, <2>14, ToldSample
  <2> QED
    BY <2>12, <2>13, <2>14
<1>5. CASE PostAsync \/ Reject
  <2>1. PICK i \in Sequences, answer \in Outcomes, orders \in SUBSET OrderNos, replayed \in BOOLEAN :
          Sampled(i, answer, orders, replayed) /\ Learns(i, answer, orders, replayed)
    BY <1>5, SentSamples DEF LoadInv
  <2>2. UNCHANGED calls
    BY <1>5 DEF PostAsync, Reject, EnqueueStream, vars
  <2>3. CASE answer \in Quiet /\ orders = {} /\ replayed = FALSE
    BY <1>0, <2>1, <2>2, <2>3, ToldSample DEF Quiet
  <2>4. CASE answer = "QUEUED" /\ replayed = TRUE /\ entry = "stream"
    BY <1>0, <2>1, <2>2, <2>4, ToldSample DEF Accepted
  <2>5. ASSUME NEW o \in OrderNos, EnqueueStream(owner[i], o), replayed = FALSE,
               answer = "QUEUED", orders = {o}
        PROVE  ToldInv'
    <3>1. entry = "stream" /\ \A t \in owners : t.order # o
      BY <2>5 DEF EnqueueStream, Fresh
    <3>2. ASSUME NEW j \in New, samples[j].order = {o} PROVE FALSE
      <4>1. j \in Sequences
        BY DEF New
      <4>2. PICK t \in owners : t = [order |-> o, user |-> owner[j]]
        BY <3>1, <3>2, <4>1 DEF LoadInv, SampleInv
      <4> QED
        BY <3>1, <4>2
    <3> QED
      BY <1>0, <2>1, <2>2, <2>5, <3>1, <3>2, ToldSample DEF Accepted
  <2> QED
    BY <2>1, <2>3, <2>4, <2>5 DEF Learns
<1>6. CASE ReadOrder \/ ReadProjection
  <2>1. UNCHANGED <<claims, calls>>
    BY <1>6, ReadTells DEF vars, tableVars
  <2>2. ASSUME NEW i \in Sequences
        PROVE  /\ Honest(i)' /\ samples'[i].order = samples[i].order /\ (i \in New' <=> i \in New)
               /\ samples'[i].answer = "created" => samples'[i] = samples[i]
    <3>0. Honest(i)
      BY DEF ToldInv
    <3>1. CASE samples'[i] = samples[i]
      BY <1>0, <2>1, <3>0, <3>1 DEF Honest, New
    <3>2. CASE /\ samples[i].answer = "QUEUED" /\ samples'[i].order = samples[i].order
               /\ samples'[i].replayed = samples[i].replayed
               /\ samples'[i].answer \in Accepted
               /\ samples'[i].answer = "SUCCEEDED" =>
                    \A o \in samples[i].order : [order |-> o, user |-> owner[i]] \in claims
      <4>1. i \in New' <=> i \in New
        BY <3>2 DEF New, Accepted
      <4> QED
        BY <1>0, <2>1, <3>0, <3>2, <4>1 DEF Honest, Accepted
    <3> QED
      BY <1>6, <3>1, <3>2, ReadTells
  <2>3. New' = New
    BY <2>2 DEF New
  <2>4. \A i, j \in New' : i # j => samples'[i].order # samples'[j].order
    BY <2>2, <2>3 DEF ToldInv, New
  <2> QED
    BY <1>0, <2>1, <2>2, <2>4 DEF ToldInv
<1>7. CASE Beside
  <2>1. UNCHANGED samples
    BY <1>7, BesideEffect DEF toolVars
  <2>2. ASSUME NEW c \in Clients, Purchasing(c) \/ Abort(c) PROVE ToldInv'
    <3>1. PICK r \in Call : Moves(c, r)
      BY <2>2, PurchaseMoves
    <3> QED
      BY <1>0, <2>1, <3>1, ToldMove DEF Moves
  <2>3. ASSUME NEW c \in Clients, NEW t \in stream, ProcessStreamTask(c, t) PROVE ToldInv'
    <3>1. PICK r : r = NewCall(t.user, t.order, "open", "find")
      OBVIOUS
    <3>2. calls' = [calls EXCEPT ![c] = r] /\ r.answer = "none"
      BY <2>3, <3>1 DEF ProcessStreamTask, NewCall
    <3> QED
      BY <1>0, <2>1, <3>2, ToldMove
  <2>4. ASSUME NEW c \in Clients, Return(c) PROVE ToldInv'
    <3>1. calls' = [calls EXCEPT ![c] = NoCall] /\ NoCall.answer = "none"
      BY <2>4 DEF Return, NoCall
    <3> QED
      BY <1>0, <2>1, <3>1, ToldMove
  <2> QED
    BY <1>1, <1>7, <2>1, <2>2, <2>3, <2>4, BesideEffect
<1>8. CASE OtherClients
  BY <1>8 DEF OtherClients
<1>9. CASE CollectBackendState \/ UNCHANGED loadVars
  <2>1. UNCHANGED <<samples, calls>>
    BY <1>9 DEF CollectBackendState, loadVars, toolVars, vars
  <2> QED
    BY <1>1, <2>1
<1> QED
  BY <1>2, <1>3, <1>4, <1>5, <1>6, <1>7, <1>8, <1>9 DEF LoadNext, Run, Drain

(* The Stream: nothing enters the results hash without a sample. *)
LEMMA TaskExplained ==
  ASSUME LoadInv, ServedInv, WorkInv, ExplainedInv, phase # "off", [LoadNext]_loadVars,
         entry = "stream", NEW t \in owners'
  PROVE  \E i \in Sequences : owner[i] = t.user /\ ByTask(t, i)'
<1>0. ToolTypeOK /\ TypeOK
  BY DEF LoadInv, PurchaseInv
<1>1. CASE PostAsync \/ Reject
  <2>1. PICK i \in Sequences, answer \in Outcomes, orders \in SUBSET OrderNos, replayed \in BOOLEAN :
          /\ i = fed + 1 /\ fed' = fed + 1
          /\ Sampled(i, answer, orders, replayed) /\ Learns(i, answer, orders, replayed)
    BY <1>1, SentSamples DEF LoadInv
  <2>2. /\ samples'[i].answer = answer /\ samples'[i].order = orders
        /\ \A j \in Sequences \ {i} : samples'[j] = samples[j]
    <3>1. /\ samples'[i] = [answer |-> answer, order |-> orders, replayed |-> replayed]
          /\ \A j \in Sequences \ {i} : samples'[j] = samples[j]
      BY <1>0, <2>1, SampledType
    <3> QED
      BY <3>1
  <2>0. phase = "run"
    BY <1>1 DEF PostAsync, Reject
  <2>9. fed < i
    BY <1>0, <2>1 DEF ToolTypeOK
  <2>3. samples[i] = NoSample
    BY <2>0, <2>9 DEF WorkInv
  <2>4. CASE t \in owners
    <3>1. PICK j \in Sequences : owner[j] = t.user /\ ByTask(t, j)
      BY <2>4 DEF ExplainedInv
    <3>2. j # i
      BY <2>3, <3>1 DEF ByTask, NoSample, Unclear
    <3> QED
      BY <2>2, <3>1, <3>2 DEF ByTask
  <2>5. ASSUME NEW o \in OrderNos, EnqueueStream(owner[i], o), answer \in Unclear \/ orders = {o},
               t \notin owners
        PROVE  \E j \in Sequences : owner[j] = t.user /\ ByTask(t, j)'
    <3>1. t = [order |-> o, user |-> owner[i]]
      BY <2>5 DEF EnqueueStream, ReserveAndEnqueue
    <3>2. t.order = o /\ t.user = owner[i]
      BY <3>1
    <3> QED
      BY <2>2, <2>5, <3>2 DEF ByTask
  <2>6. CASE UNCHANGED vars
    BY <2>4, <2>6 DEF vars, gateVars
  <2> QED
    BY <2>1, <2>4, <2>5, <2>6 DEF Learns
<1>2. ASSUME UNCHANGED owners,
             \A i \in Sequences :
               /\ samples'[i].order = samples[i].order
               /\ samples[i].answer \in Unclear => samples'[i].answer \in Unclear
      PROVE  \E i \in Sequences : owner[i] = t.user /\ ByTask(t, i)'
  BY <1>2 DEF ExplainedInv, ByTask
<1>3. CASE ReadOrder \/ ReadProjection
  <2>1. UNCHANGED owners
    BY <1>3, ReadTells DEF vars, gateVars
  <2>2. \A i \in Sequences :
          /\ samples'[i].order = samples[i].order
          /\ samples[i].answer \in Unclear => samples'[i].answer \in Unclear
    BY <1>3, ReadTells DEF Unclear
  <2> QED
    BY <1>2, <2>1, <2>2
<1>4. ASSUME NEW c \in Clients, Post(c) \/ Sample(c) PROVE FALSE
  BY <1>4 DEF Post, Begin, Sample, LoadInv, StreamInv, Sequences
<1>5. CASE Prepare \/ RunEnds \/ PollFails \/ NextRound \/ \E o \in round : SendPoll(o)
  <2>1. UNCHANGED <<samples, owners>>
    BY <1>5
    DEF Prepare, CreateSeckillItem, LoadPreheatSnapshot, BeginPreheat, PublishActivity, Publish,
        SetupFails, PrepareUsersEnds, AwaitStart, TakeUser, RegisterAndLogin, WorkerEnds,
        RunEnds, PollFails, NextRound, SendPoll, vars, gateVars
  <2> QED
    BY <1>2, <2>1
<1>6. CASE Beside
  <2>1. UNCHANGED samples
    BY <1>6, BesideEffect DEF toolVars
  <2>2. UNCHANGED owners
    BY <1>6, BesideEffect, PurchaseMoves DEF ProcessStreamTask, Return, gateVars
  <2> QED
    BY <1>2, <2>1, <2>2
<1>7. CASE OtherClients
  BY <1>7 DEF OtherClients
<1>8. CASE CollectBackendState \/ UNCHANGED loadVars
  <2>1. UNCHANGED <<samples, owners>>
    BY <1>8 DEF CollectBackendState, loadVars, toolVars, vars, gateVars
  <2> QED
    BY <1>2, <2>1
<1> QED
  BY <1>1, <1>3, <1>4, <1>5, <1>6, <1>7, <1>8 DEF LoadNext, Run, Drain

(* Without it: no order is committed but by a worker that has yet to say so.  *)
LEMMA ClaimExplained ==
  ASSUME LoadInv, ServedInv, WorkInv, HandInv, ExplainedInv, phase # "off", [LoadNext]_loadVars,
         entry # "stream", NEW k \in claims'
  PROVE  \E i \in Sequences : owner[i] = k.user /\ ByCall(k, i)'
<1>0. ToolTypeOK /\ TypeOK /\ PurchaseInv
  BY DEF LoadInv, PurchaseInv
<1>1. ASSUME k \in claims
      PROVE  \E i \in Sequences : owner[i] = k.user /\ ByCall(k, i)
  BY <1>1 DEF ExplainedInv
<1>2. CASE UNCHANGED <<samples, calls, hands, claims>>
  <2>1. \A i \in Sequences : ByCall(k, i) => ByCall(k, i)'
    BY <1>2 DEF ByCall, TaskOf
  <2> QED
    BY <1>1, <1>2, <2>1
<1>3. CASE Prepare
  <2>1. phase \in {"setup", "users", "wait"} /\ UNCHANGED <<samples, calls, claims>>
    BY <1>3
    DEF Prepare, CreateSeckillItem, SetupFails, PrepareUsersEnds, AwaitStart, TakeUser,
        RegisterAndLogin, WorkerEnds, vars, tableVars
  <2>2. \A c \in Clients : calls[c].answer = "none"
    BY <2>1 DEF WorkInv, ServedInv
  <2>3. \A i \in Sequences : ByCall(k, i) => ByCall(k, i)'
    BY <2>1, <2>2 DEF ByCall
  <2> QED
    BY <1>1, <2>1, <2>3
<1>4. ASSUME NEW c \in Clients, Post(c)
      PROVE  \E i \in Sequences : owner[i] = k.user /\ ByCall(k, i)'
  <2>1. PICK o \in OrderNos : Begin(c, owner[fed + 1], o)
    BY <1>4 DEF Post
  <2>2. \A d \in Clients \ {c} : calls'[d] = calls[d] /\ hands'[d] = hands[d]
    BY <1>0, <1>4, <2>1 DEF Post, Begin, TypeOK, ToolTypeOK
  <2>3. hands[c] = 0 /\ UNCHANGED <<samples, claims>>
    BY <1>4, <2>1 DEF Post, Begin, tableVars
  <2>4. ASSUME NEW i \in Sequences, ByCall(k, i) PROVE ByCall(k, i)'
    <3>1. i # 0
      BY DEF Sequences
    <3> QED
      BY <2>2, <2>3, <2>4, <3>1 DEF ByCall, TaskOf
  <2> QED
    BY <1>1, <2>3, <2>4
<1>5. ASSUME NEW c \in Clients, Sample(c)
      PROVE  \E i \in Sequences : owner[i] = k.user /\ ByCall(k, i)'
  <2>1. PICK i \in Sequences, answer \in Outcomes \ {"none"}, orders \in SUBSET OrderNos,
             replayed \in BOOLEAN :
          /\ i = hands[c] /\ Sampled(i, answer, orders, replayed)
          /\ Hears(c, answer, orders, replayed)
    BY <1>5, SampleSamples
  <2>2. /\ samples'[i].answer = answer /\ samples'[i].order = orders
        /\ \A j \in Sequences \ {i} : samples'[j] = samples[j]
    <3>1. /\ samples'[i] = [answer |-> answer, order |-> orders, replayed |-> replayed]
          /\ \A j \in Sequences \ {i} : samples'[j] = samples[j]
      BY <1>0, <2>1, SampledType
    <3> QED
      BY <3>1
  <2>3. /\ UNCHANGED claims
        /\ \A d \in Clients \ {c} : calls'[d] = calls[d] /\ hands'[d] = hands[d]
    BY <1>0, <1>5 DEF Sample, Return, tableVars, TypeOK, ToolTypeOK
  <2>4. phase = "run" /\ i # 0
    BY <1>5 DEF Sample, Sequences
  <2>5. samples[i] = NoSample /\ \A d \in Clients \ {c} : hands[d] # i
    BY <2>1, <2>4 DEF WorkInv
  <2>6. PICK j \in Sequences : owner[j] = k.user /\ ByCall(k, j)
    BY <1>1, <2>3
  <2>7. CASE j # i
    <3>1. samples'[j] = samples[j] /\ \A d \in Clients : hands[d] = j => d # c
      BY <2>1, <2>2, <2>7
    <3> QED
      BY <2>3, <2>6, <3>1 DEF ByCall, TaskOf
  <2>8. CASE j = i
    <3>1. calls[c].answer \in {"created", "replayed", "error"} /\ TaskOf(calls[c]) = k
      BY <2>5, <2>6, <2>8 DEF ByCall, NoSample, Unclear
    <3>2. CASE answer \in Unclear
      BY <2>2, <2>6, <2>8, <3>2 DEF ByCall
    <3>3. CASE answer \in {"created", "replayed"}
      <4>1. orders = {x.order : x \in Existing(calls[c])}
        BY <2>1, <3>3 DEF Hears, Unclear
      <4>2. k \in Existing(calls[c])
        BY <2>3, <3>1 DEF TaskOf, Existing
      <4>3. k.order \in orders
        BY <4>1, <4>2
      <4> QED
        BY <2>2, <2>6, <2>8, <4>3 DEF ByCall
    <3> QED
      BY <2>1, <3>1, <3>2, <3>3 DEF Hears, Unclear
  <2> QED
    BY <2>7, <2>8
<1>6. CASE RunEnds
  BY <1>2, <1>6 DEF RunEnds, vars, tableVars
<1>7. CASE PostAsync \/ Reject
  <2>1. PICK i \in Sequences, answer \in Outcomes, orders \in SUBSET OrderNos, replayed \in BOOLEAN :
          /\ i = fed + 1 /\ fed' = fed + 1
          /\ Sampled(i, answer, orders, replayed) /\ Learns(i, answer, orders, replayed)
    BY <1>7, SentSamples DEF LoadInv
  <2>2. /\ samples'[i] = [answer |-> answer, order |-> orders, replayed |-> replayed]
        /\ \A j \in Sequences \ {i} : samples'[j] = samples[j]
    BY <1>0, <2>1, SampledType
  <2>0. phase = "run"
    BY <1>7 DEF PostAsync, Reject
  <2>9. fed < i
    BY <1>0, <2>1 DEF ToolTypeOK
  <2>3. samples[i] = NoSample
    BY <2>0, <2>9 DEF WorkInv
  <2>4. UNCHANGED <<calls, hands, claims>>
    BY <1>7 DEF PostAsync, Reject, vars, tableVars
  <2>5. ASSUME NEW j \in Sequences, ByCall(k, j) PROVE ByCall(k, j)'
    <3>1. CASE j = i
      BY <2>3, <2>4, <2>5, <3>1 DEF ByCall, NoSample, Unclear, TaskOf
    <3>2. CASE j # i
      BY <2>2, <2>4, <2>5, <3>2 DEF ByCall, TaskOf
    <3> QED
      BY <3>1, <3>2
  <2> QED
    BY <1>1, <2>4, <2>5
<1>8. CASE Drain
  BY <1>8 DEF Drain, SendPoll, ReadOrder, ReadProjection, PollFails, NextRound, LoadInv, PollInv, NoPoll
<1>9. CASE Beside
  <2>1. UNCHANGED <<samples, hands>>
    BY <1>9, BesideEffect DEF toolVars
  <2>2. ASSUME NEW c \in Clients, Purchasing(c) \/ Abort(c)
        PROVE  \E i \in Sequences : owner[i] = k.user /\ ByCall(k, i)'
    <3>1. calls[c].step \notin {"idle", "done"}
      BY <2>2, PurchaseMoves
    <3>2. PICK r \in Call : Moves(c, r)
      BY <2>2, PurchaseMoves
    <3>3. calls'[c] = r /\ \A d \in Clients \ {c} : calls'[d] = calls[d]
      BY <1>0, <3>2 DEF Moves, TypeOK
    <3>4. calls[c].answer = "none"
      BY <3>1 DEF ServedInv
    <3>5. CASE k \in claims
      <4>1. \A i \in Sequences : ByCall(k, i) => ByCall(k, i)'
        BY <2>1, <3>3, <3>4 DEF ByCall, TaskOf
      <4> QED
        BY <1>1, <3>5, <4>1
    <3>6. CASE k \notin claims
      <4>1. /\ k = TaskOf(r) /\ r.answer \in {"created", "replayed", "error"}
            /\ r.user = calls[c].user
        BY <3>2, <3>6 DEF Moves
      <4>2. PICK i \in Sequences : i = hands[c] /\ calls[c].user = owner[i]
        BY <3>1 DEF HandInv
      <4>3. k.user = owner[i]
        BY <4>1, <4>2 DEF TaskOf
      <4>4. ByCall(k, i)'
        BY <2>1, <3>3, <4>1, <4>2 DEF ByCall, TaskOf
      <4> QED
        BY <4>3, <4>4
    <3> QED
      BY <3>5, <3>6
  <2>3. ASSUME NEW c \in Clients, NEW t \in stream, ProcessStreamTask(c, t) PROVE FALSE
    BY <2>3 DEF ProcessStreamTask
  <2> QED
    BY <1>2, <1>9, <2>1, <2>2, <2>3, BesideEffect
<1>10. CASE OtherClients
  BY <1>10 DEF OtherClients
<1>11. CASE CollectBackendState \/ UNCHANGED loadVars
  BY <1>2, <1>11 DEF CollectBackendState, loadVars, toolVars, vars, tableVars
<1> QED
  BY <1>3, <1>4, <1>5, <1>6, <1>7, <1>8, <1>9, <1>10, <1>11 DEF LoadNext, Run

-----------------------------------------------------------------------------
(* The invariant. *)

LEMMA ReportInit == LoadInit => ReportInv
<1> SUFFICES ASSUME LoadInit PROVE ReportInv
  OBVIOUS
<1>1. /\ LoadInv /\ claims = {} /\ owners = {} /\ phase \in {"setup", "off"}
      /\ samples = [i \in Sequences |-> NoSample] /\ status = [o \in OrderNos |-> "NONE"]
      /\ \A c \in Clients : calls[c] = NoCall
  BY LoadInvInit DEF LoadInit, Init, GateInit
<1>2. NoCall.answer = "none" /\ NoCall.step = "idle"
  BY DEF NoCall
<1>3. ServedInv /\ IndexedInv
  BY <1>1, <1>2 DEF ServedInv, IndexedInv, Active
<1>4. WorkInv /\ HandInv
  BY <1>1, <1>2 DEF WorkInv, HandInv
<1>5. ToldInv
  <2>1. New = {}
    BY <1>1 DEF New, NoSample, Accepted
  <2> QED
    BY <1>1, <1>2, <2>1 DEF ToldInv, Honest, NoSample, Accepted
<1>6. ExplainedInv
  BY <1>1 DEF ExplainedInv
<1> QED
  BY <1>1, <1>3, <1>4, <1>5, <1>6 DEF ReportInv

LEMMA ReportStep == ReportInv /\ [LoadNext]_loadVars => ReportInv'
<1> SUFFICES ASSUME ReportInv, [LoadNext]_loadVars PROVE ReportInv'
  OBVIOUS
<1>1. LoadInv /\ ServedInv /\ IndexedInv /\ WorkInv /\ HandInv
  BY DEF ReportInv
<1>2. LoadInv'
  BY <1>1, LoadInvStep
<1>3. ServedInv' /\ IndexedInv'
  BY <1>1, ServedStep, ToolIsClient DEF LoadInv
<1>4. WorkInv' /\ HandInv'
  BY <1>1, WorkStep, HandStep
<1>5. owner' = owner /\ entry' = entry /\ (phase = "off" <=> phase' = "off")
  BY <1>1, SetupStep, StreamStep DEF LoadInv
<1>6. ASSUME phase # "off" PROVE ToldInv' /\ ExplainedInv'
  <2>1. ToldInv'
    BY <1>1, <1>6, ToldStep DEF ReportInv
  <2>2. ExplainedInv
    BY <1>6 DEF ReportInv
  <2>3. ASSUME entry = "stream", NEW t \in owners'
        PROVE  \E i \in Sequences : owner[i] = t.user /\ ByTask(t, i)'
    BY <1>1, <1>6, <2>2, <2>3, TaskExplained
  <2>4. ASSUME entry # "stream", NEW k \in claims'
        PROVE  \E i \in Sequences : owner[i] = k.user /\ ByCall(k, i)'
    BY <1>1, <1>6, <2>2, <2>4, ClaimExplained
  <2> QED
    BY <1>5, <2>1, <2>3, <2>4 DEF ExplainedInv, ByTask, ByCall
<1> QED
  BY <1>2, <1>3, <1>4, <1>5, <1>6 DEF ReportInv

LEMMA ReportInvariant == LoadSpec => []ReportInv
BY ReportInit, ReportStep, PTL DEF LoadSpec

-----------------------------------------------------------------------------
(* The report. *)

(* A counter of the report is a number. *)
LEMMA CountedIsNat == ASSUME NEW A PROVE Counted(A) \in Nat
<1>1. IsFiniteSet(Sequences)
  BY FS_Interval, LoadTestAssumption DEF Sequences
<1>2. IsFiniteSet({i \in Sequences : samples[i].answer \in A})
  BY <1>1, FS_Subset
<1> QED
  BY <1>2, FS_CardinalityType DEF Counted

(* Requests are counted by outcome. *)
LEMMA CountedTwice ==
  ASSUME NEW A, NEW B, A \cap B = {}
  PROVE  /\ Counted(A) \in Nat /\ Counted(B) \in Nat
         /\ Counted(A \cup B) = Counted(A) + Counted(B)
<1> DEFINE S == {i \in Sequences : samples[i].answer \in A}
           T == {i \in Sequences : samples[i].answer \in B}
           U == {i \in Sequences : samples[i].answer \in A \cup B}
<1>1. IsFiniteSet(Sequences)
  BY FS_Interval, LoadTestAssumption DEF Sequences
<1>2. IsFiniteSet(S) /\ IsFiniteSet(T)
  BY <1>1, FS_Subset
<1>3. U = S \cup T /\ S \cap T = {}
  OBVIOUS
<1>4. Cardinality(S) \in Nat /\ Cardinality(T) \in Nat
  BY <1>2, FS_CardinalityType
<1>5. Cardinality(U) = Cardinality(S) + Cardinality(T)
  <2>1. Cardinality(S \cup T) = Cardinality(S) + Cardinality(T) - Cardinality(S \cap T)
    BY <1>2, FS_Union
  <2>2. Cardinality(S \cap T) = 0
    BY <1>3, FS_EmptySet
  <2>3. U = S \cup T
    BY <1>3
  <2> HIDE DEF S, T, U
  <2> QED
    BY <1>4, <2>1, <2>2, <2>3
<1> QED
  BY <1>4, <1>5 DEF Counted

(* The report accounts for the requests and for the tables whatever was lost, *)
(* replayed, overtaken, rejected or left to the Stream: every request is under *)
(* one case of the switch, the accepted ones that are no replay have different *)
(* orders apart from answers that could not be read, every number told is its  *)
(* user's and every order told is in the tables, and every order in the tables *)
(* has a request that was told of it or has no clear outcome.                  *)
THEOREM ReportIsTrue == LoadSpec => []ReportAccounts
<1>1. ASSUME ReportInv, phase = "report" PROVE ReportAccounts
  <2>0. /\ ToolTypeOK /\ ToldInv /\ ExplainedInv /\ WorkInv /\ HandInv /\ ServedInv /\ IndexedInv
        /\ TypeOK /\ SampleInv
    BY <1>1 DEF ReportInv, LoadInv, PurchaseInv
  <2>1. Final.Succeeded + Final.Failed + Final.Pending + Counted({"unread_202"}) = Report.Queued
    <3>1. /\ Counted({"SUCCEEDED"}) \in Nat /\ Counted({"FAILED"}) \in Nat
          /\ Counted({"QUEUED"}) \in Nat
          /\ Counted({"SUCCEEDED", "FAILED"}) = Counted({"SUCCEEDED"}) + Counted({"FAILED"})
      <4>1. {"SUCCEEDED"} \cup {"FAILED"} = {"SUCCEEDED", "FAILED"}
        OBVIOUS
      <4> QED
        BY <4>1, CountedTwice
    <3>2. Counted(Accepted) = Counted({"SUCCEEDED", "FAILED"}) + Counted({"QUEUED"})
      <4>1. {"SUCCEEDED", "FAILED"} \cup {"QUEUED"} = Accepted
        BY DEF Accepted
      <4> QED
        BY <4>1, CountedTwice
    <3>4. Accepted \cap {"unread_202"} = {}
      BY DEF Accepted
    <3>5. Counted(Accepted \cup {"unread_202"}) = Counted(Accepted) + Counted({"unread_202"})
          /\ Counted({"unread_202"}) \in Nat
      BY <3>4, CountedTwice
    <3> QED
      BY <3>1, <3>2, <3>5 DEF Final, Report
  <2>2. Report.NetworkError + Report.HTTP200 + Report.HTTP202 + Report.OutOfStock
          + Report.Unavailable + Report.InventoryBusy + Report.CacheNotReady
          + Report.TemporaryUnavailable + Report.ServerTimeout + Report.ServerRejected
          + Report.OtherError = Requests
    <3> DEFINE A1 == {"lost"}
               A2 == {"lost", "created", "replayed", "unread_200"}
               A3 == {"lost", "created", "replayed", "unread_200", "QUEUED", "SUCCEEDED",
                      "FAILED", "unread_202"}
               A4 == {"lost", "created", "replayed", "unread_200", "QUEUED", "SUCCEEDED",
                      "FAILED", "unread_202", "sold_out"}
               A5 == {"lost", "created", "replayed", "unread_200", "QUEUED", "SUCCEEDED",
                      "FAILED", "unread_202", "sold_out", "unavailable"}
               A6 == {"lost", "created", "replayed", "unread_200", "QUEUED", "SUCCEEDED",
                      "FAILED", "unread_202", "sold_out", "unavailable", "busy"}
               A7 == {"lost", "created", "replayed", "unread_200", "QUEUED", "SUCCEEDED",
                      "FAILED", "unread_202", "sold_out", "unavailable", "busy",
                      "not_ready"}
               A8 == {"lost", "created", "replayed", "unread_200", "QUEUED", "SUCCEEDED",
                      "FAILED", "unread_202", "sold_out", "unavailable", "busy",
                      "not_ready", "temporary"}
               A9 == {"lost", "created", "replayed", "unread_200", "QUEUED", "SUCCEEDED",
                      "FAILED", "unread_202", "sold_out", "unavailable", "busy",
                      "not_ready", "temporary", "timeout"}
               A10 == {"lost", "created", "replayed", "unread_200", "QUEUED", "SUCCEEDED",
                       "FAILED", "unread_202", "sold_out", "unavailable", "busy",
                       "not_ready", "temporary", "timeout", "rejected"}
               A11 == {"lost", "created", "replayed", "unread_200", "QUEUED", "SUCCEEDED",
                       "FAILED", "unread_202", "sold_out", "unavailable", "busy",
                       "not_ready", "temporary", "timeout", "rejected", "error"}
    <3>1. /\ A2 = A1 \cup {"created", "replayed", "unread_200"}
          /\ A1 \cap {"created", "replayed", "unread_200"} = {}
          /\ A3 = A2 \cup {"QUEUED", "SUCCEEDED", "FAILED", "unread_202"}
          /\ A2 \cap {"QUEUED", "SUCCEEDED", "FAILED", "unread_202"} = {}
          /\ A4 = A3 \cup {"sold_out"}
          /\ A3 \cap {"sold_out"} = {}
          /\ A5 = A4 \cup {"unavailable"}
          /\ A4 \cap {"unavailable"} = {}
          /\ A6 = A5 \cup {"busy"}
          /\ A5 \cap {"busy"} = {}
          /\ A7 = A6 \cup {"not_ready"}
          /\ A6 \cap {"not_ready"} = {}
          /\ A8 = A7 \cup {"temporary"}
          /\ A7 \cap {"temporary"} = {}
          /\ A9 = A8 \cup {"timeout"}
          /\ A8 \cap {"timeout"} = {}
          /\ A10 = A9 \cup {"rejected"}
          /\ A9 \cap {"rejected"} = {}
          /\ A11 = A10 \cup {"error"}
          /\ A10 \cap {"error"} = {}
      OBVIOUS
    <3>2. Counted(A11) = Requests
      <4>1. ASSUME NEW i \in Sequences PROVE samples[i].answer \in A11
        <5>1. samples[i].answer \in Outcomes
          BY <2>0 DEF ToolTypeOK, SampleOf
        <5>2. samples[i].answer # "none"
          BY <1>1, <2>0 DEF WorkInv
        <5> QED
          BY <5>1, <5>2 DEF Outcomes, Answers
      <4>2. {i \in Sequences : samples[i].answer \in A11} = 1 .. Requests
        BY <4>1 DEF Sequences
      <4>3. Cardinality(1 .. Requests) = Requests
        BY FS_Interval, LoadTestAssumption
      <4> QED
        BY <4>2, <4>3 DEF Counted
    <3> HIDE DEF A1, A2, A3, A4, A5, A6, A7, A8, A9, A10, A11
    <3>3. /\ Counted(A2) = Counted(A1) + Counted({"created", "replayed", "unread_200"})
          /\ Counted(A3) = Counted(A2) + Counted({"QUEUED", "SUCCEEDED", "FAILED", "unread_202"})
          /\ Counted(A4) = Counted(A3) + Counted({"sold_out"})
          /\ Counted(A5) = Counted(A4) + Counted({"unavailable"})
          /\ Counted(A6) = Counted(A5) + Counted({"busy"})
          /\ Counted(A7) = Counted(A6) + Counted({"not_ready"})
          /\ Counted(A8) = Counted(A7) + Counted({"temporary"})
          /\ Counted(A9) = Counted(A8) + Counted({"timeout"})
          /\ Counted(A10) = Counted(A9) + Counted({"rejected"})
          /\ Counted(A11) = Counted(A10) + Counted({"error"})
      BY <3>1, CountedTwice
    <3>4. /\ Counted(A1) \in Nat
          /\ Counted({"created", "replayed", "unread_200"}) \in Nat
          /\ Counted({"QUEUED", "SUCCEEDED", "FAILED", "unread_202"}) \in Nat
          /\ Counted({"sold_out"}) \in Nat
          /\ Counted({"unavailable"}) \in Nat
          /\ Counted({"busy"}) \in Nat
          /\ Counted({"not_ready"}) \in Nat
          /\ Counted({"temporary"}) \in Nat
          /\ Counted({"timeout"}) \in Nat
          /\ Counted({"rejected"}) \in Nat
          /\ Counted({"error"}) \in Nat
      BY CountedIsNat
    <3>5. Counted(A1) = Counted({"lost"})
      BY DEF A1
    <3>6. Accepted \cup {"unread_202"} = {"QUEUED", "SUCCEEDED", "FAILED", "unread_202"}
      BY DEF Accepted
    <3> QED
      BY <3>2, <3>3, <3>4, <3>5, <3>6 DEF Report
  <2>3. ASSUME NEW i \in Sequences, NEW o \in OrderNos, o \in samples[i].order
        PROVE  [order |-> o, user |-> owner[i]] \in
                 IF samples[i].answer \in {"QUEUED", "FAILED"} THEN owners ELSE claims
    <3>1. CASE samples[i].answer \in {"QUEUED", "FAILED"}
      <4>1. entry = "stream"
        BY <2>0, <3>1 DEF ToldInv, Honest, Accepted
      <4> QED
        BY <1>1, <2>0, <2>3, <3>1, <4>1 DEF SampleInv
    <3>2. CASE samples[i].answer \notin {"QUEUED", "FAILED"}
      BY <2>0, <2>3, <3>2 DEF ToldInv, Honest
    <3> QED
      BY <3>1, <3>2
  <2>4. Report.HTTP200 + Report.HTTP202 - Report.Replayed =
          Cardinality({samples[i].order : i \in New}) + Counted({"unread_200", "unread_202"})
    <3> DEFINE W == {"created", "replayed"} \cup Accepted
               S == {i \in Sequences : samples[i].answer \in W}
               R == {i \in Sequences : samples[i].replayed}
               T == {samples[i].order : i \in New}
               f == [i \in New |-> samples[i].order]
    <3>1. New \subseteq Sequences /\ R \subseteq Sequences /\ IsFiniteSet(Sequences)
      BY FS_Interval, LoadTestAssumption DEF Sequences, New
    <3>2. IsFiniteSet(New) /\ IsFiniteSet(R)
      BY <3>1, FS_Subset
    <3>3. S = New \cup R /\ New \cap R = {}
      <4>1. ASSUME NEW i \in Sequences
            PROVE  /\ i \in S <=> i \in New \/ i \in R
                   /\ ~(i \in New /\ i \in R)
        <5>1. Honest(i) /\ samples[i].replayed \in BOOLEAN
          BY <2>0 DEF ToldInv, ToolTypeOK, SampleOf
        <5> QED
          BY <5>1 DEF Honest, New
      <4> QED
        BY <3>1, <4>1
    <3>4. ExistsBijection(New, T)
      <4>1. f \in [New -> T] /\ \A t \in T : \E i \in New : f[i] = t
        OBVIOUS
      <4>2. \A i, j \in New : f[i] = f[j] => i = j
        BY <2>0 DEF ToldInv
      <4> HIDE DEF T, f
      <4>3. f \in Bijection(New, T)
        BY <4>1, <4>2 DEF Bijection, Injection, IsInjective, Surjection
      <4> QED
        BY <4>3 DEF ExistsBijection
    <3>5. /\ Counted(W) = Cardinality(S) /\ Report.Replayed = Cardinality(R)
          /\ {samples[i].order : i \in New} = T
      BY DEF Counted, Report
    <3>6. Cardinality(New) = Cardinality(T)
      <4> HIDE DEF T
      <4> QED
        BY <3>2, <3>4, FS_Bijection
    <3>7. /\ Cardinality(New) \in Nat /\ Cardinality(R) \in Nat
          /\ Cardinality(S) = Cardinality(New) + Cardinality(R)
      <4> HIDE DEF S, R
      <4>1. Cardinality(New) \in Nat /\ Cardinality(R) \in Nat
        BY <3>2, FS_CardinalityType
      <4>2. Cardinality(New \cup R) = Cardinality(New) + Cardinality(R) - Cardinality(New \cap R)
        BY <3>2, FS_Union
      <4>3. Cardinality(New \cap R) = 0
        BY <3>3, FS_EmptySet
      <4> QED
        BY <3>3, <4>1, <4>2, <4>3
    <3>8. /\ Report.HTTP200 \in Nat /\ Report.HTTP202 \in Nat
          /\ Counted({"unread_200", "unread_202"}) \in Nat
          /\ Report.HTTP200 + Report.HTTP202 = Counted(W) + Counted({"unread_200", "unread_202"})
      <4> DEFINE H == {"created", "replayed", "unread_200"}
                 Q == Accepted \cup {"unread_202"}
                 N == {"unread_200", "unread_202"}
      <4>1. H \cap Q = {} /\ W \cap N = {} /\ H \cup Q = W \cup N
        BY DEF Accepted
      <4>2. Report.HTTP200 = Counted(H) /\ Report.HTTP202 = Counted(Q)
        BY DEF Report
      <4> HIDE DEF H, Q, N, W
      <4>3. /\ Counted(H) \in Nat /\ Counted(Q) \in Nat /\ Counted(N) \in Nat
            /\ Counted(H \cup Q) = Counted(H) + Counted(Q)
            /\ Counted(W \cup N) = Counted(W) + Counted(N)
        BY <4>1, CountedTwice
      <4>4. N = {"unread_200", "unread_202"}
        BY DEF N
      <4> QED
        BY <4>1, <4>2, <4>3, <4>4
    <3>9. Report.HTTP200 + Report.HTTP202 - Report.Replayed =
            Cardinality(T) + Counted({"unread_200", "unread_202"})
      <4>1. Counted(W) = Cardinality(S) /\ Report.Replayed = Cardinality(R)
        BY <3>5
      <4> HIDE DEF W, S, R, T, f
      <4> QED
        BY <3>6, <3>7, <3>8, <4>1
    <3> QED
      BY <3>9
  <2>5. ASSUME NEW k \in claims
        PROVE  \E i \in Sequences :
                 owner[i] = k.user /\ (k.order \in samples[i].order \/ samples[i].answer \in Unclear)
    <3>1. CASE entry = "stream"
      BY <2>0, <2>5, <3>1 DEF IndexedInv, ExplainedInv, ByTask
    <3>2. CASE entry # "stream"
      <4>1. \A c \in Clients : calls[c].answer = "none"
        BY <1>1, <2>0, <3>2 DEF HandInv, ServedInv
      <4>2. PICK i \in Sequences : owner[i] = k.user /\ ByCall(k, i)
        BY <2>0, <2>5, <3>2 DEF ExplainedInv
      <4> QED
        BY <4>1, <4>2 DEF ByCall
    <3> QED
      BY <3>1, <3>2
  <2> QED
    BY <2>1, <2>2, <2>3, <2>4, <2>5 DEF ReportAccounts, Unclear
<1>2. ReportInv => ReportAccounts
  BY <1>1 DEF ReportAccounts
<1> QED
  BY <1>2, ReportInvariant, PTL
=============================================================================
