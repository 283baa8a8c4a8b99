--------------------------- MODULE LoadTestProofs ---------------------------
(***************************************************************************)
(* The load test and v03check as clients of the purchase, for any number   *)
(* of requests. The tool only does what clients can do, so everything that *)
(* is proved of the purchase holds under it. What its result queries say   *)
(* rests on whose order numbers it was given, and what the comparison of   *)
(* the two stores says on what the invariant of the purchase knows of both.*)
(***************************************************************************)
EXTENDS LoadTest, PurchaseProofs

(* The preparation is over before the activity begins. *)
SetupInv ==
  /\ phase = "setup" => clock = "upcoming"
  /\ phase # "off" => owner \in [Sequences -> Users]

(* A purchase that comes through the Stream does not pass the gate again, and *)
(* the results hash knows every buyer.                                        *)
GateKnows ==
  /\ \A c \in Clients : calls[c].step # "admit"
  /\ buyers \subseteq owners

(* No worker of the tool waits for such a purchase. *)
StreamInv ==
  entry = "stream" =>
    /\ phase = "run" => \A c \in Clients : hands[c] = 0
    /\ GateKnows

(* A request that was queued has one order number, and it is its user's. *)
SampleInv ==
  entry = "stream" /\ phase # "off" =>
    \A i \in Sequences :
      /\ samples[i].answer = "QUEUED" => \E o \in OrderNos : samples[i].order = {o}
      /\ \A o \in samples[i].order : [order |-> o, user |-> owner[i]] \in owners

(* What is polled was given to a request, and is known only if it is sold to  *)
(* the user of every request that asks for it.                                *)
PollInv ==
  /\ phase = "drain" => entry = "stream"
  /\ phase = "drain" => \A o \in round : \E i \in Sequences : samples[i].order = {o}
  /\ phase # "drain" \/ poll.step = "idle" => poll = NoPoll
  /\ poll.step # "idle" => \E i \in Sequences : samples[i].order = poll.order
  /\ poll.known =>
       /\ poll.step = "order"
       /\ \A i \in Sequences : samples[i].order = poll.order =>
            \A o \in poll.order : [order |-> o, user |-> owner[i]] \in claims

(* The stock and the claims of a comparison were read together. *)
ProbeInv ==
  probe.step # "idle" =>
    /\ probe.available + probe.claimed = InitialStock
    /\ probe.claimed <= version

LoadInv ==
  /\ PurchaseInv
  /\ ToolTypeOK
  /\ probe \in Probe
  /\ SetupInv
  /\ StreamInv
  /\ SampleInv
  /\ PollInv
  /\ ProbeInv

-----------------------------------------------------------------------------
(* The tool and the purchase. *)

(* What no step of the purchase takes back. *)
LEMMA PurchaseGrows ==
  ASSUME PurchaseInv, [Next]_vars
  PROVE  /\ entry' = entry /\ owners \subseteq owners' /\ claims \subseteq claims'
         /\ version <= version'
<1>0. version \in Nat
  BY DEF PurchaseInv, TypeOK
<1> USE DEF gateVars, adminVars, configVars, tableVars
<1>1. CASE Enter
  BY <1>0, <1>1 DEF Enter, Begin, EnqueueStream, ReserveAndEnqueue, ProcessStreamTask
<1>2. ASSUME NEW c \in Clients, Purchasing(c) \/ Abort(c) \/ Return(c)
      PROVE  /\ entry' = entry /\ owners \subseteq owners' /\ claims \subseteq claims'
             /\ version <= version'
  <2>1. CASE Admit(c) \/ Find(c) \/ Load(c) \/ DecrementStock(c) \/ Retry(c) \/ ReadWinner(c)
    BY <1>0, <2>1 DEF Admit, Find, Load, DecrementStock, Retry, ReadWinner
  <2>2. CASE Insert(c)
    BY <1>0, <2>2 DEF Insert, Commits
  <2>3. CASE Abort(c) \/ Return(c)
    BY <1>0, <2>3 DEF Abort, Return
  <2> QED
    BY <1>2, <2>1, <2>2, <2>3 DEF Purchasing
<1>3. CASE Admin
  <2>1. UNCHANGED owners
    BY <1>3
    DEF Admin, SetActivityStatus, CachedAdmin, Tick, BeginDisable, FinishEnable, LoadPreheatSnapshot,
        BeginPreheat, PublishActivity, Publish, FinishDisable, BeginEnable, DropSnapshot,
        AdminCallFails, SnapshotExpires
  <2> QED
    BY <1>0, <1>3, <2>1 DEF Admin
<1>4. CASE SetProductStatus \/ UNCHANGED vars
  BY <1>0, <1>4 DEF SetProductStatus, vars
<1> QED
  BY <1>1, <1>2, <1>3, <1>4 DEF Next

(* The Stream's way in keeps to itself. *)
LEMMA StreamGrows ==
  ASSUME PurchaseInv, entry = "stream", GateKnows, [Next]_vars
  PROVE  GateKnows'
<1>0. TypeOK /\ owners \subseteq owners'
  BY PurchaseGrows DEF PurchaseInv
<1>1. ASSUME NEW c \in Clients, NEW r, calls' = [calls EXCEPT ![c] = r], r.step # "admit"
      PROVE  \A d \in Clients : calls'[d].step # "admit"
  BY <1>0, <1>1 DEF GateKnows, TypeOK
<1>2. UNCHANGED calls => \A d \in Clients : calls'[d].step # "admit"
  BY DEF GateKnows
<1>3. ASSUME NEW c \in Clients, calls[c].step # "idle", NEW step \in Steps \ {"admit"}, Go(c, step)
      PROVE  \A d \in Clients : calls'[d].step # "admit"
  BY <1>0, <1>1, <1>3, GoEffect
<1>4. ASSUME NEW c \in Clients, calls[c].step # "idle", NEW answer \in Answers, Answer(c, answer)
      PROVE  \A d \in Clients : calls'[d].step # "admit"
  BY <1>0, <1>1, <1>4, AnswerEffect
<1>5. CASE Enter
  <2>1. ASSUME NEW c \in Clients, NEW u \in Users, NEW o \in OrderNos, Begin(c, u, o)
        PROVE  GateKnows'
    BY <2>1 DEF Begin
  <2>2. ASSUME NEW u \in Users, NEW o \in OrderNos, EnqueueStream(u, o)
        PROVE  GateKnows'
    BY <1>2, <2>2 DEF EnqueueStream, ReserveAndEnqueue, GateKnows
  <2>3. ASSUME NEW c \in Clients, NEW t \in stream, ProcessStreamTask(c, t)
        PROVE  GateKnows'
    <3>1. NewCall(t.user, t.order, "open", "find").step # "admit"
      BY DEF NewCall
    <3>2. \A d \in Clients : calls'[d].step # "admit"
      BY <1>1, <2>3, <3>1 DEF ProcessStreamTask
    <3> QED
      BY <2>3, <3>2 DEF ProcessStreamTask, GateKnows, gateVars
  <2> QED
    BY <1>5, <2>1, <2>2, <2>3 DEF Enter
<1>6. ASSUME NEW c \in Clients, Purchasing(c) \/ Abort(c) \/ Return(c)
      PROVE  GateKnows'
  <2>0. ~Admit(c)
    BY DEF Admit, GateKnows
  <2>1. UNCHANGED <<buyers, owners>>
    BY <1>6, <2>0
    DEF Purchasing, Find, Load, DecrementStock, Retry, ReadWinner, Insert, Abort, Return, gateVars
  <2>2. \A d \in Clients : calls'[d].step # "admit"
    <3>1. CASE Find(c) \/ ReadWinner(c)
      BY <1>3, <1>4, <3>1 DEF Find, ReadWinner, Steps, Answers
    <3>2. CASE Load(c)
      <4>1. calls[c] \in Call /\ calls[c].step # "idle"
        BY <1>0, <3>2, CallType DEF Load
      <4>2. CASE Answer(c, "unavailable")
        BY <1>4, <4>1, <4>2 DEF Answers
      <4>3. CASE calls' = [calls EXCEPT ![c].step = "update",
                                        ![c].stock = available, ![c].version = version]
        BY <1>0, <4>1, <4>3 DEF TypeOK, GateKnows, Call
      <4> QED
        BY <3>2, <4>2, <4>3 DEF Load
    <3>3. CASE DecrementStock(c)
      <4>1. calls[c].step # "idle"
        BY <3>3 DEF DecrementStock
      <4>2. Go(c, "insert") \/ Go(c, "backoff") \/ Answer(c, "busy") \/ Answer(c, "sold_out")
        BY <3>3 DEF DecrementStock
      <4> QED
        BY <1>3, <1>4, <4>1, <4>2 DEF Steps, Answers
    <3>4. CASE Retry(c)
      <4>1. calls[c] \in Call
        BY <1>0, <3>4, CallType DEF Retry
      <4> QED
        BY <1>0, <3>4, <4>1 DEF Retry, TypeOK, GateKnows, Call
    <3>5. CASE Insert(c)
      <4>1. PICK answer \in {"created", "replayed"} : answer = Success(calls[c])
        BY DEF Success
      <4>2. calls[c].step # "idle" /\ (Go(c, "winner") \/ Answer(c, answer) \/ Answer(c, "error"))
        BY <3>5, <4>1 DEF Insert
      <4> QED
        BY <1>3, <1>4, <4>2 DEF Steps, Answers
    <3>6. CASE Abort(c)
      BY <1>4, <3>6 DEF Abort, Answers
    <3>7. CASE Return(c)
      <4>1. calls' = [calls EXCEPT ![c] = NoCall] /\ NoCall.step # "admit"
        BY <3>7 DEF Return, NoCall
      <4> QED
        BY <1>0, <4>1 DEF TypeOK, GateKnows
    <3> QED
      BY <1>6, <2>0, <3>1, <3>2, <3>3, <3>4, <3>5, <3>6, <3>7 DEF Purchasing
  <2> QED
    BY <2>1, <2>2 DEF GateKnows
<1>7. CASE Admin \/ SetProductStatus \/ UNCHANGED vars
  <2>1. UNCHANGED <<calls, owners>> /\ (UNCHANGED buyers \/ buyers' = {})
    BY <1>7
    DEF Admin, SetActivityStatus, CachedAdmin, Tick, BeginDisable, FinishEnable, LoadPreheatSnapshot,
        BeginPreheat, PublishActivity, Publish, FinishDisable, BeginEnable, DropSnapshot,
        AdminCallFails, SnapshotExpires, SetProductStatus, vars, gateVars
  <2> QED
    BY <2>1 DEF GateKnows
<1> QED
  BY <1>5, <1>6, <1>7 DEF Next

(* Every step of the load test, of v03check and of what goes on beside them   *)
(* is a step of the purchase or leaves it alone.                              *)
LEMMA ToolIsClient ==
  ASSUME ToolTypeOK, SetupInv, [LoadNext]_loadVars
  PROVE  [Next]_vars
<1>1. CASE CreateSeckillItem
  <2>1. UNCHANGED <<configVars, tableVars, lock, calls>>
    BY <1>1 DEF CreateSeckillItem
  <2>2. CASE entry = "direct" /\ clock' = "open" /\ UNCHANGED <<enabled, inFlight, snapshot, gateVars>>
    <3>1. Tick
      BY <1>1, <2>2 DEF CreateSeckillItem, SetupInv, Tick
    <3> QED
      BY <2>1, <3>1 DEF Next, Admin
  <2>3. CASE entry # "direct" /\ (LoadPreheatSnapshot \/ PublishActivity)
    BY <2>1, <2>3 DEF Next, Admin, CachedAdmin
  <2> QED
    BY <1>1, <2>2, <2>3 DEF CreateSeckillItem
<1>2. CASE SetupFails \/ PrepareUsersEnds \/ AwaitStart
  BY <1>2 DEF SetupFails, PrepareUsersEnds, AwaitStart
<1>3. ASSUME NEW c \in Clients, TakeUser(c) \/ RegisterAndLogin(c) \/ WorkerEnds(c)
      PROVE  [Next]_vars
  BY <1>3 DEF TakeUser, RegisterAndLogin, WorkerEnds
<1>4. ASSUME phase = "run", fed < Requests PROVE owner[fed + 1] \in Users
  BY <1>4, LoadTestAssumption DEF ToolTypeOK, SetupInv, Sequences
<1>5. CASE PostAsync \/ Reject \/ RunEnds
  <2>1. PostAsync => UNCHANGED vars \/ \E o \in OrderNos : EnqueueStream(owner[fed + 1], o)
    BY DEF PostAsync
  <2>2. PostAsync => phase = "run" /\ fed < Requests
    BY DEF PostAsync
  <2> QED
    BY <1>4, <1>5, <2>1, <2>2 DEF Reject, RunEnds, Next, Enter
<1>6. ASSUME NEW c \in Clients, Post(c) \/ Sample(c)
      PROVE  [Next]_vars
  BY <1>4, <1>6 DEF Post, Sample, Next, Enter
<1>7. CASE Drain
  BY <1>7 DEF Drain, SendPoll, ReadOrder, ReadProjection, PollFails, NextRound
<1>8. CASE Beside
  BY <1>8 DEF Beside, Next, Enter, Admin
<1>9. CASE OtherClients \/ CollectBackendState \/ UNCHANGED loadVars
  BY <1>9 DEF OtherClients, CollectBackendState, loadVars
<1> QED
  BY <1>1, <1>2, <1>3, <1>5, <1>6, <1>7, <1>8, <1>9 DEF LoadNext, Prepare, Run

(* Where the tool stands, and what it never changes. *)
LEMMA SetupStep ==
  ASSUME ToolTypeOK, SetupInv, [LoadNext]_loadVars
  PROVE  SetupInv' /\ owner' = owner /\ (phase = "off" <=> phase' = "off")
<1>1. owner' = owner
  BY DEF LoadNext, Prepare, Run, Drain, Beside, OtherClients, CollectBackendState, loadVars, toolVars,
         CreateSeckillItem, SetupFails, PrepareUsersEnds, AwaitStart, TakeUser, RegisterAndLogin,
         WorkerEnds, PostAsync, Reject, RunEnds, Post, Sample, SendPoll, ReadOrder, ReadProjection,
         PollFails, NextRound
<1>2. phase = "off" <=> phase' = "off"
  BY DEF LoadNext, Prepare, Run, Drain, Beside, OtherClients, CollectBackendState, loadVars, toolVars,
         CreateSeckillItem, SetupFails, PrepareUsersEnds, AwaitStart, TakeUser, RegisterAndLogin,
         WorkerEnds, PostAsync, Reject, RunEnds, Post, Sample, SendPoll, ReadOrder, ReadProjection,
         PollFails, NextRound
<1>3. phase' = "setup" => phase = "setup" /\ clock' = clock
  <2>1. CASE CreateSeckillItem
    BY <2>1
    DEF CreateSeckillItem, LoadPreheatSnapshot, BeginPreheat, PublishActivity
  <2>2. CASE CollectBackendState \/ UNCHANGED loadVars
    BY <2>2 DEF CollectBackendState, loadVars, toolVars, vars, adminVars
  <2>3. CASE Run
    BY <2>3 DEF Run, PostAsync, Reject, RunEnds, Post, Sample
  <2>4. CASE Drain
    <3>1. UNCHANGED vars /\ (phase' = phase \/ phase' = "report")
      BY <2>4 DEF Drain, SendPoll, ReadOrder, ReadProjection, PollFails, NextRound
    <3> QED
      BY <3>1 DEF vars, adminVars
  <2>5. CASE Beside \/ OtherClients
    BY <2>5 DEF Beside, OtherClients, toolVars
  <2>6. CASE Prepare /\ ~CreateSeckillItem
    BY <2>6
    DEF Prepare, SetupFails, PrepareUsersEnds, AwaitStart, TakeUser, RegisterAndLogin, WorkerEnds
  <2> QED
    BY <2>1, <2>2, <2>3, <2>4, <2>5, <2>6 DEF LoadNext
<1> QED
  BY <1>1, <1>2, <1>3 DEF SetupInv

(* The tool starts with nothing. *)
LEMMA LoadInvInit == LoadInit => LoadInv
<1> SUFFICES ASSUME LoadInit PROVE LoadInv
  OBVIOUS
<1>1. PurchaseInv
  BY PurchaseInit DEF LoadInit
<1>2. /\ samples = [i \in Sequences |-> NoSample] /\ poll = NoPoll /\ probe = NoProbe /\ round = {}
      /\ phase \in {"setup", "off"} /\ (phase = "setup" => owner \in [Sequences -> Users])
      /\ hands = [c \in Clients |-> 0] /\ fed = 0 /\ tokens = {} /\ failed = FALSE
      /\ owner \in [Sequences -> Users] \cup {<<>>}
  BY DEF LoadInit
<1>3. NoSample \in SampleOf
  BY DEF NoSample, SampleOf, Outcomes, Answers
<1>4. NoPoll \in [step : {"idle", "order", "projection"}, order : SUBSET OrderNos, known : BOOLEAN]
  BY DEF NoPoll
<1>5. 0 \in 0 .. Requests /\ 0 \in 0 .. Gone
  BY LoadTestAssumption DEF Gone
<1>6. ToolTypeOK
  BY <1>2, <1>3, <1>4, <1>5 DEF ToolTypeOK
<1>7. probe \in Probe
  BY <1>2 DEF NoProbe, Probe
<1>8. SetupInv
  BY <1>2 DEF LoadInit, Init, AdminInit, SetupInv
<1>9. StreamInv
  BY <1>2 DEF LoadInit, Init, GateInit, StreamInv, GateKnows, NoCall
<1>10. SampleInv
  BY <1>2 DEF SampleInv, NoSample
<1>11. PollInv
  BY <1>2 DEF PollInv, NoPoll
<1>12. ProbeInv
  BY <1>2 DEF ProbeInv, NoProbe
<1> QED
  BY <1>1, <1>6, <1>7, <1>8, <1>9, <1>10, <1>11, <1>12 DEF LoadInv

(* A sample is an outcome, the order numbers that came with it and whether they *)
(* were the user's before.                                                      *)
LEMMA SampledType ==
  ASSUME ToolTypeOK, NEW i \in Sequences, NEW answer \in Outcomes, NEW orders \in SUBSET OrderNos,
         NEW replayed \in BOOLEAN, Sampled(i, answer, orders, replayed)
  PROVE  /\ samples' \in [Sequences -> SampleOf]
         /\ samples'[i] = [answer |-> answer, order |-> orders, replayed |-> replayed]
         /\ \A j \in Sequences \ {i} : samples'[j] = samples[j]
<1>1. [answer |-> answer, order |-> orders, replayed |-> replayed] \in SampleOf
  BY DEF SampleOf
<1> QED
  BY <1>1 DEF ToolTypeOK, Sampled

(* Telling an outcome leaves the order numbers where they are. *)
LEMMA TellEffect ==
  ASSUME ToolTypeOK, NEW orders, NEW answer \in Outcomes, Tell(orders, answer)
  PROVE  /\ samples' \in [Sequences -> SampleOf]
         /\ \A i \in Sequences :
              /\ samples'[i].order = samples[i].order
              /\ samples'[i].replayed = samples[i].replayed
              /\ \/ samples'[i] = samples[i]
                 \/ samples[i].answer = "QUEUED" /\ samples'[i].answer = answer
<1>1. ASSUME NEW i \in Sequences
      PROVE  /\ samples'[i] \in SampleOf
             /\ samples'[i].order = samples[i].order
             /\ samples'[i].replayed = samples[i].replayed
             /\ \/ samples'[i] = samples[i]
                \/ samples[i].answer = "QUEUED" /\ samples'[i].answer = answer
  <2>1. samples[i] \in SampleOf
    BY DEF ToolTypeOK
  <2>2. \/ samples'[i] = samples[i]
        \/ samples[i].answer = "QUEUED" /\ samples'[i] = [samples[i] EXCEPT !.answer = answer]
    BY DEF Tell
  <2> QED
    BY <2>1, <2>2 DEF SampleOf
<1> QED
  BY <1>1 DEF Tell

(* A user that the script knows is told the one number it has. *)
LEMMA ReplayedBuyer ==
  ASSUME PurchaseInv, NEW u \in Users, NEW now \in Phases, Decision(u, now) = "replayed"
  PROVE  \E b \in buyers :
           /\ b.user = u /\ b.order \in OrderNos /\ b = [order |-> b.order, user |-> u]
           /\ {x.order : x \in {x \in buyers : x.user = u}} = {b.order}
<1>1. PICK b \in buyers : b.user = u
  <2>1. CASE ready /\ \E b \in buyers : b.user = u
    BY <2>1
  <2>2. CASE ~ready
    BY <2>2, DecisionReserved
  <2>3. CASE ready /\ ~ \E b \in buyers : b.user = u
    BY <2>3 DEF Decision
  <2> QED
    BY <2>1, <2>2, <2>3
<1>2. b \in Task /\ \A x \in buyers : x.user = u => x = b
  BY <1>1 DEF PurchaseInv, TypeOK, GateTypeOK, GateInv
<1> QED
  BY <1>1, <1>2 DEF Task

(* What the tool learns without a worker that waits for a purchase: no order    *)
(* number, the one the user had, or a new one, though it may not hear of it.    *)
Quiet == Outcomes \ ({"none", "created", "replayed"} \cup Accepted)

Unclear == {"lost", "timeout", "temporary", "error", "unread_200", "unread_202"}

Learns(i, answer, orders, replayed) ==
  \/ UNCHANGED vars /\ answer \in Quiet /\ orders = {} /\ replayed = FALSE
  \/ /\ UNCHANGED vars /\ answer = "QUEUED" /\ replayed = TRUE
     /\ entry = "stream"
     /\ \E b \in buyers :
          b.order \in OrderNos /\ b = [order |-> b.order, user |-> owner[i]] /\ orders = {b.order}
  \/ \E o \in OrderNos :
       /\ EnqueueStream(owner[i], o) /\ replayed = FALSE
       /\ \/ answer = "QUEUED" /\ orders = {o}
          \/ answer \in Unclear \cap Quiet /\ orders = {}

LEMMA SentSamples ==
  ASSUME ToolTypeOK, SetupInv, PurchaseInv, PostAsync \/ Reject
  PROVE  \E i \in Sequences, answer \in Outcomes, orders \in SUBSET OrderNos, replayed \in BOOLEAN :
           /\ i = fed + 1 /\ fed' = fed + 1
           /\ Sampled(i, answer, orders, replayed) /\ Learns(i, answer, orders, replayed)
<1>0. fed < Requests /\ phase = "run" /\ fed' = fed + 1
  BY DEF PostAsync, Reject
<1>1. PICK i \in Sequences : i = fed + 1
  BY <1>0, LoadTestAssumption DEF ToolTypeOK, Sequences
<1>2. PICK u \in Users : u = owner[i]
  BY <1>0 DEF SetupInv
<1> DEFINE Goal == \E answer \in Outcomes, orders \in SUBSET OrderNos, replayed \in BOOLEAN :
                     Sampled(i, answer, orders, replayed) /\ Learns(i, answer, orders, replayed)
<1> SUFFICES Goal
  BY <1>0, <1>1
<1>3. ASSUME NEW answer \in Quiet, Sampled(i, answer, {}, FALSE), UNCHANGED vars PROVE Goal
  <2>1. answer \in Outcomes /\ {} \in SUBSET OrderNos /\ FALSE \in BOOLEAN
    BY DEF Quiet
  <2>2. Learns(i, answer, {}, FALSE)
    BY <1>3 DEF Learns
  <2> QED
    BY <1>3, <2>1, <2>2
<1>4. {"lost", "timeout", "temporary", "error", "rejected", "unread_202", "not_ready",
       "unavailable", "sold_out"} \subseteq Quiet
  BY DEF Quiet, Outcomes, Answers, Accepted
<1>5. CASE Reject
  <2>1. PICK answer \in {"lost", "rejected"} : Sampled(i, answer, {}, FALSE)
    BY <1>1, <1>5 DEF Reject, Unsure
  <2> QED
    BY <1>3, <1>4, <1>5, <2>1 DEF Reject
<1>6. ASSUME NEW o \in OrderNos, EnqueueStream(u, o),
             \/ Sampled(i, "QUEUED", {o}, FALSE)
             \/ Unsure(i, {"lost", "timeout", "temporary", "error", "unread_202"})
      PROVE  Goal
  <2>1. CASE Sampled(i, "QUEUED", {o}, FALSE)
    <3>1. "QUEUED" \in Outcomes /\ {o} \in SUBSET OrderNos /\ FALSE \in BOOLEAN
      BY DEF Outcomes
    <3>2. Learns(i, "QUEUED", {o}, FALSE)
      BY <1>2, <1>6 DEF Learns
    <3> QED
      BY <2>1, <3>1, <3>2
  <2>2. ASSUME NEW answer \in {"lost", "timeout", "temporary", "error", "unread_202"},
               Sampled(i, answer, {}, FALSE)
        PROVE  Goal
    <3>1. answer \in Outcomes /\ {} \in SUBSET OrderNos /\ FALSE \in BOOLEAN
      BY <1>4 DEF Quiet
    <3>2. answer \in Unclear \cap Quiet
      BY <1>4 DEF Unclear
    <3>3. Learns(i, answer, {}, FALSE)
      BY <1>2, <1>6, <3>2 DEF Learns
    <3> QED
      BY <2>2, <3>1, <3>3
  <2> QED
    BY <1>6, <2>1, <2>2 DEF Unsure
<1>7. ASSUME NEW now \in Phases, Decision(u, now) # "reserved", UNCHANGED vars, entry = "stream",
             IF Decision(u, now) = "replayed"
             THEN \/ Sampled(i, "QUEUED", {b.order : b \in {b \in buyers : b.user = u}}, TRUE)
                  \/ Unsure(i, {"unread_202"})
             ELSE Sampled(i, Decision(u, now), {}, FALSE)
      PROVE  Goal
  <2>1. CASE Decision(u, now) # "replayed"
    <3>1. PICK answer \in Quiet : answer = Decision(u, now)
      BY <1>4, <1>7, <2>1, DecisionReserved
    <3> QED
      BY <1>3, <1>7, <2>1, <3>1
  <2>2. CASE Unsure(i, {"unread_202"})
    BY <1>3, <1>4, <1>7, <2>2 DEF Unsure
  <2>3. CASE /\ Decision(u, now) = "replayed"
             /\ Sampled(i, "QUEUED", {b.order : b \in {b \in buyers : b.user = u}}, TRUE)
    <3>1. PICK b \in buyers :
            /\ b.user = u /\ b.order \in OrderNos /\ b = [order |-> b.order, user |-> u]
            /\ {x.order : x \in {x \in buyers : x.user = u}} = {b.order}
      BY <2>3, ReplayedBuyer
    <3>2. "QUEUED" \in Outcomes /\ {b.order} \in SUBSET OrderNos /\ TRUE \in BOOLEAN
      BY <3>1 DEF Outcomes
    <3>3. Sampled(i, "QUEUED", {b.order}, TRUE)
      BY <2>3, <3>1
    <3>4. Learns(i, "QUEUED", {b.order}, TRUE)
      BY <1>2, <1>7, <3>1 DEF Learns
    <3> QED
      BY <3>2, <3>3, <3>4
  <2> QED
    BY <1>7, <2>1, <2>2, <2>3
<1>8. CASE PostAsync
  <2>1. CASE UNCHANGED vars /\ Unsure(i, {"lost", "timeout", "temporary", "error"})
    BY <1>3, <1>4, <2>1 DEF Unsure
  <2>2. \/ UNCHANGED vars /\ Unsure(i, {"lost", "timeout", "temporary", "error"})
        \/ \E o \in OrderNos :
             /\ EnqueueStream(u, o)
             /\ \/ Sampled(i, "QUEUED", {o}, FALSE)
                \/ Unsure(i, {"lost", "timeout", "temporary", "error"} \cup {"unread_202"})
        \/ \E now \in Phases :
             /\ Decision(u, now) # "reserved"
             /\ IF Decision(u, now) = "replayed"
                THEN \/ Sampled(i, "QUEUED", {b.order : b \in {b \in buyers : b.user = u}}, TRUE)
                     \/ Unsure(i, {"unread_202"})
                ELSE Sampled(i, Decision(u, now), {}, FALSE)
             /\ UNCHANGED vars
    BY <1>1, <1>2, <1>8 DEF PostAsync
  <2>3. {"lost", "timeout", "temporary", "error"} \cup {"unread_202"}
          = {"lost", "timeout", "temporary", "error", "unread_202"}
    OBVIOUS
  <2>4. entry = "stream"
    BY <1>8 DEF PostAsync
  <2> QED
    BY <1>6, <1>7, <2>1, <2>2, <2>3, <2>4
<1> QED
  BY <1>5, <1>8

(* The types of the tool. *)
LEMMA ToolTypeStep ==
  ASSUME LoadInv, [LoadNext]_loadVars
  PROVE  ToolTypeOK'
<1>0. ToolTypeOK /\ TypeOK /\ Requests \in Nat /\ UserCount \in 1 .. Requests
  BY LoadTestAssumption DEF LoadInv, PurchaseInv, UserCount
<1> USE <1>0 DEF Sequences, Gone
<1>1. CASE CreateSeckillItem \/ SetupFails
  BY <1>1 DEF CreateSeckillItem, SetupFails, ToolTypeOK
<1>2. CASE PrepareUsersEnds
  BY <1>2 DEF PrepareUsersEnds, ToolTypeOK
<1>3. CASE AwaitStart
  <2>1. hands' \in [Clients -> 0 .. Gone] /\ fed' \in 0 .. Requests
    BY <1>3 DEF AwaitStart
  <2> QED
    BY <1>3, <2>1 DEF AwaitStart, ToolTypeOK
<1>4. ASSUME NEW c \in Clients, TakeUser(c) PROVE ToolTypeOK'
  <2>1. hands' \in [Clients -> 0 .. Gone] /\ fed' \in 0 .. Requests
    BY <1>4 DEF TakeUser, ToolTypeOK
  <2> QED
    BY <1>4, <2>1 DEF TakeUser, ToolTypeOK
<1>5. ASSUME NEW c \in Clients, RegisterAndLogin(c) PROVE ToolTypeOK'
  <2>1. hands' \in [Clients -> 0 .. Gone]
    BY <1>5 DEF RegisterAndLogin, ToolTypeOK
  <2>2. tokens' \in SUBSET Sequences
    BY <1>5 DEF RegisterAndLogin, ToolTypeOK
  <2>3. failed' \in BOOLEAN
    BY <1>5 DEF RegisterAndLogin, ToolTypeOK
  <2> QED
    BY <1>5, <2>1, <2>2, <2>3 DEF RegisterAndLogin, ToolTypeOK
<1>6. ASSUME NEW c \in Clients, WorkerEnds(c) PROVE ToolTypeOK'
  <2>1. hands' \in [Clients -> 0 .. Gone]
    BY <1>6 DEF WorkerEnds, ToolTypeOK
  <2> QED
    BY <1>6, <2>1 DEF WorkerEnds, ToolTypeOK
<1>7. CASE PostAsync \/ Reject
  <2>1. samples' \in [Sequences -> SampleOf] /\ fed' = fed + 1
    BY <1>7, SentSamples, SampledType DEF LoadInv
  <2>0. fed < Requests
    BY <1>7 DEF PostAsync, Reject
  <2>2. fed' \in 0 .. Requests
    BY <2>0, <2>1 DEF ToolTypeOK
  <2> QED
    BY <1>7, <2>1, <2>2 DEF PostAsync, Reject, ToolTypeOK
<1>8. CASE RunEnds \/ NextRound
  <2>1. Pending \in SUBSET OrderNos
    BY DEF Pending, ToolTypeOK, SampleOf
  <2> QED
    BY <1>8, <2>1 DEF RunEnds, NextRound, ToolTypeOK
<1>9. ASSUME NEW c \in Clients, Post(c) PROVE ToolTypeOK'
  <2>1. hands' \in [Clients -> 0 .. Gone] /\ fed' \in 0 .. Requests
    BY <1>9 DEF Post, ToolTypeOK
  <2> QED
    BY <1>9, <2>1 DEF Post, ToolTypeOK
<1>10. ASSUME NEW c \in Clients, Sample(c) PROVE ToolTypeOK'
  <2>1. calls[c].step = "done" /\ calls[c] \in Call
    BY <1>10, CallType DEF Sample, Return
  <2>2. calls[c].answer \in Outcomes /\ {"lost", "timeout", "unread_200", "error"} \subseteq Outcomes
    <3>1. calls[c].answer # "orphan"
      BY DEF LoadInv, PurchaseInv, CallOK, Truthful
    <3> QED
      BY <2>1, <3>1 DEF Outcomes, Answers, Call
  <2>3. {k.order : k \in Existing(calls[c])} \in SUBSET OrderNos
    BY DEF Existing, TypeOK, Task
  <2>4. PICK i \in Sequences : i = hands[c]
    BY <1>10 DEF Sample
  <2>5. \E answer \in Outcomes, orders \in SUBSET OrderNos, replayed \in BOOLEAN :
          Sampled(i, answer, orders, replayed)
    <3>1. CASE \E answer \in {"lost", "timeout", "unread_200", "error"} :
                 Sampled(i, answer, {}, FALSE)
      BY <2>2, <3>1
    <3>2. PICK replayed \in BOOLEAN : replayed = (calls[c].answer = "replayed")
      OBVIOUS
    <3>3. CASE \E orders \in SUBSET OrderNos :
                 Sampled(i, calls[c].answer, orders, calls[c].answer = "replayed")
      BY <2>2, <3>2, <3>3
    <3> QED
      BY <1>10, <2>3, <2>4, <3>1, <3>3 DEF Sample, Unsure
  <2>6. samples' \in [Sequences -> SampleOf]
    BY <2>5, SampledType
  <2>7. hands' \in [Clients -> 0 .. Gone]
    BY <1>10 DEF Sample, ToolTypeOK
  <2> QED
    BY <1>10, <2>6, <2>7 DEF Sample, ToolTypeOK
<1>11. ASSUME NEW o \in round, SendPoll(o) PROVE ToolTypeOK'
  BY <1>11 DEF SendPoll, Committed, ToolTypeOK
<1>12. CASE ReadOrder \/ ReadProjection \/ PollFails
  <2>1. poll' \in [step : {"idle", "order", "projection"}, order : SUBSET OrderNos, known : BOOLEAN]
    <3>1. poll' = NoPoll \/ poll' = [poll EXCEPT !.step = "projection"]
      BY <1>12 DEF ReadOrder, ReadProjection, PollFails
    <3>2. NoPoll \in [step : {"idle", "order", "projection"}, order : SUBSET OrderNos, known : BOOLEAN]
      BY DEF NoPoll
    <3>3. poll \in [step : {"idle", "order", "projection"}, order : SUBSET OrderNos, known : BOOLEAN]
      BY DEF ToolTypeOK
    <3>4. [poll EXCEPT !.step = "projection"]
            \in [step : {"idle", "order", "projection"}, order : SUBSET OrderNos, known : BOOLEAN]
      BY <3>3
    <3> QED
      BY <3>1, <3>2, <3>4
  <2>2. UNCHANGED samples \/ \E answer \in Outcomes : Tell(poll.order, answer)
    <3>1. \A o \in poll.order : status[o] \in Status
      BY DEF ToolTypeOK, TypeOK, GateTypeOK
    <3> QED
      BY <1>12, <3>1 DEF ReadOrder, ReadProjection, PollFails, Status, Outcomes
  <2>3. samples' \in [Sequences -> SampleOf]
    <3>1. PICK orders : orders = poll.order
      OBVIOUS
    <3> QED
      BY <2>2, <3>1, TellEffect DEF ToolTypeOK
  <2> QED
    BY <1>12, <2>1, <2>3 DEF ReadOrder, ReadProjection, PollFails, ToolTypeOK
<1>13. CASE Beside \/ OtherClients \/ CollectBackendState \/ UNCHANGED loadVars
  BY <1>13 DEF Beside, OtherClients, CollectBackendState, loadVars, toolVars, ToolTypeOK
<1> QED
  BY <1>1, <1>2, <1>3, <1>4, <1>5, <1>6, <1>7, <1>8, <1>9, <1>10, <1>11, <1>12, <1>13
  DEF LoadNext, Prepare, Run, Drain

(* The steps that have nothing to do with samples and polls. *)
Aside ==
  \/ Prepare \/ Beside \/ OtherClients \/ CollectBackendState \/ UNCHANGED loadVars
  \/ \E c \in Clients : Post(c)

LEMMA AsideEffect ==
  ASSUME Aside
  PROVE  /\ UNCHANGED <<samples, round, poll>>
         /\ phase' = phase \/ (phase # "drain" /\ phase' # "drain")
<1>1. CASE Prepare
  BY <1>1
  DEF Prepare, CreateSeckillItem, SetupFails, PrepareUsersEnds, AwaitStart, TakeUser,
      RegisterAndLogin, WorkerEnds
<1>2. CASE ~Prepare
  BY <1>2
  DEF Aside, Beside, OtherClients, CollectBackendState, loadVars, toolVars, Post
<1> QED
  BY <1>1, <1>2

(* The way in does not change, and the Stream has no waiting workers. *)
LEMMA StreamStep ==
  ASSUME LoadInv, [LoadNext]_loadVars
  PROVE  StreamInv' /\ entry' = entry
<1>0. /\ ToolTypeOK /\ SetupInv /\ StreamInv /\ [Next]_vars /\ PurchaseInv /\ entry' = entry
      /\ (entry = "stream" => GateKnows')
  <2>1. ToolTypeOK /\ SetupInv /\ StreamInv /\ [Next]_vars /\ PurchaseInv
    BY ToolIsClient DEF LoadInv
  <2> QED
    BY <2>1, PurchaseGrows, StreamGrows DEF StreamInv
<1>1. ASSUME entry = "stream", phase' = "run", NEW c \in Clients
      PROVE  hands'[c] = 0
  <2>1. CASE phase = "run"
    <3>1. \A d \in Clients : ~Post(d) /\ ~Sample(d)
      BY <1>0, <1>1, <2>1 DEF StreamInv, Post, Begin, Sample, Sequences
    <3>2. hands' = hands
      BY <1>1, <2>1, <3>1
      DEF LoadNext, Prepare, Run, Drain, Beside, OtherClients, CollectBackendState, loadVars, toolVars,
          CreateSeckillItem, SetupFails, PrepareUsersEnds, AwaitStart, TakeUser, RegisterAndLogin,
          WorkerEnds, PostAsync, Reject, RunEnds, SendPoll, ReadOrder, ReadProjection, PollFails, NextRound
    <3> QED
      BY <1>0, <1>1, <2>1, <3>2 DEF StreamInv
  <2>2. CASE phase # "run"
    <3>1. AwaitStart
      BY <1>1, <2>2
      DEF LoadNext, Prepare, Run, Drain, Beside, OtherClients, CollectBackendState, loadVars, toolVars,
          CreateSeckillItem, SetupFails, PrepareUsersEnds, TakeUser, RegisterAndLogin,
          WorkerEnds, PostAsync, Reject, RunEnds, Post, Sample, SendPoll, ReadOrder, ReadProjection,
          PollFails, NextRound
    <3> QED
      BY <3>1 DEF AwaitStart
  <2> QED
    BY <2>1, <2>2
<1> QED
  BY <1>0, <1>1 DEF StreamInv

(* The order numbers of the samples are their users'. *)
LEMMA SampleStep ==
  ASSUME LoadInv, [LoadNext]_loadVars
  PROVE  SampleInv'
<1>0. /\ PurchaseInv /\ ToolTypeOK /\ SetupInv /\ StreamInv /\ SampleInv /\ [Next]_vars
      /\ owner' = owner /\ (phase = "off" <=> phase' = "off")
  BY ToolIsClient, SetupStep DEF LoadInv
<1>1. entry' = entry /\ owners \subseteq owners'
  BY <1>0, PurchaseGrows
<1> SUFFICES ASSUME entry = "stream", phase # "off", NEW i \in Sequences
             PROVE  /\ samples'[i].answer = "QUEUED" =>
                         \E o \in OrderNos : samples'[i].order = {o}
                    /\ \A o \in samples'[i].order : [order |-> o, user |-> owner[i]] \in owners'
  BY <1>0, <1>1 DEF SampleInv
<1>2. /\ samples[i].answer = "QUEUED" => \E o \in OrderNos : samples[i].order = {o}
      /\ \A o \in samples[i].order : [order |-> o, user |-> owner[i]] \in owners'
  BY <1>0, <1>1 DEF SampleInv
<1>3. CASE samples'[i] = samples[i]
  BY <1>2, <1>3
<1>4. CASE PostAsync \/ Reject
  <2>1. PICK j \in Sequences, answer \in Outcomes, orders \in SUBSET OrderNos, replayed \in BOOLEAN :
          Sampled(j, answer, orders, replayed) /\ Learns(j, answer, orders, replayed)
    BY <1>0, <1>4, SentSamples
  <2>2. /\ samples'[j] = [answer |-> answer, order |-> orders, replayed |-> replayed]
        /\ \A l \in Sequences \ {j} : samples'[l] = samples[l]
    BY <1>0, <2>1, SampledType
  <2>3. /\ answer = "QUEUED" => \E o \in OrderNos : orders = {o}
        /\ \A o \in orders : [order |-> o, user |-> owner[j]] \in owners'
    <3>1. CASE answer \in Quiet /\ orders = {}
      BY <3>1 DEF Quiet, Accepted
    <3>2. ASSUME NEW b \in buyers, b.order \in OrderNos, b = [order |-> b.order, user |-> owner[j]],
                 orders = {b.order}
          PROVE  /\ \E o \in OrderNos : orders = {o}
                 /\ \A o \in orders : [order |-> o, user |-> owner[j]] \in owners'
      <4>1. b \in owners'
        BY <1>0, <1>1 DEF StreamInv, GateKnows
      <4> QED
        BY <3>2, <4>1
    <3>3. ASSUME NEW o \in OrderNos, EnqueueStream(owner[j], o), orders = {o}
          PROVE  [order |-> o, user |-> owner[j]] \in owners'
      BY <3>3 DEF EnqueueStream, ReserveAndEnqueue
    <3> QED
      BY <2>1, <3>1, <3>2, <3>3 DEF Learns
  <2>4. samples'[j].answer = answer /\ samples'[j].order = orders
    BY <2>2
  <2> QED
    BY <1>3, <2>2, <2>3, <2>4
<1>7. ASSUME NEW c \in Clients, Sample(c) PROVE FALSE
  BY <1>0, <1>7 DEF Sample, StreamInv, Sequences
<1>8. CASE ReadOrder \/ ReadProjection
  <2>1. samples' = samples \/ \E answer \in Outcomes : Tell(poll.order, answer)
    <3>1. \A o \in poll.order : status[o] \in Status
      BY <1>0 DEF ToolTypeOK, PurchaseInv, TypeOK, GateTypeOK
    <3> QED
      BY <1>8, <3>1 DEF ReadOrder, ReadProjection, Status, Outcomes
  <2>2. PICK orders : orders = poll.order
    OBVIOUS
  <2>3. samples'[i].order = samples[i].order
        /\ (samples'[i].answer = "QUEUED" => samples[i].answer = "QUEUED")
    BY <1>0, <2>1, <2>2, TellEffect
  <2> QED
    BY <1>2, <2>3
<1>9. CASE Aside \/ RunEnds \/ PollFails \/ NextRound \/ \E o \in round : SendPoll(o)
  <2>1. samples'[i] = samples[i]
    BY <1>9, AsideEffect DEF RunEnds, PollFails, NextRound, SendPoll
  <2> QED
    BY <1>3, <2>1
<1> QED
  BY <1>4, <1>7, <1>8, <1>9 DEF LoadNext, Run, Drain, Aside

(* A number that a sample of the Stream has, once sold, is sold to the        *)
(* sample's user.                                                             *)
LEMMA CommittedOwner ==
  ASSUME LoadInv, entry = "stream", phase # "off", NEW i \in Sequences, NEW o \in samples[i].order,
         Committed(o)
  PROVE  [order |-> o, user |-> owner[i]] \in claims
<1>1. PICK k \in claims : k.order = o
  BY DEF Committed
<1>2. [order |-> o, user |-> owner[i]] \in owners
  BY DEF LoadInv, SampleInv
<1>3. PICK t \in owners : t = [order |-> o, user |-> owner[i]]
  BY <1>2
<1>4. k.user = t.user
  BY <1>1, <1>3 DEF LoadInv, PurchaseInv, NumberInv, Held
<1>5. k = [order |-> k.order, user |-> k.user]
  BY <1>1 DEF LoadInv, PurchaseInv, TypeOK, Task
<1> QED
  BY <1>1, <1>3, <1>4, <1>5

(* What reading a result may do to a sample. *)
LEMMA ReadEffect ==
  ASSUME LoadInv, ReadOrder \/ ReadProjection
  PROVE  /\ \A i \in Sequences : samples'[i].order = samples[i].order
         /\ \A i \in Sequences : samples'[i] # samples[i] => samples[i].order = poll.order
<1>1. samples' = samples \/ \E answer \in Outcomes : Tell(poll.order, answer)
  <2>1. \A o \in poll.order : status[o] \in Status
    BY DEF LoadInv, ToolTypeOK, PurchaseInv, TypeOK, GateTypeOK
  <2> QED
    BY <2>1 DEF ReadOrder, ReadProjection, Status, Outcomes
<1>2. PICK orders : orders = poll.order
  OBVIOUS
<1>3. \A i \in Sequences : samples'[i].order = samples[i].order
  BY <1>1, <1>2, TellEffect DEF LoadInv
<1>4. \A i \in Sequences : samples'[i] # samples[i] => samples[i].order = poll.order
  BY <1>1 DEF Tell
<1> QED
  BY <1>3, <1>4

(* The query of a result that is known finds the order.                       *)
LEMMA KnownIsFound ==
  ASSUME LoadInv, poll.known
  PROVE  /\ poll.step = "order"
         /\ \A o \in poll.order : FindOwnedByOrderNo(Asker, o)
<1>1. poll.step = "order" /\ \E i \in Sequences : samples[i].order = poll.order
  BY DEF LoadInv, PollInv
<1>2. PICK i \in Sequences :
        i = (CHOOSE j \in Sequences : samples[j].order = poll.order) /\ samples[i].order = poll.order
  BY <1>1
<1>3. Asker = owner[i]
  BY <1>2 DEF Asker
<1> QED
  BY <1>1, <1>2, <1>3 DEF LoadInv, PollInv, FindOwnedByOrderNo

(* The rounds of the drain. *)
LEMMA PollStep ==
  ASSUME LoadInv, [LoadNext]_loadVars
  PROVE  PollInv'
<1>0. /\ PurchaseInv /\ ToolTypeOK /\ SetupInv /\ StreamInv /\ SampleInv /\ PollInv /\ [Next]_vars
      /\ owner' = owner /\ (phase = "off" <=> phase' = "off")
  BY ToolIsClient, SetupStep DEF LoadInv
<1>1. entry' = entry /\ claims \subseteq claims'
  BY <1>0, PurchaseGrows
<1>2. CASE Aside
  <2>1. UNCHANGED <<samples, round, poll>> /\ (phase' = phase \/ (phase # "drain" /\ phase' # "drain"))
    BY <1>2, AsideEffect
  <2> QED
    BY <1>0, <1>1, <2>1 DEF PollInv
<1>3. ASSUME PostAsync \/ Reject \/ \E c \in Clients : Sample(c)
      PROVE  PollInv'
  <2>1. phase = "run" /\ UNCHANGED <<phase, poll, round>>
    BY <1>3 DEF PostAsync, Reject, Sample
  <2>2. poll = NoPoll
    BY <1>0, <2>1 DEF PollInv
  <2> QED
    BY <2>1, <2>2 DEF PollInv, NoPoll
<1>4. ASSUME entry = "stream", phase # "off", NEW o \in Pending
      PROVE  \E i \in Sequences : samples[i].order = {o}
  <2>1. PICK i \in Sequences : samples[i].answer = "QUEUED" /\ o \in samples[i].order
    BY <1>4 DEF Pending
  <2>2. PICK p \in OrderNos : samples[i].order = {p}
    BY <1>0, <1>4, <2>1 DEF SampleInv
  <2> QED
    BY <2>1, <2>2
<1>5. CASE RunEnds
  <2>1. /\ phase = "run" /\ UNCHANGED <<samples, poll>> /\ round' = Pending
        /\ phase' = "drain" => entry = "stream"
    BY <1>5 DEF RunEnds
  <2>2. poll = NoPoll
    BY <1>0, <2>1 DEF PollInv
  <2> QED
    BY <1>1, <1>4, <2>1, <2>2 DEF PollInv, NoPoll
<1>6. ASSUME NEW o \in round, SendPoll(o) PROVE PollInv'
  <2>1. /\ phase = "drain" /\ entry = "stream" /\ UNCHANGED <<phase, samples>> /\ round' = round \ {o}
        /\ poll' = [step |-> "order", order |-> {o}, known |-> Committed(o)]
    BY <1>0, <1>6 DEF SendPoll, PollInv
  <2>2. poll'.step = "order" /\ poll'.order = {o} /\ (poll'.known <=> Committed(o))
    BY <2>1 DEF Committed
  <2>3. \E i \in Sequences : samples[i].order = {o}
    BY <1>0, <2>1 DEF PollInv
  <2>4. ASSUME Committed(o), NEW i \in Sequences, samples[i].order = {o}
        PROVE  [order |-> o, user |-> owner[i]] \in claims
    BY <2>1, <2>4, CommittedOwner
  <2> QED
    BY <1>0, <1>1, <2>1, <2>2, <2>3, <2>4 DEF PollInv
<1>7. CASE ReadOrder \/ ReadProjection
  <2>1. /\ UNCHANGED <<phase, round>>
        /\ \/ poll' = NoPoll
           \/ ~poll.known /\ poll.step = "order" /\ poll' = [poll EXCEPT !.step = "projection"]
    BY <1>7, KnownIsFound DEF ReadOrder, ReadProjection
  <2>2. \A i \in Sequences : samples'[i].order = samples[i].order
    BY <1>7, ReadEffect
  <2>3. CASE poll' = NoPoll
    BY <1>0, <1>1, <2>1, <2>2, <2>3 DEF PollInv, NoPoll
  <2>4. CASE ~poll.known /\ poll.step = "order" /\ poll' = [poll EXCEPT !.step = "projection"]
    <3>1. poll'.step = "projection" /\ poll'.order = poll.order /\ poll'.known = poll.known
      BY <1>0, <2>4 DEF ToolTypeOK
    <3>2. UNCHANGED <<phase, round>> /\ entry' = entry /\ phase = "drain"
      BY <1>0, <1>1, <2>1, <2>4 DEF PollInv, NoPoll
    <3> QED
      BY <1>0, <2>2, <2>4, <3>1, <3>2 DEF PollInv
  <2> QED
    BY <2>1, <2>3, <2>4
<1>8. CASE PollFails
  <2>1. UNCHANGED <<phase, round, samples>> /\ poll' = NoPoll
    BY <1>8 DEF PollFails
  <2> QED
    BY <1>0, <1>1, <2>1 DEF PollInv, NoPoll
<1>9. CASE NextRound
  <2>1. /\ phase = "drain" /\ poll = NoPoll /\ UNCHANGED <<samples, poll>>
        /\ (phase' = "drain" /\ round' = Pending) \/ phase' = "report"
    BY <1>9 DEF NextRound
  <2> QED
    BY <1>0, <1>1, <1>4, <2>1 DEF PollInv, NoPoll
<1> QED
  BY <1>2, <1>3, <1>5, <1>6, <1>7, <1>8, <1>9 DEF LoadNext, Run, Drain, Aside

(* What a comparison has read stays true of the past. *)
LEMMA ProbeStep ==
  ASSUME LoadInv, [LoadNext]_loadVars
  PROVE  ProbeInv' /\ probe' \in Probe
<1>0. /\ PurchaseInv /\ probe \in Probe /\ ProbeInv /\ version <= version'
      /\ version \in Nat /\ version' \in Nat
  <2>1. PurchaseInv /\ probe \in Probe /\ ProbeInv /\ [Next]_vars
    BY ToolIsClient DEF LoadInv
  <2>2. version <= version' /\ PurchaseInv'
    BY <2>1, PurchaseGrows, PurchaseStep
  <2> QED
    BY <2>1, <2>2 DEF PurchaseInv, TypeOK
<1>1. CASE UNCHANGED probe
  BY <1>0, <1>1 DEF ProbeInv, Probe
<1>2. CASE InspectItemState
  <2>1. Cardinality(claims) \in Nat /\ Cardinality(claims) = version /\ available \in Int
        /\ available + Cardinality(claims) = InitialStock
    BY <1>0 DEF PurchaseInv, LedgerInv, TypeOK
  <2>2. probe' \in Probe /\ probe'.available = available /\ probe'.claimed = Cardinality(claims)
    BY <1>0, <1>2, <2>1 DEF InspectItemState, Probe
  <2> QED
    BY <1>0, <2>1, <2>2 DEF ProbeInv
<1>3. CASE InspectState
  <2>1. stock \in Int /\ 0 \in Int /\ ready \in BOOLEAN
    BY <1>0 DEF PurchaseInv, TypeOK, GateTypeOK
  <2>2. PICK s \in Int : s = IF ready THEN stock ELSE 0
    BY <2>1
  <2>3. probe.step # "idle" /\ probe' = [probe EXCEPT !.step = "buyers", !.exists = ready, !.stock = s]
    BY <1>3, <2>2 DEF InspectState
  <2>4. probe' \in Probe /\ probe'.available = probe.available /\ probe'.claimed = probe.claimed
    BY <1>0, <2>1, <2>3 DEF Probe
  <2> QED
    BY <1>0, <2>3, <2>4 DEF ProbeInv, Probe
<1>4. CASE BuildReport \/ InspectFails
  <2>1. probe' = NoProbe
    BY <1>4 DEF BuildReport, InspectFails
  <2> QED
    BY <2>1 DEF NoProbe, ProbeInv, Probe
<1> QED
  BY <1>1, <1>2, <1>3, <1>4 DEF LoadNext, CollectBackendState, Inspect, loadVars

LEMMA LoadInvStep == LoadInv /\ [LoadNext]_loadVars => LoadInv'
<1> SUFFICES ASSUME LoadInv, [LoadNext]_loadVars PROVE LoadInv'
  OBVIOUS
<1>1. PurchaseInv'
  BY ToolIsClient, PurchaseStep DEF LoadInv
<1>2. SetupInv'
  BY SetupStep DEF LoadInv
<1> QED
  BY <1>1, <1>2, ToolTypeStep, StreamStep, SampleStep, PollStep, ProbeStep DEF LoadInv

LEMMA LoadInvariant == LoadSpec => []LoadInv
BY LoadInvInit, LoadInvStep, PTL DEF LoadSpec

-----------------------------------------------------------------------------
(* The properties. *)

(* The load test and v03check do nothing to the sale that clients cannot do:  *)
(* whatever holds of the purchase holds while it is being measured.           *)
THEOREM ToolImplementsClients == LoadSpec => Spec
<1>1. LoadInit => Init
  BY DEF LoadInit
<1>2. LoadInv /\ [LoadNext]_loadVars => [Next]_vars
  BY ToolIsClient DEF LoadInv
<1> QED
  BY <1>1, <1>2, LoadInvariant, PTL DEF LoadSpec, Spec

(* The types of the tables, of the gate, of the tool and of its comparison.   *)
THEOREM LoadTypes == LoadSpec => []LoadTypeOK
<1>1. LoadInv => LoadTypeOK
  BY DEF LoadInv, PurchaseInv, LoadTypeOK
<1> QED
  BY <1>1, LoadInvariant, PTL

(* drainAsync is told SUCCEEDED by every query it sends after the order was   *)
(* committed, for any number of requests, users and replayed order numbers.   *)
THEOREM CommittedOrderIsTold == LoadSpec => CommittedIsTold
<1> DEFINE Told ==
      poll.known /\ samples' # samples =>
        \A i \in Sequences : samples'[i] # samples[i] => samples'[i].answer = "SUCCEEDED"
<1>1. ASSUME LoadInv, [LoadNext]_loadVars, poll.known, NEW i \in Sequences, samples'[i] # samples[i]
      PROVE  samples'[i].answer = "SUCCEEDED"
  <2>1. phase = "drain" /\ poll.step = "order" /\ \A o \in poll.order : FindOwnedByOrderNo(Asker, o)
    <3>1. phase = "drain"
      BY <1>1 DEF LoadInv, PollInv, NoPoll
    <3> QED
      BY <1>1, <3>1, KnownIsFound
  <2>2. ReadOrder
    <3>1. ~Aside /\ ~RunEnds /\ ~PollFails /\ ~NextRound /\ ~ \E o \in round : SendPoll(o)
      BY <1>1, AsideEffect DEF RunEnds, PollFails, NextRound, SendPoll
    <3>2. ~ReadProjection /\ ~PostAsync /\ ~Reject /\ ~ \E c \in Clients : Sample(c)
      BY <2>1 DEF ReadProjection, PostAsync, Reject, Sample
    <3> QED
      BY <1>1, <3>1, <3>2 DEF LoadNext, Run, Drain, Aside
  <2>3. Tell(poll.order, "SUCCEEDED")
    BY <2>1, <2>2 DEF ReadOrder
  <2>4. samples[i] \in SampleOf
    BY <1>1 DEF LoadInv, ToolTypeOK
  <2>5. samples'[i] = [samples[i] EXCEPT !.answer = "SUCCEEDED"]
    BY <1>1, <2>3 DEF Tell
  <2> QED
    BY <2>4, <2>5 DEF SampleOf
<1>2. LoadInv /\ [LoadNext]_loadVars => [Told]_loadVars
  BY <1>1
<1> QED
  BY <1>2, LoadInvariant, PTL DEF LoadSpec, CommittedIsTold

(* The four numbers that buildReport compares, when Redis stood still.        *)
LEMMA NoFalseAlarm ==
  ASSUME LoadInv, ~LatePublish, probe.step = "buyers", Still
  PROVE  Diagnose # "DANGEROUS_DRIFT"
<1>0. /\ Cardinality(buyers) \in Nat /\ stock \in Nat /\ InitialStock \in Nat /\ version \in Nat
      /\ probe \in Probe /\ ready \in BOOLEAN
  <2>1. buyers \in SUBSET Task /\ stock \in Nat /\ version \in Nat /\ probe \in Probe /\ ready \in BOOLEAN
    BY DEF LoadInv, PurchaseInv, TypeOK, GateTypeOK
  <2>2. IsFiniteSet(buyers)
    BY <2>1, TaskFinite, FS_Subset
  <2> QED
    BY <2>1, <2>2, FS_CardinalityType, SaleAssumption
<1>1. /\ probe.available \in Int /\ probe.claimed \in Nat /\ probe.exists \in BOOLEAN
      /\ probe.available + probe.claimed = InitialStock /\ probe.claimed <= version
  BY <1>0 DEF LoadInv, ProbeInv, Probe
<1>2. CASE ~ready
  <2>1. buyers = {} /\ probe.exists = FALSE
    BY <1>1, <1>2 DEF LoadInv, PurchaseInv, GateInv, Still
  <2>2. Cardinality(buyers) = 0
    BY <2>1, FS_EmptySet
  <2> QED
    BY <2>1, <2>2 DEF Diagnose
<1>3. CASE ready
  <2>1. probe.exists = TRUE /\ stock = probe.stock
    BY <1>3 DEF Still
  <2>2. stock + Cardinality(buyers) = InitialStock /\ claims \subseteq buyers
    BY <1>3 DEF LoadInv, PurchaseInv, GateInv
  <2>3. version <= Cardinality(buyers)
    <3>1. IsFiniteSet(buyers) /\ version = Cardinality(claims)
      BY TaskFinite, FS_Subset DEF LoadInv, PurchaseInv, LedgerInv, TypeOK, GateTypeOK
    <3> QED
      BY <2>2, <3>1, FS_Subset
  <2>4. PICK n \in Nat : n = Cardinality(buyers)
    BY <1>0
  <2>5. /\ probe.stock \in 0 .. probe.available
        /\ n \in probe.claimed .. InitialStock
        /\ probe.available - probe.stock = n - probe.claimed
    BY <1>0, <1>1, <2>1, <2>2, <2>3, <2>4
  <2> QED
    BY <1>3, <2>1, <2>4, <2>5 DEF Diagnose
<1> QED
  BY <1>2, <1>3

(* v03check and collectBackendState report no drift that is not there, while  *)
(* purchases go on between their reads; if every preheat is published before  *)
(* the activity begins.                                                       *)
THEOREM DiagnosisIsSound == ~LatePublish => (LoadSpec => SoundDiagnosis)
<1> SUFFICES ASSUME ~LatePublish PROVE LoadSpec => SoundDiagnosis
  OBVIOUS
<1>1. LoadInv =>
        (probe.step = "buyers" /\ probe'.step = "idle" /\ Still => Diagnose # "DANGEROUS_DRIFT")
  BY NoFalseAlarm
<1> QED
  BY <1>1, LoadInvariant, PTL DEF SoundDiagnosis
=============================================================================
