------------------------------ MODULE LoadTest ------------------------------
(***************************************************************************)
(* The load test (cmd/loadtest/main.go) as the client of the purchase: it  *)
(* prepares an item and its users, lets its workers send one request each  *)
(* at a time, polls the results of what was queued and reports. It is the  *)
(* repository's own judge of whether the sale adds up, so the report is    *)
(* compared with the tables. Durations, labels and files are left out.     *)
(*                                                                         *)
(* The item of an automatic preparation is the one Purchase begins with.   *)
(***************************************************************************)
EXTENDS Diagnosis, Functions

CONSTANTS
  Requests,      \* options.Requests
  LoadModes,     \* the stock modes
  LoadEntries,   \* and the ways in that the tool is pointed at
  CheckedModes   \* a bound: the stock modes v03check is run with

ASSUME LoadTestAssumption ==
  /\ Requests \in Nat \ {0}
  /\ LoadModes \subseteq StockModes
  /\ LoadEntries \subseteq Entries
  /\ CheckedModes \subseteq StockModes

Sequences == 1 .. Requests
Gone == Requests + 1

VARIABLES
  phase,      \* where main stands; "off" when other clients use the sale
  owner,      \* whose token each request carries
  tokens,     \* the indices for which prepareUsers has a token
  failed,     \* errCh holds an error
  fed,        \* how many jobs went through the channel
  hands,      \* the job each worker has: 0 for none, Gone once its loop is over
  samples,    \* one per request
  round,      \* the orders still to be polled in this round
  poll        \* the result query under way

toolVars == <<phase, owner, tokens, failed, fed, hands, samples, round, poll>>
loadVars == <<vars, probe, toolVars>>

(* Besides what the purchase answers: no response at all, the two answers of   *)
(* the server without the handler, a status whose body could not be read, and  *)
(* the status of a request that was queued.                                    *)
Outcomes ==
  (Answers \ {"orphan"}) \cup
    {"lost", "timeout", "rejected", "unread_200", "unread_202", "QUEUED", "SUCCEEDED", "FAILED"}

SampleOf == [answer : Outcomes, order : SUBSET OrderNos, replayed : BOOLEAN]

NoSample == [answer |-> "none", order |-> {}, replayed |-> FALSE]
NoPoll == [step |-> "idle", order |-> {}, known |-> FALSE]

ToolTypeOK ==
  /\ phase \in {"off", "setup", "users", "wait", "run", "drain", "report", "failed"}
  /\ owner \in [Sequences -> Users] \cup {<<>>}
  /\ tokens \in SUBSET Sequences
  /\ failed \in BOOLEAN
  /\ fed \in 0 .. Requests
  /\ hands \in [Clients -> 0 .. Gone]
  /\ samples \in [Sequences -> SampleOf]
  /\ round \in SUBSET OrderNos
  /\ poll \in [step : {"idle", "order", "projection"}, order : SUBSET OrderNos, known : BOOLEAN]

(* options.Scenario: one user for every request, or a single one. *)
Scenario == IF \E i, j \in Sequences : owner[i] # owner[j] THEN "unique" ELSE "replay"

LoadInit ==
  /\ Init
  /\ \/ /\ phase = "setup"
        /\ owner \in [Sequences -> Users]
        /\ Scenario = "unique" => IsInjective(owner)
        /\ mode \in LoadModes /\ entry \in LoadEntries
     \/ phase = "off" /\ owner = <<>>
  /\ tokens = {}
  /\ failed = FALSE
  /\ fed = 0
  /\ hands = [c \in Clients |-> 0]
  /\ samples = [i \in Sequences |-> NoSample]
  /\ round = {}
  /\ poll = NoPoll
  /\ probe = NoProbe

-----------------------------------------------------------------------------
(* prepare. *)

(***************************************************************************)
(* login, createLoadtestSKU and createSeckillItem: with admission by MySQL *)
(* the activity began a minute ago, with Redis it begins in three seconds  *)
(* and is preheated before.                                                *)
(***************************************************************************)
CreateSeckillItem ==
  /\ phase = "setup"
  /\ \/ /\ entry = "direct"
        /\ clock' = "open"
        /\ phase' = "users"
        /\ UNCHANGED <<enabled, inFlight, snapshot, gateVars>>
     \/ /\ entry # "direct"
        /\ LoadPreheatSnapshot
        /\ UNCHANGED phase
     \/ /\ entry # "direct"
        /\ PublishActivity
        /\ phase' = "users"
  /\ UNCHANGED <<configVars, tableVars, lock, calls>>
  /\ UNCHANGED <<owner, tokens, failed, fed, hands, samples, round, poll>>

(* One of the calls was not answered with OK: the tool exits, whatever became of it. *)
SetupFails ==
  /\ phase = "setup"
  /\ phase' = "failed"
  /\ UNCHANGED <<vars, owner, tokens, failed, fed, hands, samples, round, poll>>

UserCount == IF Scenario = "replay" THEN 1 ELSE Requests

(* prepareUsers: the feeder blocks until a worker receives. The code starts no *)
(* more workers than there are users; here one too many ends at once.          *)
TakeUser(c) ==
  /\ phase = "users"
  /\ hands[c] = 0 /\ fed < UserCount
  /\ fed' = fed + 1
  /\ hands' = [hands EXCEPT ![c] = fed + 1]
  /\ UNCHANGED <<vars, phase, owner, tokens, failed, samples, round, poll>>

(* register, where an existing user is as good as a new one, and login. errCh  *)
(* has room for one error; the worker goes on with the next user all the same. *)
RegisterAndLogin(c) ==
  /\ phase = "users"
  /\ hands[c] \in Sequences
  /\ \/ tokens' = tokens \cup {hands[c]} /\ UNCHANGED failed
     \/ failed' = TRUE /\ UNCHANGED tokens
  /\ hands' = [hands EXCEPT ![c] = 0]
  /\ UNCHANGED <<vars, phase, owner, fed, samples, round, poll>>

(* The channel is closed and empty. *)
WorkerEnds(c) ==
  /\ phase = "users"
  /\ hands[c] = 0 /\ fed = UserCount
  /\ hands' = [hands EXCEPT ![c] = Gone]
  /\ UNCHANGED <<vars, phase, owner, tokens, failed, fed, samples, round, poll>>

PrepareUsersEnds ==
  /\ phase = "users"
  /\ \A c \in Clients : hands[c] = Gone
  /\ phase' = IF failed \/ tokens # 1 .. UserCount THEN "failed" ELSE "wait"
  /\ UNCHANGED <<vars, owner, tokens, failed, fed, hands, samples, round, poll>>

(* prepare waits for readyAt, the start of the activity. *)
AwaitStart ==
  /\ phase = "wait"
  /\ clock # "upcoming"
  /\ phase' = "run"
  /\ fed' = 0
  /\ hands' = [c \in Clients |-> 0]
  /\ UNCHANGED <<vars, owner, tokens, failed, samples, round, poll>>

-----------------------------------------------------------------------------
(* run. *)

Sampled(i, answer, orders, replayed) ==
  samples' = [samples EXCEPT ![i] =
                [answer |-> answer, order |-> orders, replayed |-> replayed]]

(* One of these, and nothing else, is all the tool learns. *)
Unsure(i, answers) == \E a \in answers : Sampled(i, a, {}, FALSE)

(* A worker takes the next sequence number and sends its request. *)
Post(c) ==
  /\ phase = "run"
  /\ hands[c] = 0 /\ fed < Requests
  /\ \E o \in OrderNos : Begin(c, owner[fed + 1], o)
  /\ fed' = fed + 1
  /\ hands' = [hands EXCEPT ![c] = fed + 1]
  /\ UNCHANGED <<phase, owner, tokens, failed, samples, round, poll>>

(* executeRequest has the handler's response, or its status without its body, *)
(* or "Request Timeout" in its place, or the connection broke.                *)
Sample(c) ==
  LET call == calls[c]
      accepted == call.answer \in {"created", "replayed"}
  IN
  /\ phase = "run"
  /\ hands[c] \in Sequences
  /\ Return(c)
  /\ \/ Sampled(hands[c], call.answer,
               IF accepted THEN {k.order : k \in Existing(call)} ELSE {},
               call.answer = "replayed")
     \/ Unsure(hands[c], {"lost", "timeout", IF accepted THEN "unread_200" ELSE "error"})
  /\ hands' = [hands EXCEPT ![c] = 0]
  /\ UNCHANGED <<phase, owner, tokens, failed, fed, round, poll>>

(* The request never gets to the handler: load shedding, or no connection. *)
Reject ==
  /\ phase = "run"
  /\ fed < Requests /\ \E c \in Clients : hands[c] = 0
  /\ Unsure(fed + 1, {"lost", "rejected"})
  /\ fed' = fed + 1
  /\ UNCHANGED <<vars, phase, owner, tokens, failed, hands, round, poll>>

(* With the Stream one script decides the request: 202 with the user's order *)
(* number, new or replayed, or a refusal. Redis or seckill-rpc may also fail *)
(* or be too slow, before or after the script has run.                       *)
PostAsync ==
  LET i == fed + 1
      u == owner[i]
      kept == {b.order : b \in {b \in buyers : b.user = u}}
      noAnswer == {"lost", "timeout", "temporary", "error"}
  IN
  /\ phase = "run" /\ entry = "stream"
  /\ fed < Requests
  /\ \/ \E o \in OrderNos :
          /\ EnqueueStream(u, o)
          /\ Sampled(i, "QUEUED", {o}, FALSE) \/ Unsure(i, noAnswer \cup {"unread_202"})
     \/ \E now \in Phases :
          /\ Reached(now)
          /\ Decision(u, now) # "reserved"
          /\ IF Decision(u, now) = "replayed"
             THEN Sampled(i, "QUEUED", kept, TRUE) \/ Unsure(i, {"unread_202"})
             ELSE Sampled(i, Decision(u, now), {}, FALSE)
          /\ UNCHANGED vars
     \/ Unsure(i, noAnswer) /\ UNCHANGED vars
  /\ fed' = fed + 1
  /\ UNCHANGED <<phase, owner, tokens, failed, hands, round, poll>>

Pending == UNION {samples[i].order : i \in {i \in Sequences : samples[i].answer = "QUEUED"}}

(* group.Wait; drainAsync makes its first round before it looks at the clock. *)
RunEnds ==
  /\ phase = "run"
  /\ fed = Requests
  /\ \A c \in Clients : hands[c] = 0
  /\ phase' = IF entry = "stream" THEN "drain" ELSE "report"
  /\ round' = Pending
  /\ UNCHANGED <<vars, owner, tokens, failed, fed, hands, samples, poll>>

-----------------------------------------------------------------------------
(* drainAsync and the result query it sends. *)

Committed(o) == \E k \in claims : k.order = o

SendPoll(o) ==
  /\ phase = "drain"
  /\ poll = NoPoll
  /\ o \in round
  /\ round' = round \ {o}
  /\ poll' = [step |-> "order", order |-> {o}, known |-> Committed(o)]
  /\ UNCHANGED <<vars, phase, owner, tokens, failed, fed, hands, samples>>

(* Every sample with that order number learns of it. *)
Tell(orders, answer) ==
  samples' = [i \in Sequences |->
                IF samples[i].answer = "QUEUED" /\ samples[i].order = orders
                THEN [samples[i] EXCEPT !.answer = answer] ELSE samples[i]]

ReadOrderLast ==
  /\ poll.step = "order"
  /\ \E o \in poll.order :
       IF status[o] # "NONE"
       THEN Tell(poll.order, status[o]) /\ poll' = NoPoll
       ELSE poll' = [poll EXCEPT !.step = "projection"] /\ UNCHANGED samples
  /\ UNCHANGED <<vars, phase, owner, tokens, failed, fed, hands, round>>

(* An order is found by its number and only for its user. *)
FindOwnedByOrderNo(u, o) == [order |-> o, user |-> u] \in claims

(* drainAsync asks with the token of a sample that was given the number. *)
Asker == owner[CHOOSE i \in Sequences : samples[i].order = poll.order]

(* GetAsyncResult, and the gateway's handler after it: the order itself comes *)
(* first ...                                                                  *)
ReadOrder ==
  /\ poll.step = "order"
  /\ \E o \in poll.order :
       IF FindOwnedByOrderNo(Asker, o)
       THEN Tell(poll.order, "SUCCEEDED") /\ poll' = NoPoll
       ELSE poll' = [poll EXCEPT !.step = "projection"] /\ UNCHANGED samples
  /\ UNCHANGED <<vars, phase, owner, tokens, failed, fed, hands, round>>

(* ... and only if there is none, the status in Redis. *)
ReadProjection ==
  /\ poll.step = "projection"
  /\ \E o \in poll.order : status[o] # "NONE" /\ Tell(poll.order, status[o])
  /\ poll' = NoPoll
  /\ UNCHANGED <<vars, phase, owner, tokens, failed, fed, hands, round>>

(* An error leaves the order pending. *)
PollFails ==
  /\ poll.step # "idle"
  /\ poll' = NoPoll
  /\ UNCHANGED <<vars, phase, owner, tokens, failed, fed, hands, samples, round>>

(* The deadline is looked at between two rounds. *)
NextRound ==
  /\ phase = "drain"
  /\ poll = NoPoll /\ round = {}
  /\ \/ round' = Pending /\ Pending # {} /\ UNCHANGED phase
     \/ phase' = "report" /\ UNCHANGED round
  /\ UNCHANGED <<vars, owner, tokens, failed, fed, hands, samples, poll>>

-----------------------------------------------------------------------------
(* buildReport. *)

Counted(answers) == Cardinality({i \in Sequences : samples[i].answer \in answers})

Accepted == {"QUEUED", "SUCCEEDED", "FAILED"}

(***************************************************************************)
(* The switch of buildReport. Created, Replayed and Queued are counted     *)
(* inside its cases for 200 and 202, so that a replay that was queued is   *)
(* counted by both; a status is counted whether or not its body was read.  *)
(***************************************************************************)
Report ==
  [NetworkError         |-> Counted({"lost"}),
   HTTP200              |-> Counted({"created", "replayed", "unread_200"}),
   Created              |-> Counted({"created", "unread_200"}),
   Replayed             |-> Cardinality({i \in Sequences : samples[i].replayed}),
   HTTP202              |-> Counted(Accepted \cup {"unread_202"}),
   Queued               |-> Counted(Accepted \cup {"unread_202"}),
   OutOfStock           |-> Counted({"sold_out"}),
   Unavailable          |-> Counted({"unavailable"}),
   InventoryBusy        |-> Counted({"busy"}),
   CacheNotReady        |-> Counted({"not_ready"}),
   TemporaryUnavailable |-> Counted({"temporary"}),
   ServerTimeout        |-> Counted({"timeout"}),
   ServerRejected       |-> Counted({"rejected"}),
   OtherError           |-> Counted({"error"})]

(* What has become of the queued ones. *)
Final ==
  [Succeeded |-> Counted({"SUCCEEDED"}),
   Failed    |-> Counted({"FAILED"}),
   Pending   |-> Counted({"QUEUED"})]

(* v03check at any time, the load test when it has its report. *)
CollectBackendState ==
  /\ \/ phase = "report"
     \/ phase = "off" /\ mode \in CheckedModes /\ entry = "gated" /\ onSale
  /\ Inspect
  /\ UNCHANGED <<vars, toolVars>>

-----------------------------------------------------------------------------
(* What goes on beside the tool: time, purchases and consumers. The item is the *)
(* tool's own, and nobody else administers it.                                  *)
Beside ==
  /\ \/ /\ phase \in {"wait", "run", "drain"}
        /\ Tick
        /\ UNCHANGED <<configVars, tableVars, lock, calls>>
     \/ /\ phase \in {"run", "drain"}
        /\ \/ \E c \in Clients, t \in stream : ProcessStreamTask(c, t)
           \/ \E c \in Clients : Purchasing(c) \/ Abort(c)
           \/ \E c \in Clients : entry = "stream" /\ Return(c)
  /\ UNCHANGED toolVars

Prepare ==
  \/ CreateSeckillItem \/ SetupFails \/ PrepareUsersEnds \/ AwaitStart
  \/ \E c \in Clients : TakeUser(c) \/ RegisterAndLogin(c) \/ WorkerEnds(c)

Run ==
  \/ PostAsync \/ Reject \/ RunEnds
  \/ \E c \in Clients : Post(c) \/ Sample(c)

Drain ==
  \/ \E o \in round : SendPoll(o)
  \/ ReadOrder \/ ReadProjection \/ PollFails \/ NextRound

(* Another bound: the product stays on sale while the stores are compared. *)
OtherClients ==
  /\ phase = "off"
  /\ Next
  /\ probe # NoProbe => onSale'
  /\ UNCHANGED toolVars

LoadNext ==
  \/ (Prepare \/ Run \/ Drain \/ Beside \/ OtherClients) /\ UNCHANGED probe
  \/ CollectBackendState

LoadSpec == LoadInit /\ [][LoadNext]_loadVars

-----------------------------------------------------------------------------
(* Properties. *)

LoadTypeOK == TypeOK /\ ToolTypeOK /\ probe \in Probe

(* Requests that were told of an order number as theirs and as new. *)
New == {i \in Sequences : samples[i].answer \in {"created"} \cup Accepted /\ ~samples[i].replayed}

(* The report accounts for the requests and for the tables. Every request is  *)
(* counted under one case of the switch; a replay that was queued is counted  *)
(* as Queued and as Replayed. What is left of the accepted requests without   *)
(* Replayed are different orders, apart from answers whose body was not read. *)
(* An order number that was told is that user's, and one told as bought is in *)
(* the tables. Every order in the tables was told to a request of its user or *)
(* is one that a request without a clear outcome has left behind.             *)
ReportAccounts ==
  phase = "report" =>
    /\ Report.NetworkError + Report.HTTP200 + Report.HTTP202 + Report.OutOfStock
         + Report.Unavailable + Report.InventoryBusy + Report.CacheNotReady
         + Report.TemporaryUnavailable + Report.ServerTimeout + Report.ServerRejected
         + Report.OtherError = Requests
    /\ Report.HTTP200 + Report.HTTP202 - Report.Replayed =
         Cardinality({samples[i].order : i \in New}) + Counted({"unread_200", "unread_202"})
    /\ Final.Succeeded + Final.Failed + Final.Pending + Counted({"unread_202"}) = Report.Queued
    /\ \A i \in Sequences, o \in OrderNos :
         o \in samples[i].order =>
           [order |-> o, user |-> owner[i]] \in
             IF samples[i].answer \in {"QUEUED", "FAILED"} THEN owners ELSE claims
    /\ \A k \in claims : \E i \in Sequences :
         /\ owner[i] = k.user
         /\ \/ k.order \in samples[i].order
            \/ samples[i].answer \in {"lost", "timeout", "temporary", "error",
                                     "unread_200", "unread_202"}

(* A result query sent after the order was committed answers SUCCEEDED, also  *)
(* while Redis still says QUEUED and after it was made to say FAILED by a     *)
(* consumer that did not see its own commit.                                  *)
CommittedIsTold ==
  [][poll.known /\ samples' # samples =>
       \A i \in Sequences : samples'[i] # samples[i] => samples'[i].answer = "SUCCEEDED"]_loadVars
=============================================================================
