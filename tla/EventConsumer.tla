---------------------------- MODULE EventConsumer ----------------------------
(***************************************************************************)
(* One consumer group of order-created events: the loop of mq/consumer.go  *)
(* around the notification handler. A consumer reads the main topic and    *)
(* the retry topic, one record at a time.                                  *)
(*                                                                         *)
(* Group membership is Kafka's. After a rebalance the former owner of a    *)
(* partition may go on for a while, with the record it holds and with      *)
(* records its client has buffered, and its commits are still accepted as  *)
(* long as it is a member of the group: they can move the offset back.     *)
(***************************************************************************)
EXTENDS EventTopics

CONSTANTS
  Consumers,   \* the consumer processes of the group
  Poison       \* events the handler cannot decode: a broken or newer schema

ASSUME ConsumerAssumption == Poison \subseteq Events

VARIABLES
  assigned,    \* the consumers that read a source topic
  position,    \* how far a consumer has read a source topic
  committed,   \* the group's committed offset: records up to it are done
  hand,        \* the record a consumer is processing, if any
  consumed,    \* notification_consumptions, by event_id
  notices      \* the number of notifications written for an event

consumerVars == <<assigned, position, committed, hand, consumed, notices>>

Sources == {"main", "retry"}

(* ProcessOne runs the handler, publishes to another topic, then commits. *)
Record == [topic : Sources, offset : Nat, step : {"handle", "retry", "dlq", "commit"}]

ConsumerTypeOK ==
  /\ assigned \in [Sources -> SUBSET Consumers]
  /\ position \in [Consumers -> [Sources -> Nat]]
  /\ committed \in [Sources -> Nat]
  /\ hand \in [Consumers -> SUBSET Record]
  /\ consumed \in SUBSET Events
  /\ notices \in [Events -> Nat]

ConsumerInit ==
  /\ assigned = [t \in Sources |-> {}]
  /\ position = [c \in Consumers |-> [t \in Sources |-> 0]]
  /\ committed = [t \in Sources |-> 0]
  /\ hand = [c \in Consumers |-> {}]
  /\ consumed = {}
  /\ notices = [e \in Events |-> 0]

(* The group gives a topic to a consumer, which starts at the committed offset. *)
Take(c, t) ==
  /\ c \notin assigned[t]
  /\ assigned' = [assigned EXCEPT ![t] = @ \cup {c}]
  /\ position' = [position EXCEPT ![c][t] = committed[t]]
  /\ UNCHANGED <<committed, hand, consumed, notices, log>>

Assign(c, t) ==
  /\ assigned[t] = {}
  /\ Take(c, t)
  /\ UNCHANGED faults

(* A rebalance moves the topic while its former owner is still at work ... *)
Rebalance(c, t) ==
  /\ Fault
  /\ assigned[t] # {}
  /\ Take(c, t)

(* ... and the former owner learns of it. *)
Revoke(c, t) ==
  /\ c \in assigned[t] /\ assigned[t] # {c}
  /\ assigned' = [assigned EXCEPT ![t] = @ \ {c}]
  /\ UNCHANGED <<position, committed, hand, consumed, notices, topicVars>>

Fetch(c, t) ==
  LET next == position[c][t] + 1 IN
  /\ hand[c] = {}
  /\ c \in assigned[t]
  /\ next <= Len(log[t])
  /\ position' = [position EXCEPT ![c][t] = next]
  /\ hand' = [hand EXCEPT ![c] = {[topic |-> t, offset |-> next, step |-> "handle"]}]
  /\ UNCHANGED <<assigned, committed, consumed, notices, topicVars>>

MessageOf(r) == log[r.topic][r.offset]

Decodes(e) == e \notin Poison

Goto(c, r, step) == hand' = [hand EXCEPT ![c] = {[r EXCEPT !.step = step]}]

(***************************************************************************)
(* ConsumeOrderCreated, one transaction: the notification and its ledger   *)
(* row, or neither if the ledger's unique key already knows the event.     *)
(***************************************************************************)
NotifyWithoutLedger(e) ==
  /\ notices' = [notices EXCEPT ![e] = @ + 1]
  /\ consumed' = consumed \cup {e}

Notify(e) ==
  /\ notices' = IF e \in consumed THEN notices ELSE [notices EXCEPT ![e] = @ + 1]
  /\ consumed' = consumed \cup {e}

(* Where a failed record goes: its budget of attempts is in its header. *)
TargetOffByOne(m, permanent) ==
  IF permanent \/ m.attempt >= MaxAttempts THEN "dlq" ELSE "retry"

Target(m, permanent) ==
  IF permanent \/ m.attempt + 1 >= MaxAttempts THEN "dlq" ELSE "retry"

Handled(c) ==
  \E r \in hand[c] :
    /\ r.step = "handle"
    /\ Decodes(MessageOf(r).event)
    /\ Notify(MessageOf(r).event)
    /\ Goto(c, r, "commit")
    /\ UNCHANGED <<assigned, position, committed, topicVars>>

(* The event cannot be decoded, or the database refuses. *)
HandlerFails(c) ==
  \E r \in hand[c] :
    /\ r.step = "handle"
    /\ Goto(c, r, Target(MessageOf(r), ~Decodes(MessageOf(r).event)))
    /\ UNCHANGED <<assigned, position, committed, consumed, notices, topicVars>>

(* The COMMIT takes effect, but the handler only sees an error. *)
OutcomeUnknown(c) ==
  \E r \in hand[c] :
    /\ r.step = "handle"
    /\ Decodes(MessageOf(r).event)
    /\ Notify(MessageOf(r).event)
    /\ Goto(c, r, Target(MessageOf(r), FALSE))
    /\ UNCHANGED <<assigned, position, committed, topicVars>>

(* message.WithAttempt(target, attempt + 1), acknowledged by the broker. *)
Divert(c) ==
  \E r \in hand[c] :
    /\ r.step \in {"retry", "dlq"}
    /\ log' = Append1(r.step, MessageOf(r).event, MessageOf(r).attempt + 1)
    /\ Goto(c, r, "commit")
    /\ UNCHANGED <<assigned, position, committed, consumed, notices, faults>>

(* CommitRecords: the offset becomes that of this record, whatever it was. *)
CommitBeforeDivert(c) ==
  \E r \in hand[c] :
    /\ r.step \in {"retry", "dlq", "commit"}
    /\ committed' = [committed EXCEPT ![r.topic] = r.offset]
    /\ hand' = [hand EXCEPT ![c] = {}]
    /\ UNCHANGED <<assigned, position, consumed, notices, topicVars>>

Commit(c) ==
  \E r \in hand[c] :
    /\ r.step = "commit"
    /\ committed' = [committed EXCEPT ![r.topic] = r.offset]
    /\ hand' = [hand EXCEPT ![c] = {}]
    /\ UNCHANGED <<assigned, position, consumed, notices, topicVars>>

(* Run returns: the process ends, leaves the group and is started again. *)
Leave(c) ==
  /\ hand' = [hand EXCEPT ![c] = {}]
  /\ assigned' = [t \in Sources |-> assigned[t] \ {c}]
  /\ UNCHANGED <<position, consumed, notices>>

(* A crash, a failed commit or a publish that did not reach the topic. *)
ConsumerExit(c) ==
  /\ Fault
  /\ hand[c] # {}
  /\ Leave(c)
  /\ UNCHANGED <<committed, log>>

(* Publish or Commit took effect, but the consumer only sees an error. *)
AnswerLost(c) ==
  /\ Fault
  /\ Leave(c)
  /\ \E r \in hand[c] :
       \/ /\ r.step \in {"retry", "dlq"}
          /\ log' = Append1(r.step, MessageOf(r).event, MessageOf(r).attempt + 1)
          /\ UNCHANGED committed
       \/ /\ r.step = "commit"
          /\ committed' = [committed EXCEPT ![r.topic] = r.offset]
          /\ UNCHANGED log
=============================================================================
