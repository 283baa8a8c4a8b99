----------------------------- MODULE EventTopics -----------------------------
(***************************************************************************)
(* The Kafka topics order-created events travel through: the main topic    *)
(* the relay publishes to and the retry and dead letter topics of one      *)
(* consumer group. Records with different keys are independent, so each    *)
(* topic is one partition here. Kafka itself is outside the repository and *)
(* is modelled by what mq/kafka.go relies on: an append-only log.          *)
(***************************************************************************)
EXTENDS Naturals, Sequences, FiniteSets

CONSTANTS
  Events,        \* the order.created events, one per committed order
  MaxAttempts,   \* ConsumerConfig.MaxAttempts
  MaxFaults      \* bound: crashes, expired leases, lost answers, rebalances

ASSUME TopicAssumption ==
  /\ IsFiniteSet(Events)
  /\ MaxAttempts \in Nat \ {0}
  /\ MaxFaults \in Nat

Topics == {"main", "retry", "dlq"}

(* A message and its x-attempt header, 0 when the header is absent. *)
Message == [event : Events, attempt : 0 .. MaxAttempts]

VARIABLES
  log,      \* the records of each topic
  faults    \* faults so far

topicVars == <<log, faults>>

TopicTypeOK ==
  /\ log \in [Topics -> Seq(Message)]
  /\ faults \in 0 .. MaxFaults

TopicInit ==
  /\ log = [t \in Topics |-> <<>>]
  /\ faults = 0

(* KafkaClient.Publish, acknowledged by all in-sync replicas. *)
Append1(topic, e, n) == [log EXCEPT ![topic] = Append(@, [event |-> e, attempt |-> n])]

Fault ==
  /\ faults < MaxFaults
  /\ faults' = faults + 1

Contains(topic, e) == \E i \in DOMAIN log[topic] : log[topic][i].event = e
=============================================================================
