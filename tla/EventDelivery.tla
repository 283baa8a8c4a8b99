---------------------------- MODULE EventDelivery ----------------------------
(***************************************************************************)
(* An order.created event on its way from the transaction that created the *)
(* order to the notification of its buyer: the Outbox relay and a consumer *)
(* group, which share nothing but the topics.                              *)
(***************************************************************************)
EXTENDS OutboxRelay, EventConsumer

vars == <<topicVars, relayVars, consumerVars>>

TypeOK ==
  /\ TopicTypeOK
  /\ RelayTypeOK
  /\ ConsumerTypeOK

Init ==
  /\ TopicInit
  /\ RelayInit
  /\ ConsumerInit

Claim(r, e) == \E b \in SUBSET Events : e \in b /\ ClaimOutbox(r, b)

Publish(r, e) == PublishAcked(r, e) \/ PublishFailed(r, e) \/ AckLost(r, e)

Mark(r) == MarkOutboxPublished(r) \/ MarkOutboxFailed(r) \/ LeaseLost(r)

Relay ==
  /\ \/ \E e \in Events : WriteOutbox(e) \/ BecomesDue(e) \/ LeaseExpires(e)
     \/ \E r \in Relays : Mark(r) \/ RelayCrash(r)
     \/ \E r \in Relays, e \in Events : Claim(r, e) \/ Publish(r, e)
  /\ UNCHANGED consumerVars

Handle(c) == Handled(c) \/ HandlerFails(c) \/ OutcomeUnknown(c)

Consume ==
  /\ \/ \E c \in Consumers, t \in Sources :
          Assign(c, t) \/ Rebalance(c, t) \/ Revoke(c, t) \/ Fetch(c, t)
     \/ \E c \in Consumers :
          Handle(c) \/ Divert(c) \/ Commit(c) \/ ConsumerExit(c) \/ AnswerLost(c)
  /\ UNCHANGED relayVars

Next == Relay \/ Consume

Spec == Init /\ [][Next]_vars

(***************************************************************************)
(* Relays poll, publish and mark; leases and backoffs end; the group       *)
(* assigns an abandoned topic and a former owner learns that it is one;    *)
(* consumers go on with what they hold and read both topics. Publishing    *)
(* may fail any number of times, but a broker that is asked again and      *)
(* again accepts in the end: strong fairness. Handlers owe nothing: they   *)
(* may fail every time, which the attempt budget turns into a dead letter. *)
(***************************************************************************)
RelayFairness ==
  \A e \in Events :
    /\ WF_vars(BecomesDue(e) /\ UNCHANGED consumerVars)
    /\ \A r \in Relays :
         /\ SF_vars(Claim(r, e) /\ UNCHANGED consumerVars)
         /\ WF_vars(Publish(r, e) /\ UNCHANGED consumerVars)
         /\ SF_vars(PublishAcked(r, e) /\ UNCHANGED consumerVars)
         /\ WF_vars(Mark(r) /\ UNCHANGED consumerVars)

ConsumerFairness ==
  \A c \in Consumers :
    /\ WF_vars((Handle(c) \/ Divert(c) \/ Commit(c)) /\ UNCHANGED relayVars)
    /\ \A t \in Sources :
         /\ WF_vars(Assign(c, t) /\ UNCHANGED relayVars)
         /\ WF_vars(Revoke(c, t) /\ UNCHANGED relayVars)
         /\ SF_vars(Fetch(c, t) /\ UNCHANGED relayVars)

FairSpec == Spec /\ RelayFairness /\ ConsumerFairness

-----------------------------------------------------------------------------
(* Properties. *)

(* A row is only marked published if the event is in the main topic: the      *)
(* broker's acknowledgement comes first, whichever relay marks the row and    *)
(* however often the lease has changed hands.                                 *)
PublishedReachedTopic == \A e \in published : Contains("main", e)

(* Nothing is skipped: the event of every record at or below the committed    *)
(* offset has been notified, is a dead letter, or has a record in the retry   *)
(* topic that the group has yet to commit. Commits of former owners, lost     *)
(* answers and crashes between publish and commit do not change that.         *)
NoEventSkipped ==
  \A t \in Sources : \A i \in 1 .. committed[t] :
    LET e == log[t][i].event IN
    \/ e \in consumed
    \/ Contains("dlq", e)
    \/ \E j \in committed["retry"] + 1 .. Len(log["retry"]) : log["retry"][j].event = e

(* However often an event is published, delivered and retried, and by however *)
(* many consumers at once, its buyer gets at most one notification, and gets  *)
(* it exactly if the ledger says so.                                          *)
OneNotification ==
  \A e \in Events : notices[e] = IF e \in consumed THEN 1 ELSE 0

(* A live lease is exclusive: a row that is claimed and not yet due again is  *)
(* released only by the relay that claimed it, after publishing or failing    *)
(* to; a slow relay whose lease was taken over cannot touch the row.          *)
LeaseIsExclusive ==
  [][\A e \in Events :
       claimedBy[e] # Nobody /\ e \notin due =>
         \/ claimedBy'[e] = claimedBy[e]
         \/ \E m \in marking[claimedBy[e]] : m.event = e]_vars

(* Every event that order-rpc commits ends in a notification or in the dead   *)
(* letter topic: no crash, lost lease, rebalance or failing handler leaves it *)
(* half way for ever, and none is retried for ever.                           *)
EventsSettle ==
  \A e \in Events : e \in rows ~> (e \in consumed \/ Contains("dlq", e))
=============================================================================
