----------------------------- MODULE OutboxRelay -----------------------------
(***************************************************************************)
(* order-outbox-relay (outboxrelay/relay.go) over order_outbox_events      *)
(* (order/mysqlrepo/outbox.go): rows are leased to a relay, published to   *)
(* Kafka outside any transaction and then marked, each on its own.         *)
(*                                                                         *)
(* claim_until and next_attempt_at are kept as one fact, whether the row   *)
(* is due: a claim pushes the first into the future and a recorded failure *)
(* the second, and time brings the row back. The order inside a batch does *)
(* not matter, as every event has a key of its own.                        *)
(***************************************************************************)
EXTENDS EventTopics

CONSTANTS
  Relays,       \* the relay processes, each with its own WorkerID
  RelayBatch,   \* Config.BatchSize
  Nobody        \* claimed_by IS NULL, or nothing to mark

ASSUME RelayAssumption ==
  /\ RelayBatch \in Nat \ {0}
  /\ Nobody \notin Relays

VARIABLES
  rows,        \* the events order-rpc has committed with their orders
  published,   \* the rows with status = OutboxStatusPublished
  due,         \* the rows whose lease and backoff are over
  claimedBy,   \* claimed_by
  batch,       \* the claimed events a relay has yet to publish
  marking      \* the event a relay has published or failed to, and has to mark

relayVars == <<rows, published, due, claimedBy, batch, marking>>

Marking == [event : Events, acked : BOOLEAN]

RelayTypeOK ==
  /\ rows \in SUBSET Events
  /\ published \in SUBSET Events
  /\ due \in SUBSET Events
  /\ claimedBy \in [Events -> Relays \cup {Nobody}]
  /\ batch \in [Relays -> SUBSET Events]
  /\ marking \in [Relays -> SUBSET Marking]

RelayInit ==
  /\ rows = {}
  /\ published = {}
  /\ due = {}
  /\ claimedBy = [e \in Events |-> Nobody]
  /\ batch = [r \in Relays |-> {}]
  /\ marking = [r \in Relays |-> {}]

(* The transaction of CreateIdempotent: a pending row that is due at once. *)
WriteOutbox(e) ==
  /\ e \notin rows
  /\ rows' = rows \cup {e}
  /\ due' = due \cup {e}
  /\ UNCHANGED <<published, claimedBy, batch, marking, topicVars>>

(* SELECT ... FOR UPDATE SKIP LOCKED and the lease, in one transaction. Which *)
(* of the due rows it gets depends on the locks other relays hold.            *)
ClaimOutbox(r, b) ==
  /\ batch[r] = {} /\ marking[r] = {}
  /\ b # {} /\ b \subseteq due \ published
  /\ Cardinality(b) <= RelayBatch
  /\ claimedBy' = [e \in Events |-> IF e \in b THEN r ELSE claimedBy[e]]
  /\ due' = due \ b
  /\ batch' = [batch EXCEPT ![r] = b]
  /\ UNCHANGED <<rows, published, marking, topicVars>>

Published(r, e, acked) ==
  /\ e \in batch[r] /\ marking[r] = {}
  /\ batch' = [batch EXCEPT ![r] = @ \ {e}]
  /\ marking' = [marking EXCEPT ![r] = {[event |-> e, acked |-> acked]}]
  /\ UNCHANGED <<rows, published, due, claimedBy>>

PublishAcked(r, e) ==
  /\ Published(r, e, TRUE)
  /\ log' = Append1("main", e, 0)
  /\ UNCHANGED faults

(* Publish returns an error, and the record is not in the topic ... *)
PublishFailed(r, e) ==
  /\ Published(r, e, FALSE)
  /\ UNCHANGED topicVars

(* ... or it is, and only the acknowledgement was lost. *)
AckLost(r, e) ==
  /\ Fault
  /\ Published(r, e, FALSE)
  /\ log' = Append1("main", e, 0)

(* Both UPDATEs require the row to be pending and still claimed by the relay. *)
HoldsIgnoringClaim(r, e) == e \notin published
Holds(r, e) == e \notin published /\ claimedBy[e] = r

MarkOutboxPublished(r) ==
  \E m \in marking[r] :
    /\ m.acked
    /\ Holds(r, m.event)
    /\ published' = published \cup {m.event}
    /\ claimedBy' = [claimedBy EXCEPT ![m.event] = Nobody]
    /\ marking' = [marking EXCEPT ![r] = {}]
    /\ UNCHANGED <<rows, due, batch, topicVars>>

(* A failure is marked as a success: the event is never sent again. *)
MarkFailedAsPublished(r) ==
  \E m \in marking[r] :
    /\ ~m.acked
    /\ Holds(r, m.event)
    /\ published' = published \cup {m.event}
    /\ claimedBy' = [claimedBy EXCEPT ![m.event] = Nobody]
    /\ marking' = [marking EXCEPT ![r] = {}]
    /\ UNCHANGED <<rows, due, batch, topicVars>>

MarkOutboxFailed(r) ==
  \E m \in marking[r] :
    /\ ~m.acked
    /\ Holds(r, m.event)
    /\ claimedBy' = [claimedBy EXCEPT ![m.event] = Nobody]
    /\ due' = due \ {m.event}
    /\ marking' = [marking EXCEPT ![r] = {}]
    /\ UNCHANGED <<rows, published, batch, topicVars>>

(* The lease is lost: ProcessBatch and Run return the error, the process ends *)
(* with the rest of its batch and is started again.                           *)
LeaseLost(r) ==
  /\ \E m \in marking[r] : ~Holds(r, m.event)
  /\ batch' = [batch EXCEPT ![r] = {}]
  /\ marking' = [marking EXCEPT ![r] = {}]
  /\ UNCHANGED <<rows, published, due, claimedBy, topicVars>>

(* A relay dies at any point, or a database call of it fails. *)
RelayCrash(r) ==
  /\ Fault
  /\ batch[r] # {} \/ marking[r] # {}
  /\ batch' = [batch EXCEPT ![r] = {}]
  /\ marking' = [marking EXCEPT ![r] = {}]
  /\ UNCHANGED <<rows, published, due, claimedBy, log>>

Working(e) == \E r \in Relays : e \in batch[r] \/ \E m \in marking[r] : m.event = e

(* A claim without a deadline: the rows of a dead relay stay its own. *)
DueOnlyUnclaimed(e) ==
  /\ e \in rows \ (published \cup due)
  /\ ~Working(e)
  /\ claimedBy[e] = Nobody
  /\ due' = due \cup {e}
  /\ UNCHANGED <<rows, published, claimedBy, batch, marking, topicVars>>

(* A backoff or the lease of a dead relay ends ... *)
BecomesDue(e) ==
  /\ e \in rows \ (published \cup due)
  /\ ~Working(e)
  /\ due' = due \cup {e}
  /\ UNCHANGED <<rows, published, claimedBy, batch, marking, topicVars>>

(* ... or the lease of a relay that is still at work on a slow batch. *)
LeaseExpires(e) ==
  /\ Fault
  /\ e \in rows \ (published \cup due)
  /\ Working(e)
  /\ due' = due \cup {e}
  /\ UNCHANGED <<rows, published, claimedBy, batch, marking, log>>
=============================================================================
