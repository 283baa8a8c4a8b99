------------------------ MODULE EventDeliveryProofs ------------------------
(***************************************************************************)
(* The way of an event for any number of events, relays, consumers and     *)
(* faults. NoEventSkipped speaks of the committed offset alone and is not  *)
(* inductive: a commit is safe because of what the consumer did with the   *)
(* records before it, which may have been long ago and by another          *)
(* consumer. DeliveryInv says for every place an offset can come from (the *)
(* group, a reader's position, the record in hand) what is known about the *)
(* records below it.                                                       *)
(***************************************************************************)
EXTENDS EventDiagnosis, FiniteSetTheorems, SequenceTheorems, WellFoundedInduction, TLAPS

(* A message in a source topic still has an attempt left. *)
AttemptsInv ==
  \A t \in Sources : \A i \in 1 .. Len(log[t]) : log[t][i].attempt < MaxAttempts

(* Offsets are those of records, and a consumer holds at most one record. *)
OffsetsInv ==
  /\ \A t \in Sources : committed[t] <= Len(log[t])
  /\ \A c \in Consumers : \A t \in Sources : position[c][t] <= Len(log[t])
  /\ \A c \in Consumers : \A r \in hand[c] :
       /\ r.offset \in 1 .. Len(log[r.topic])
       /\ r.step = "retry" => log[r.topic][r.offset].attempt + 1 < MaxAttempts
       /\ \A s \in hand[c] : s = r

(* A relay only believes in an acknowledgement if the broker has the event. *)
AckedInv ==
  \A r \in Relays : \A m \in marking[r] : m.acked => Contains("main", m.event)

(* The event of a record needs nothing more from this record: it is notified, *)
(* a dead letter or the event of a later record of the retry topic.           *)
Done(t, i) ==
  LET e == log[t][i].event IN
  \/ e \in consumed
  \/ Contains("dlq", e)
  \/ \E j \in 1 .. Len(log["retry"]) :
       log["retry"][j].event = e /\ (t = "main" \/ j > i)

(* What is known below the committed offset ... *)
CommittedDone ==
  \A t \in Sources : \A i \in 1 .. committed[t] : Done(t, i)

(* ... up to the position of a reader ... *)
ReadDone ==
  \A t \in Sources : \A c \in assigned[t] : \A i \in 1 .. position[c][t] :
    Done(t, i) \/ \E r \in hand[c] : r.topic = t /\ r.offset = i

(* ... and up to the record in hand, which its reader may have lost since. *)
HandDone ==
  \A c \in Consumers : \A r \in hand[c] :
    /\ \A i \in 1 .. r.offset - 1 : Done(r.topic, i)
    /\ r.step = "commit" => Done(r.topic, r.offset)

DeliveryInv ==
  /\ TypeOK
  /\ AttemptsInv
  /\ OffsetsInv
  /\ AckedInv
  /\ PublishedReachedTopic
  /\ OneNotification
  /\ CommittedDone
  /\ ReadDone
  /\ HandDone

(* What v05check has read so far is still true of the topics. *)
CheckInv ==
  /\ check.rows \in SUBSET Events /\ check.end \in Nat
  /\ check.step = "outbox" /\ check.backlog = 0 =>
       \A e \in check.rows : Contains("main", e)
  /\ check.step = "end" /\ check.backlog = 0 =>
       /\ check.end <= Len(log["main"])
       /\ \A e \in check.rows : \E i \in 1 .. check.end : log["main"][i].event = e

-----------------------------------------------------------------------------
(* The topics. *)

(* A topic keeps its records at their offsets. *)
Grows ==
  \A t \in Topics :
    /\ Len(log[t]) <= Len(log'[t])
    /\ \A i \in 1 .. Len(log[t]) : log'[t][i] = log[t][i]

(* What a record holds, and which offsets a topic has. *)
LEMMA LogType ==
  ASSUME TopicTypeOK, NEW t \in Topics
  PROVE  /\ Len(log[t]) \in Nat
         /\ DOMAIN log[t] = 1 .. Len(log[t])
         /\ \A i \in 1 .. Len(log[t]) :
              log[t][i].event \in Events /\ log[t][i].attempt \in 0 .. MaxAttempts
<1>1. log[t] \in Seq(Message)
  BY DEF TopicTypeOK
<1>2. \A i \in 1 .. Len(log[t]) : log[t][i] \in Message
  BY <1>1, ElementOfSeq
<1> QED
  BY <1>1, <1>2, LenProperties DEF Message

(* Publishing adds one record at the end of one topic. *)
LEMMA PublishEffect ==
  ASSUME TopicTypeOK, NEW topic \in Topics, NEW e \in Events, NEW n \in 0 .. MaxAttempts,
         log' = Append1(topic, e, n)
  PROVE  /\ log' \in [Topics -> Seq(Message)]
         /\ Grows
         /\ Len(log'[topic]) = Len(log[topic]) + 1
         /\ log'[topic][Len(log[topic]) + 1] = [event |-> e, attempt |-> n]
         /\ \A t \in Topics \ {topic} : log'[t] = log[t]
<1> DEFINE m == [event |-> e, attempt |-> n]
<1>1. m \in Message
  BY DEF Message
<1>2. log[topic] \in Seq(Message) /\ log \in [Topics -> Seq(Message)]
  BY DEF TopicTypeOK
<1>3. log'[topic] = Append(log[topic], m)
  BY <1>2 DEF Append1
<1>4. \A t \in Topics \ {topic} : log'[t] = log[t]
  BY <1>2 DEF Append1
<1> HIDE DEF m
<1>5. /\ Append(log[topic], m) \in Seq(Message)
      /\ Len(Append(log[topic], m)) = Len(log[topic]) + 1
      /\ \A i \in 1 .. Len(log[topic]) : Append(log[topic], m)[i] = log[topic][i]
      /\ Append(log[topic], m)[Len(log[topic]) + 1] = m
  BY <1>1, <1>2, AppendProperties
<1>6. \A t \in Topics : Len(log[t]) \in Nat
  BY LogType
<1>7. Grows
  BY <1>3, <1>4, <1>5, <1>6 DEF Grows
<1>8. log' \in [Topics -> Seq(Message)]
  BY <1>1, <1>2, <1>5 DEF Append1, m
<1> QED
  BY <1>3, <1>4, <1>5, <1>7, <1>8 DEF m

(* An event that is in a topic stays there. *)
LEMMA ContainsStable ==
  ASSUME TopicTypeOK, TopicTypeOK', Grows, NEW t \in Topics, NEW e, Contains(t, e)
  PROVE  Contains(t, e)'
<1>1. PICK i \in 1 .. Len(log[t]) : log[t][i].event = e
  BY LogType DEF Contains
<1>2. /\ Len(log[t]) \in Nat /\ Len(log'[t]) \in Nat
      /\ DOMAIN log'[t] = 1 .. Len(log'[t])
  <2>1. Len(log[t]) \in Nat
    BY LogType
  <2>2. log'[t] \in Seq(Message)
    BY DEF TopicTypeOK
  <2> QED
    BY <2>1, <2>2, LenProperties
<1>3. i \in 1 .. Len(log'[t]) /\ log'[t][i] = log[t][i]
  BY <1>1, <1>2 DEF Grows
<1> QED
  BY <1>1, <1>2, <1>3 DEF Contains

(* What is done stays done. *)
LEMMA DoneStable ==
  ASSUME TopicTypeOK, TopicTypeOK', Grows, consumed \subseteq consumed',
         NEW t \in Sources, NEW i \in 1 .. Len(log[t]), Done(t, i)
  PROVE  Done(t, i)'
<1>1. t \in Topics /\ "retry" \in Topics /\ "dlq" \in Topics
  BY DEF Sources, Topics
<1> PICK e \in Events : e = log[t][i].event
  BY <1>1, LogType
<1>2. log'[t][i].event = e
  BY <1>1 DEF Grows
<1>3. CASE e \in consumed
  BY <1>2, <1>3 DEF Done
<1>4. CASE Contains("dlq", e)
  <2>1. Contains("dlq", e)'
    BY <1>1, <1>4, ContainsStable
  <2> QED
    BY <1>2, <2>1 DEF Done
<1>5. CASE \E j \in 1 .. Len(log["retry"]) :
             log["retry"][j].event = e /\ (t = "main" \/ j > i)
  <2>1. PICK j \in 1 .. Len(log["retry"]) :
          log["retry"][j].event = e /\ (t = "main" \/ j > i)
    BY <1>5
  <2>2. Len(log["retry"]) \in Nat /\ Len(log'["retry"]) \in Nat
    <3>1. log'["retry"] \in Seq(Message)
      BY <1>1 DEF TopicTypeOK
    <3> QED
      BY <3>1, <1>1, LogType, LenProperties
  <2>3. j \in 1 .. Len(log'["retry"]) /\ log'["retry"][j] = log["retry"][j]
    BY <1>1, <2>1, <2>2 DEF Grows
  <2> QED
    BY <1>2, <2>1, <2>3 DEF Done
<1> QED
  BY <1>3, <1>4, <1>5 DEF Done

(* A non-empty set of offsets of a topic has a last one. *)
LEMMA LastOffset ==
  ASSUME NEW n \in Nat, NEW S \in SUBSET (1 .. n), S # {}
  PROVE  \E j \in S : \A k \in S : k <= j
<1> DEFINE D == {n - j : j \in S}
<1>0. \A j \in S : n - j \in Nat
  <2>1. \A j \in S : j \in 1 .. n
    OBVIOUS
  <2>2. \A j \in 1 .. n : n - j \in Nat
    OBVIOUS
  <2> QED
    BY <2>1, <2>2
<1>1. D \subseteq Nat /\ D # {}
  <2>1. \A x \in D : \E j \in S : x = n - j
    OBVIOUS
  <2>2. \A j \in S : n - j \in D
    OBVIOUS
  <2> HIDE DEF D
  <2> QED
    BY <1>0, <2>1, <2>2
<1>2. PICK x \in D : \A y \in D : ~ (<<y, x>> \in OpToRel(<, Nat))
  BY <1>1, NatLessThanWellFounded, WFMin, Zenon
<1>3. \A y \in D : ~ (y < x)
  BY <1>1, <1>2 DEF OpToRel
<1>4. PICK j \in S : x = n - j
  BY <1>2
<1>5. ASSUME NEW k \in S PROVE k <= j
  <2>1. n - k \in D
    OBVIOUS
  <2> HIDE DEF D
  <2>2. ~ (n - k < n - j)
    BY <1>3, <1>4, <2>1
  <2>3. k \in Nat /\ j \in Nat
    OBVIOUS
  <2> QED
    BY <2>2, <2>3
<1> QED
  BY <1>5

-----------------------------------------------------------------------------
(* The invariant. *)

(* Nothing has happened yet. *)
LEMMA DeliveryInit == Init => DeliveryInv
<1> SUFFICES ASSUME Init PROVE DeliveryInv
  OBVIOUS
<1> USE DEF Init, TopicInit, RelayInit, ConsumerInit
<1>1. TopicTypeOK
  <2>1. <<>> \in Seq(Message)
    BY EmptySeq
  <2>2. 0 \in 0 .. MaxFaults
    BY TopicAssumption
  <2> QED
    BY <2>1, <2>2 DEF TopicTypeOK
<1>2. \A t \in Sources : Len(log[t]) = 0
  BY EmptySeq DEF Sources, Topics
<1>3. TypeOK
  BY <1>1 DEF TypeOK, RelayTypeOK, ConsumerTypeOK
<1>4. AttemptsInv
  BY <1>2 DEF AttemptsInv
<1>5. OffsetsInv
  BY <1>2 DEF OffsetsInv
<1>6. AckedInv /\ PublishedReachedTopic /\ HandDone
  BY DEF AckedInv, PublishedReachedTopic, HandDone
<1>7. OneNotification
  BY DEF OneNotification
<1>8. CommittedDone /\ ReadDone
  BY DEF CommittedDone, ReadDone
<1> QED
  BY <1>3, <1>4, <1>5, <1>6, <1>7, <1>8 DEF DeliveryInv

(* A diverted record has an attempt more, and one less than MaxAttempts if it *)
(* goes to the retry topic.                                                   *)
LEMMA DivertEffect ==
  ASSUME DeliveryInv, NEW c \in Consumers, NEW r \in hand[c], r.step \in {"retry", "dlq"},
         log' = Append1(r.step, MessageOf(r).event, MessageOf(r).attempt + 1)
  PROVE  /\ log' \in [Topics -> Seq(Message)]
         /\ Grows
         /\ Len(log'[r.step]) = Len(log[r.step]) + 1
         /\ log'[r.step][Len(log[r.step]) + 1].event = MessageOf(r).event
         /\ r.step = "retry" =>
              log'[r.step][Len(log[r.step]) + 1].attempt < MaxAttempts
         /\ \A t \in Topics \ {r.step} : log'[t] = log[t]
<1>1. TopicTypeOK /\ r \in Record
  BY DEF DeliveryInv, TypeOK, ConsumerTypeOK
<1>2. r.topic \in Sources /\ r.topic \in Topics /\ r.step \in Topics
  BY <1>1 DEF Record, Sources, Topics
<1>3. /\ r.offset \in 1 .. Len(log[r.topic])
      /\ r.step = "retry" => MessageOf(r).attempt + 1 < MaxAttempts
      /\ MessageOf(r).attempt < MaxAttempts
  BY <1>2 DEF DeliveryInv, OffsetsInv, AttemptsInv, MessageOf
<1>4. MessageOf(r).event \in Events /\ MessageOf(r).attempt \in 0 .. MaxAttempts
  BY <1>1, <1>2, <1>3, LogType DEF MessageOf
<1>5. MessageOf(r).attempt + 1 \in 0 .. MaxAttempts
  BY <1>3, <1>4, TopicAssumption
<1>6. PICK e \in Events, n \in 0 .. MaxAttempts :
        e = MessageOf(r).event /\ n = MessageOf(r).attempt + 1
  BY <1>4, <1>5
<1>7. /\ log' \in [Topics -> Seq(Message)] /\ Grows
      /\ Len(log'[r.step]) = Len(log[r.step]) + 1
      /\ log'[r.step][Len(log[r.step]) + 1] = [event |-> e, attempt |-> n]
      /\ \A t \in Topics \ {r.step} : log'[t] = log[t]
  <2>1. log' = Append1(r.step, e, n)
    BY <1>6
  <2> QED
    BY <1>1, <1>2, <2>1, PublishEffect
<1> QED
  BY <1>3, <1>6, <1>7

(* Every step leaves the topics as they are or adds one record. *)
LEMMA TopicStep ==
  ASSUME DeliveryInv, [Next]_vars
  PROVE  TopicTypeOK' /\ Grows /\ AttemptsInv'
<1>0. TopicTypeOK /\ TopicAssumption
  BY TopicAssumption DEF DeliveryInv, TypeOK
<1>1. ASSUME UNCHANGED log, faults' \in 0 .. MaxFaults
      PROVE  TopicTypeOK' /\ Grows /\ AttemptsInv'
  <2>1. \A t \in Topics : Len(log[t]) \in Nat
    BY <1>0, LogType
  <2> QED
    BY <1>0, <1>1, <2>1 DEF TopicTypeOK, Grows, DeliveryInv, AttemptsInv
<1>2. ASSUME Fault PROVE faults' \in 0 .. MaxFaults
  BY <1>0, <1>2 DEF Fault, TopicTypeOK
<1>3. ASSUME NEW e \in Events, log' = Append1("main", e, 0), faults' \in 0 .. MaxFaults
      PROVE  TopicTypeOK' /\ Grows /\ AttemptsInv'
  <2>0. "main" \in Topics /\ 0 \in 0 .. MaxAttempts /\ Sources \subseteq Topics
    BY <1>0 DEF Topics, Sources
  <2>1. /\ log' \in [Topics -> Seq(Message)] /\ Grows
        /\ Len(log'["main"]) = Len(log["main"]) + 1
        /\ log'["main"][Len(log["main"]) + 1] = [event |-> e, attempt |-> 0]
        /\ \A t \in Topics \ {"main"} : log'[t] = log[t]
    BY <1>0, <1>3, <2>0, PublishEffect
  <2>2. ASSUME NEW t \in Sources, NEW i \in 1 .. Len(log'[t])
        PROVE  log'[t][i].attempt < MaxAttempts
    <3>1. Len(log[t]) \in Nat
      BY <1>0, <2>0, LogType
    <3>2. i \in 1 .. Len(log[t]) => log'[t][i] = log[t][i]
      BY <2>0, <2>1 DEF Grows
    <3>3. CASE i \in 1 .. Len(log[t])
      BY <3>2, <3>3 DEF DeliveryInv, AttemptsInv
    <3>4. CASE i \notin 1 .. Len(log[t])
      <4>1. t = "main" /\ i = Len(log[t]) + 1
        BY <2>0, <2>1, <2>2, <3>1, <3>4
      <4> QED
        BY <1>0, <2>1, <4>1
    <3> QED
      BY <3>3, <3>4
  <2> QED
    BY <1>3, <2>1, <2>2 DEF TopicTypeOK, AttemptsInv
<1>4. ASSUME NEW c \in Consumers, NEW r \in hand[c], r.step \in {"retry", "dlq"},
             log' = Append1(r.step, MessageOf(r).event, MessageOf(r).attempt + 1),
             faults' \in 0 .. MaxFaults
      PROVE  TopicTypeOK' /\ Grows /\ AttemptsInv'
  <2>0. Sources \subseteq Topics /\ r.step \in Topics
    BY <1>4 DEF Topics, Sources
  <2>1. /\ log' \in [Topics -> Seq(Message)] /\ Grows
        /\ Len(log'[r.step]) = Len(log[r.step]) + 1
        /\ r.step = "retry" =>
             log'[r.step][Len(log[r.step]) + 1].attempt < MaxAttempts
        /\ \A t \in Topics \ {r.step} : log'[t] = log[t]
    BY <1>4, DivertEffect
  <2>2. ASSUME NEW t \in Sources, NEW i \in 1 .. Len(log'[t])
        PROVE  log'[t][i].attempt < MaxAttempts
    <3>1. Len(log[t]) \in Nat
      BY <1>0, <2>0, LogType
    <3>2. i \in 1 .. Len(log[t]) => log'[t][i] = log[t][i]
      BY <2>0, <2>1 DEF Grows
    <3>3. CASE i \in 1 .. Len(log[t])
      BY <3>2, <3>3 DEF DeliveryInv, AttemptsInv
    <3>4. CASE i \notin 1 .. Len(log[t])
      <4>1. t = r.step /\ i = Len(log[t]) + 1
        BY <2>0, <2>1, <2>2, <3>1, <3>4
      <4> QED
        BY <1>4, <2>1, <4>1 DEF Sources
    <3> QED
      BY <3>3, <3>4
  <2> QED
    BY <1>4, <2>1, <2>2 DEF TopicTypeOK, AttemptsInv
<1>5. UNCHANGED faults => faults' \in 0 .. MaxFaults
  BY <1>0 DEF TopicTypeOK
<1>6. ASSUME NEW e \in Events, WriteOutbox(e) \/ BecomesDue(e) \/ LeaseExpires(e)
      PROVE  TopicTypeOK' /\ Grows /\ AttemptsInv'
  BY <1>1, <1>2, <1>5, <1>6 DEF WriteOutbox, BecomesDue, LeaseExpires, topicVars
<1>7. ASSUME NEW r \in Relays, Mark(r) \/ RelayCrash(r)
      PROVE  TopicTypeOK' /\ Grows /\ AttemptsInv'
  BY <1>1, <1>2, <1>5, <1>7
  DEF Mark, MarkOutboxPublished, MarkOutboxFailed, LeaseLost, RelayCrash, topicVars
<1>8. ASSUME NEW r \in Relays, NEW e \in Events, Claim(r, e) \/ Publish(r, e)
      PROVE  TopicTypeOK' /\ Grows /\ AttemptsInv'
  BY <1>1, <1>2, <1>3, <1>5, <1>8
  DEF Claim, ClaimOutbox, Publish, PublishAcked, PublishFailed, AckLost, topicVars
<1>9. ASSUME NEW c \in Consumers, NEW t \in Sources,
             Assign(c, t) \/ Rebalance(c, t) \/ Revoke(c, t) \/ Fetch(c, t)
      PROVE  TopicTypeOK' /\ Grows /\ AttemptsInv'
  BY <1>1, <1>2, <1>5, <1>9 DEF Assign, Rebalance, Take, Revoke, Fetch, topicVars
<1>10. ASSUME NEW c \in Consumers, Handle(c) \/ Commit(c) \/ ConsumerExit(c)
       PROVE  TopicTypeOK' /\ Grows /\ AttemptsInv'
  BY <1>1, <1>2, <1>5, <1>10
  DEF Handle, Handled, HandlerFails, OutcomeUnknown, Commit, ConsumerExit, topicVars
<1>11. ASSUME NEW c \in Consumers, Divert(c) \/ AnswerLost(c)
       PROVE  TopicTypeOK' /\ Grows /\ AttemptsInv'
  BY <1>1, <1>2, <1>4, <1>5, <1>11 DEF Divert, AnswerLost
<1>12. CASE UNCHANGED vars
  BY <1>1, <1>5, <1>12 DEF vars, topicVars
<1> QED
  BY <1>6, <1>7, <1>8, <1>9, <1>10, <1>11, <1>12 DEF Next, Relay, Consume

(* A relay marks as acknowledged only what it has published. *)
LEMMA RelayStep ==
  ASSUME DeliveryInv, [Next]_vars
  PROVE  RelayTypeOK' /\ AckedInv'
<1>0. TopicTypeOK /\ RelayTypeOK /\ AckedInv /\ TopicTypeOK' /\ Grows
  BY TopicStep DEF DeliveryInv, TypeOK
<1>1. \A e \in Events : Contains("main", e) => Contains("main", e)'
  <2>1. "main" \in Topics
    BY DEF Topics
  <2> QED
    BY <1>0, <2>1, ContainsStable
<1>2. \A r \in Relays : \A m \in marking[r] : m.event \in Events /\ m.acked \in BOOLEAN
  BY <1>0 DEF RelayTypeOK, Marking
<1>3. ASSUME RelayTypeOK', \A r \in Relays : marking'[r] \subseteq marking[r]
      PROVE  RelayTypeOK' /\ AckedInv'
  BY <1>0, <1>1, <1>2, <1>3 DEF AckedInv
<1>4. ASSUME NEW e \in Events, WriteOutbox(e) \/ BecomesDue(e) \/ LeaseExpires(e)
      PROVE  RelayTypeOK' /\ AckedInv'
  <2>1. RelayTypeOK' /\ UNCHANGED marking
    BY <1>0, <1>4 DEF WriteOutbox, BecomesDue, LeaseExpires, RelayTypeOK
  <2> QED
    BY <1>3, <2>1
<1>5. ASSUME NEW r \in Relays, Mark(r) \/ RelayCrash(r)
      PROVE  RelayTypeOK' /\ AckedInv'
  <2>1. RelayTypeOK' /\ \A q \in Relays : marking'[q] \subseteq marking[q]
    <3>1. CASE MarkOutboxPublished(r) \/ MarkOutboxFailed(r)
      BY <1>0, <1>2, <3>1 DEF MarkOutboxPublished, MarkOutboxFailed, RelayTypeOK
    <3>2. CASE LeaseLost(r) \/ RelayCrash(r)
      BY <1>0, <3>2 DEF LeaseLost, RelayCrash, RelayTypeOK
    <3> QED
      BY <1>5, <3>1, <3>2 DEF Mark
  <2> QED
    BY <1>3, <2>1
<1>6. ASSUME NEW r \in Relays, NEW e \in Events, Claim(r, e)
      PROVE  RelayTypeOK' /\ AckedInv'
  <2>1. RelayTypeOK' /\ UNCHANGED marking
    BY <1>0, <1>6 DEF Claim, ClaimOutbox, RelayTypeOK
  <2> QED
    BY <1>3, <2>1
<1>7. ASSUME NEW r \in Relays, NEW e \in Events, NEW acked \in BOOLEAN, Published(r, e, acked),
             acked => Contains("main", e)'
      PROVE  RelayTypeOK' /\ AckedInv'
  <2>1. RelayTypeOK'
    BY <1>0, <1>7 DEF Published, RelayTypeOK, Marking
  <2>2. \A q \in Relays : \A m \in marking'[q] :
          m \in marking[q] \/ m = [event |-> e, acked |-> acked]
    BY <1>0, <1>7 DEF Published, RelayTypeOK
  <2> QED
    BY <1>0, <1>1, <1>2, <1>7, <2>1, <2>2 DEF AckedInv
<1>8. ASSUME NEW r \in Relays, NEW e \in Events, Publish(r, e)
      PROVE  RelayTypeOK' /\ AckedInv'
  <2>1. CASE PublishAcked(r, e)
    <3>0. "main" \in Topics /\ 0 \in 0 .. MaxAttempts
      BY TopicAssumption DEF Topics
    <3>1. /\ log' \in [Topics -> Seq(Message)]
          /\ Len(log'["main"]) = Len(log["main"]) + 1
          /\ log'["main"][Len(log["main"]) + 1] = [event |-> e, attempt |-> 0]
      BY <1>0, <2>1, <3>0, PublishEffect DEF PublishAcked
    <3>2. Len(log["main"]) \in Nat /\ DOMAIN log'["main"] = 1 .. Len(log'["main"])
      BY <1>0, <3>0, <3>1, LogType, LenProperties
    <3>3. Contains("main", e)'
      <4>1. PICK n \in Nat : n = Len(log["main"]) + 1
        BY <3>2
      <4>2. n \in DOMAIN log'["main"]
        BY <3>1, <3>2, <4>1
      <4>3. log'["main"][n].event = e
        BY <3>1, <4>1
      <4> QED
        BY <4>2, <4>3 DEF Contains
    <3> QED
      BY <1>7, <2>1, <3>3 DEF PublishAcked
  <2>2. CASE PublishFailed(r, e) \/ AckLost(r, e)
    BY <1>7, <2>2 DEF PublishFailed, AckLost
  <2> QED
    BY <1>8, <2>1, <2>2 DEF Publish
<1>9. CASE Consume \/ UNCHANGED vars
  <2>1. RelayTypeOK' /\ UNCHANGED marking
    BY <1>0, <1>9 DEF Consume, vars, relayVars, RelayTypeOK
  <2> QED
    BY <1>3, <2>1
<1> QED
  BY <1>4, <1>5, <1>6, <1>8, <1>9 DEF Next, Relay

(* A row becomes published by a relay that has the acknowledgement. *)
LEMMA PublishedStep ==
  ASSUME DeliveryInv, [Next]_vars
  PROVE  PublishedReachedTopic'
<1>1. /\ TopicTypeOK /\ RelayTypeOK /\ AckedInv /\ PublishedReachedTopic
      /\ TopicTypeOK' /\ Grows /\ "main" \in Topics
  BY TopicStep DEF DeliveryInv, TypeOK, Topics
<1>2. \A e \in published' :
        e \in published \/ \E r \in Relays : \E m \in marking[r] : m.acked /\ m.event = e
  <2>1. UNCHANGED published \/ \E r \in Relays : MarkOutboxPublished(r)
    BY DEF Next, Relay, Consume, vars, relayVars, WriteOutbox, BecomesDue, LeaseExpires,
           Mark, MarkOutboxFailed, LeaseLost, RelayCrash, Claim, ClaimOutbox, Publish,
           PublishAcked, PublishFailed, AckLost, Published
  <2> QED
    BY <2>1 DEF MarkOutboxPublished
<1>3. \A e \in published' : Contains("main", e)
  BY <1>1, <1>2 DEF AckedInv, PublishedReachedTopic
<1> QED
  BY <1>1, <1>3, ContainsStable DEF PublishedReachedTopic

(* The record in hand, and its message. *)
LEMMA HandType ==
  ASSUME DeliveryInv, NEW c \in Consumers, NEW r \in hand[c]
  PROVE  /\ r \in Record /\ r.topic \in Sources
         /\ r.offset \in 1 .. Len(log[r.topic]) /\ Len(log[r.topic]) \in Nat
         /\ MessageOf(r).event \in Events /\ MessageOf(r).attempt \in 0 .. MaxAttempts
         /\ hand[c] = {r}
<1>1. TopicTypeOK /\ r \in Record /\ r.topic \in Sources /\ r.topic \in Topics
  BY DEF DeliveryInv, TypeOK, ConsumerTypeOK, Record, Sources, Topics
<1>2. r.offset \in 1 .. Len(log[r.topic]) /\ hand[c] = {r}
  BY DEF DeliveryInv, OffsetsInv
<1> QED
  BY <1>1, <1>2, LogType DEF MessageOf

(* The ledger and the notifications agree after every outcome of a handler. *)
LEMMA NotifyEffect ==
  ASSUME ConsumerTypeOK, OneNotification, NEW e \in Events, Notify(e)
  PROVE  /\ notices' \in [Events -> Nat] /\ consumed' \in SUBSET Events
         /\ OneNotification' /\ consumed \subseteq consumed' /\ e \in consumed'
BY DEF ConsumerTypeOK, OneNotification, Notify

(* The types of a consumer group, and its ledger. *)
LEMMA ConsumerStep ==
  ASSUME DeliveryInv, [Next]_vars
  PROVE  ConsumerTypeOK' /\ OneNotification' /\ consumed \subseteq consumed'
<1>0. ConsumerTypeOK /\ OneNotification
  BY DEF DeliveryInv, TypeOK
<1>1. UNCHANGED <<consumed, notices>> => OneNotification' /\ consumed \subseteq consumed'
  BY <1>0 DEF OneNotification
<1>2. CASE Relay \/ UNCHANGED vars
  <2>1. UNCHANGED consumerVars
    BY <1>2 DEF Relay, vars
  <2> QED
    BY <1>0, <1>1, <2>1 DEF consumerVars, ConsumerTypeOK
<1>3. ASSUME NEW c \in Consumers, NEW t \in Sources,
             Assign(c, t) \/ Rebalance(c, t) \/ Revoke(c, t) \/ Fetch(c, t)
      PROVE  ConsumerTypeOK' /\ OneNotification' /\ consumed \subseteq consumed'
  <2>1. CASE Take(c, t)
    <3>1. position' \in [Consumers -> [Sources -> Nat]]
      BY <1>0, <2>1 DEF Take, ConsumerTypeOK
    <3>2. assigned' \in [Sources -> SUBSET Consumers]
      BY <1>0, <2>1 DEF Take, ConsumerTypeOK
    <3> QED
      BY <1>0, <1>1, <2>1, <3>1, <3>2 DEF Take, ConsumerTypeOK
  <2>2. CASE Revoke(c, t)
    BY <1>0, <1>1, <2>2 DEF Revoke, ConsumerTypeOK
  <2>3. CASE Fetch(c, t)
    <3>1. position' \in [Consumers -> [Sources -> Nat]]
      BY <1>0, <2>3 DEF Fetch, ConsumerTypeOK
    <3>2. hand' \in [Consumers -> SUBSET Record]
      BY <1>0, <2>3 DEF Fetch, ConsumerTypeOK, Record
    <3> QED
      BY <1>0, <1>1, <2>3, <3>1, <3>2 DEF Fetch, ConsumerTypeOK
  <2> QED
    BY <1>3, <2>1, <2>2, <2>3 DEF Assign, Rebalance
<1>4. ASSUME NEW c \in Consumers, Handle(c)
      PROVE  ConsumerTypeOK' /\ OneNotification' /\ consumed \subseteq consumed'
  <2>1. PICK r \in hand[c] :
          /\ \/ Notify(MessageOf(r).event)
             \/ UNCHANGED <<consumed, notices>>
          /\ \E step \in {"commit", "retry", "dlq"} : Goto(c, r, step)
          /\ UNCHANGED <<assigned, position, committed>>
    BY <1>4 DEF Handle, Handled, HandlerFails, OutcomeUnknown, Target
  <2>2. r \in Record /\ MessageOf(r).event \in Events
    BY HandType
  <2>3. hand' \in [Consumers -> SUBSET Record]
    BY <1>0, <2>1, <2>2 DEF Goto, Record, ConsumerTypeOK
  <2>4. /\ notices' \in [Events -> Nat] /\ consumed' \in SUBSET Events
        /\ OneNotification' /\ consumed \subseteq consumed'
    <3>1. CASE Notify(MessageOf(r).event)
      <4>1. PICK e \in Events : e = MessageOf(r).event
        BY <2>2
      <4> QED
        BY <1>0, <3>1, <4>1, NotifyEffect
    <3>2. CASE UNCHANGED <<consumed, notices>>
      BY <1>0, <3>2 DEF ConsumerTypeOK, OneNotification
    <3> QED
      BY <2>1, <3>1, <3>2
  <2> QED
    BY <1>0, <2>1, <2>3, <2>4 DEF ConsumerTypeOK
<1>5. ASSUME NEW c \in Consumers, Divert(c) \/ Commit(c)
      PROVE  ConsumerTypeOK' /\ OneNotification' /\ consumed \subseteq consumed'
  <2>1. hand' \in [Consumers -> SUBSET Record]
    BY <1>0, <1>5 DEF Divert, Goto, Commit, Record, ConsumerTypeOK
  <2>2. committed' \in [Sources -> Nat]
    BY <1>0, <1>5 DEF Divert, Commit, Record, ConsumerTypeOK
  <2> QED
    BY <1>0, <1>1, <1>5, <2>1, <2>2 DEF Divert, Commit, ConsumerTypeOK
<1>6. ASSUME NEW c \in Consumers, ConsumerExit(c) \/ AnswerLost(c)
      PROVE  ConsumerTypeOK' /\ OneNotification' /\ consumed \subseteq consumed'
  <2>1. \/ UNCHANGED committed
        \/ \E r \in hand[c] : committed' = [committed EXCEPT ![r.topic] = r.offset]
    BY <1>6 DEF ConsumerExit, AnswerLost
  <2>2. committed' \in [Sources -> Nat]
    BY <1>0, <2>1 DEF ConsumerTypeOK, Record
  <2>3. hand' \in [Consumers -> SUBSET Record] /\ assigned' \in [Sources -> SUBSET Consumers]
    BY <1>0, <1>6 DEF ConsumerExit, AnswerLost, Leave, ConsumerTypeOK
  <2> QED
    BY <1>0, <1>1, <1>6, <2>2, <2>3 DEF ConsumerExit, AnswerLost, Leave, ConsumerTypeOK
<1> QED
  BY <1>2, <1>3, <1>4, <1>5, <1>6 DEF Next, Consume

(* What holds of a record below the end of a topic holds of it later. *)
LEMMA RecordsStable ==
  ASSUME DeliveryInv, [Next]_vars, NEW t \in Sources
  PROVE  /\ Len(log[t]) \in Nat /\ Len(log'[t]) \in Nat /\ Len(log[t]) <= Len(log'[t])
         /\ \A i \in 1 .. Len(log[t]) :
              log'[t][i] = log[t][i] /\ (Done(t, i) => Done(t, i)')
<1>1. TopicTypeOK /\ TopicTypeOK' /\ Grows /\ consumed \subseteq consumed'
  BY TopicStep, ConsumerStep DEF DeliveryInv, TypeOK
<1>2. t \in Topics
  BY DEF Sources, Topics
<1>3. log'[t] \in Seq(Message)
  BY <1>1, <1>2 DEF TopicTypeOK
<1>4. Len(log[t]) \in Nat /\ Len(log'[t]) \in Nat
  BY <1>1, <1>2, <1>3, LogType, LenProperties
<1>5. \A i \in 1 .. Len(log[t]) : Done(t, i) => Done(t, i)'
  BY <1>1, DoneStable
<1> QED
  BY <1>1, <1>2, <1>4, <1>5 DEF Grows

(* The offsets of a consumer group. *)
GroupInv == OffsetsInv /\ CommittedDone /\ ReadDone /\ HandDone

(* The relays add records and leave the group alone. *)
LEMMA GroupUnchanged ==
  ASSUME DeliveryInv, [Next]_vars, UNCHANGED consumerVars
  PROVE  GroupInv'
<1> USE RecordsStable
<1>0. ConsumerTypeOK /\ OffsetsInv
  BY DEF DeliveryInv, TypeOK
<1>1. OffsetsInv'
  <2>1. \A t \in Sources : committed'[t] <= Len(log'[t])
    BY <1>0 DEF consumerVars, ConsumerTypeOK, OffsetsInv
  <2>2. \A c \in Consumers : \A t \in Sources : position'[c][t] <= Len(log'[t])
    BY <1>0 DEF consumerVars, ConsumerTypeOK, OffsetsInv
  <2>3. ASSUME NEW c \in Consumers, NEW r \in hand[c]
        PROVE  /\ r.offset \in 1 .. Len(log'[r.topic])
               /\ r.step = "retry" => log'[r.topic][r.offset].attempt + 1 < MaxAttempts
               /\ \A s \in hand[c] : s = r
    BY <2>3, HandType DEF DeliveryInv, OffsetsInv
  <2> QED
    BY <2>1, <2>2, <2>3 DEF consumerVars, OffsetsInv
<1>2. CommittedDone'
  <2> SUFFICES ASSUME NEW t \in Sources, NEW i \in 1 .. committed[t] PROVE Done(t, i)'
    BY DEF CommittedDone, consumerVars
  <2>1. i \in 1 .. Len(log[t]) /\ Done(t, i)
    BY <1>0 DEF DeliveryInv, CommittedDone, ConsumerTypeOK, OffsetsInv
  <2> QED
    BY <2>1
<1>3. ReadDone'
  BY <1>0 DEF DeliveryInv, ReadDone, consumerVars, ConsumerTypeOK, OffsetsInv
<1>4. HandDone'
  BY <1>0, HandType DEF DeliveryInv, HandDone, consumerVars
<1> QED
  BY <1>1, <1>2, <1>3, <1>4 DEF GroupInv

(* A new reader starts where the group has committed. *)
LEMMA GroupTake ==
  ASSUME DeliveryInv, [Next]_vars, NEW c \in Consumers, NEW t \in Sources,
         Take(c, t) \/ Revoke(c, t)
  PROVE  GroupInv'
<1>0. ConsumerTypeOK /\ OffsetsInv /\ UNCHANGED <<log, consumed, committed, hand>>
  BY DEF DeliveryInv, TypeOK, Take, Revoke, topicVars
<1>1. OffsetsInv'
  <2>1. \A d \in Consumers : \A u \in Sources :
          position'[d][u] = position[d][u] \/ position'[d][u] = committed[u]
    BY <1>0 DEF Take, Revoke, ConsumerTypeOK
  <2> QED
    BY <1>0, <2>1 DEF OffsetsInv
<1>2. CommittedDone'
  BY <1>0 DEF DeliveryInv, CommittedDone, Done, Contains
<1>3. HandDone'
  BY <1>0 DEF DeliveryInv, HandDone, Done, Contains
<1>4. ReadDone'
  <2>1. ASSUME NEW u \in Sources, NEW d \in assigned'[u]
        PROVE  \/ d \in assigned[u] /\ position'[d][u] = position[d][u]
               \/ position'[d][u] = committed[u]
    BY <1>0, <2>1 DEF Take, Revoke, ConsumerTypeOK
  <2>2. \A u \in Sources : \A i : Done(u, i) => Done(u, i)'
    BY <1>0 DEF Done, Contains
  <2> QED
    BY <1>0, <2>1, <2>2 DEF DeliveryInv, ReadDone, CommittedDone
<1> QED
  BY <1>1, <1>2, <1>3, <1>4 DEF GroupInv

(* A reader goes on when it has nothing in hand, so all before is done. *)
LEMMA GroupFetch ==
  ASSUME DeliveryInv, [Next]_vars, NEW c \in Consumers, NEW t \in Sources, Fetch(c, t)
  PROVE  GroupInv'
<1> DEFINE next == position[c][t] + 1
           new == [topic |-> t, offset |-> next, step |-> "handle"]
<1>0. /\ ConsumerTypeOK /\ OffsetsInv
      /\ UNCHANGED <<log, consumed, committed, assigned>>
      /\ hand[c] = {} /\ c \in assigned[t] /\ next <= Len(log[t])
      /\ hand' = [hand EXCEPT ![c] = {new}]
      /\ position' = [position EXCEPT ![c][t] = next]
  BY DEF DeliveryInv, TypeOK, Fetch, topicVars
<1>1. position[c][t] \in Nat /\ Len(log[t]) \in Nat
  BY <1>0, RecordsStable DEF ConsumerTypeOK
<1>2. \A d \in Consumers : \A r \in hand'[d] : (d # c /\ r \in hand[d]) \/ (d = c /\ r = new)
  BY <1>0 DEF ConsumerTypeOK
<1>3. \A d \in Consumers : \A u \in Sources :
        IF d = c /\ u = t THEN position'[d][u] = next ELSE position'[d][u] = position[d][u]
  BY <1>0 DEF ConsumerTypeOK
<1>4. \A u \in Sources : \A i : Done(u, i) => Done(u, i)'
  BY <1>0 DEF Done, Contains
<1>5. \A i \in 1 .. position[c][t] : Done(t, i)
  BY <1>0 DEF DeliveryInv, ReadDone
<1>6. OffsetsInv'
  <2>1. \A d \in Consumers : \A u \in Sources : position'[d][u] <= Len(log[u])
    BY <1>0, <1>3 DEF OffsetsInv
  <2>2. ASSUME NEW d \in Consumers, NEW r \in hand'[d]
        PROVE  /\ r.offset \in 1 .. Len(log[r.topic])
               /\ r.step = "retry" => log[r.topic][r.offset].attempt + 1 < MaxAttempts
               /\ \A s \in hand'[d] : s = r
    <3>1. CASE d # c
      BY <1>0, <1>2, <2>2, <3>1 DEF OffsetsInv
    <3>2. CASE d = c
      BY <1>0, <1>1, <1>2, <2>2, <3>2
    <3> QED
      BY <3>1, <3>2
  <2> QED
    BY <1>0, <2>1, <2>2 DEF OffsetsInv
<1>7. CommittedDone'
  BY <1>0, <1>4 DEF DeliveryInv, CommittedDone
<1>8. ReadDone'
  <2> SUFFICES ASSUME NEW u \in Sources, NEW d \in assigned[u], NEW i \in 1 .. position'[d][u]
               PROVE  Done(u, i)' \/ \E r \in hand'[d] : r.topic = u /\ r.offset = i
    BY <1>0 DEF ReadDone
  <2>1. d \in Consumers
    BY <1>0 DEF ConsumerTypeOK
  <2>2. CASE d # c
    <3>1. hand'[d] = hand[d] /\ position'[d][u] = position[d][u]
      BY <1>0, <2>1, <2>2 DEF ConsumerTypeOK
    <3> QED
      BY <1>4, <3>1 DEF DeliveryInv, ReadDone
  <2>3. CASE d = c /\ u # t
    <3>1. position'[d][u] = position[d][u] /\ hand[d] = {}
      BY <1>0, <1>3, <2>1, <2>3
    <3> QED
      BY <1>4, <3>1 DEF DeliveryInv, ReadDone
  <2>4. CASE d = c /\ u = t
    <3>1. i \in 1 .. next
      BY <1>3, <2>1, <2>4
    <3>2. CASE i = next
      <4>1. new \in hand'[d]
        BY <1>0, <2>4 DEF ConsumerTypeOK
      <4> QED
        BY <2>4, <3>2, <4>1
    <3>3. CASE i # next
      BY <1>1, <1>4, <1>5, <2>4, <3>1, <3>3
    <3> QED
      BY <3>2, <3>3
  <2> QED
    BY <2>2, <2>3, <2>4
<1>9. HandDone'
  <2> SUFFICES ASSUME NEW d \in Consumers, NEW r \in hand'[d]
               PROVE  /\ \A i \in 1 .. r.offset - 1 : Done(r.topic, i)'
                      /\ r.step = "commit" => Done(r.topic, r.offset)'
    BY DEF HandDone
  <2>1. CASE d # c
    <3>1. r \in hand[d] /\ r.topic \in Sources
      BY <1>2, <2>1, HandType
    <3> QED
      BY <1>4, <3>1 DEF DeliveryInv, HandDone
  <2>2. CASE d = c
    <3>1. r = new
      BY <1>2, <2>2
    <3> QED
      BY <1>1, <1>4, <1>5, <3>1
  <2> QED
    BY <2>1, <2>2
<1> QED
  BY <1>6, <1>7, <1>8, <1>9 DEF GroupInv

(* A consumer goes on with the record in its hand, and only comes to the      *)
(* commit when the record is done.                                            *)
LEMMA GroupAdvance ==
  ASSUME DeliveryInv, [Next]_vars, NEW c \in Consumers, NEW r \in hand[c],
         NEW step \in {"retry", "dlq", "commit"}, Goto(c, r, step),
         UNCHANGED <<assigned, position, committed>>,
         step = "retry" => MessageOf(r).attempt + 1 < MaxAttempts,
         step = "commit" => Done(r.topic, r.offset)'
  PROVE  GroupInv'
<1> USE RecordsStable
<1> DEFINE new == [r EXCEPT !.step = step]
<1>0. ConsumerTypeOK /\ OffsetsInv
  BY DEF DeliveryInv, TypeOK
<1>1. /\ r \in Record /\ r.topic \in Sources /\ r.offset \in 1 .. Len(log[r.topic])
      /\ hand[c] = {r}
  BY HandType
<1>2. new.topic = r.topic /\ new.offset = r.offset /\ new.step = step
  BY <1>1 DEF Record
<1>3. \A d \in Consumers : hand'[d] = IF d = c THEN {new} ELSE hand[d]
  BY <1>0 DEF Goto, ConsumerTypeOK
<1> HIDE DEF new
<1>4. OffsetsInv'
  <2>1. ASSUME NEW t \in Sources PROVE committed[t] <= Len(log'[t])
    <3>1. committed[t] \in Nat /\ committed[t] <= Len(log[t])
      BY <1>0 DEF ConsumerTypeOK, OffsetsInv
    <3> QED
      BY <3>1
  <2>2. \A d \in Consumers : \A t \in Sources : position'[d][t] <= Len(log'[t])
    BY <1>0 DEF ConsumerTypeOK, OffsetsInv
  <2>3. ASSUME NEW d \in Consumers, NEW q \in hand'[d]
        PROVE  /\ q.offset \in 1 .. Len(log'[q.topic])
               /\ q.step = "retry" => log'[q.topic][q.offset].attempt + 1 < MaxAttempts
               /\ \A s \in hand'[d] : s = q
    <3>1. CASE d = c
      <4>1. q = new /\ hand'[d] = {new}
        BY <1>3, <2>3, <3>1
      <4> QED
        BY <1>1, <1>2, <4>1 DEF MessageOf
    <3>2. CASE d # c
      <4>1. q \in hand[d] /\ hand'[d] = hand[d]
        BY <1>3, <2>3, <3>2
      <4>2. q.topic \in Sources /\ q.offset \in 1 .. Len(log[q.topic])
        BY <4>1, HandType
      <4> QED
        BY <1>0, <4>1, <4>2 DEF OffsetsInv
    <3> QED
      BY <3>1, <3>2
  <2> QED
    BY <2>1, <2>2, <2>3 DEF OffsetsInv
<1>5. CommittedDone'
  <2> SUFFICES ASSUME NEW t \in Sources, NEW i \in 1 .. committed[t] PROVE Done(t, i)'
    BY DEF CommittedDone
  <2>1. i \in 1 .. Len(log[t]) /\ Done(t, i)
    BY <1>0 DEF DeliveryInv, CommittedDone, ConsumerTypeOK, OffsetsInv
  <2> QED
    BY <2>1
<1>6. ReadDone'
  <2> SUFFICES ASSUME NEW t \in Sources, NEW d \in assigned[t], NEW i \in 1 .. position[d][t]
               PROVE  Done(t, i)' \/ \E q \in hand'[d] : q.topic = t /\ q.offset = i
    BY DEF ReadDone
  <2>1. d \in Consumers /\ i \in 1 .. Len(log[t])
    BY <1>0 DEF ConsumerTypeOK, OffsetsInv
  <2>2. Done(t, i) \/ \E q \in hand[d] : q.topic = t /\ q.offset = i
    BY DEF DeliveryInv, ReadDone
  <2>3. CASE Done(t, i)
    BY <2>1, <2>3
  <2>4. ASSUME NEW q \in hand[d], q.topic = t, q.offset = i
        PROVE  \E p \in hand'[d] : p.topic = t /\ p.offset = i
    BY <1>1, <1>2, <1>3, <2>1, <2>4
  <2> QED
    BY <2>2, <2>3, <2>4
<1>7. HandDone'
  <2> SUFFICES ASSUME NEW d \in Consumers, NEW q \in hand'[d]
               PROVE  /\ \A i \in 1 .. q.offset - 1 : Done(q.topic, i)'
                      /\ q.step = "commit" => Done(q.topic, q.offset)'
    BY DEF HandDone
  <2>1. CASE d = c
    <3>1. q = new
      BY <1>3, <2>1
    <3>2. \A i \in 1 .. r.offset - 1 : i \in 1 .. Len(log[r.topic]) /\ Done(r.topic, i)
      BY <1>1 DEF DeliveryInv, HandDone
    <3> QED
      BY <1>1, <1>2, <3>1, <3>2
  <2>2. CASE d # c
    <3>1. q \in hand[d]
      BY <1>3, <2>2
    <3>2. q.topic \in Sources /\ q.offset \in 1 .. Len(log[q.topic])
      BY <3>1, HandType
    <3>3. \A i \in 1 .. q.offset - 1 : i \in 1 .. Len(log[q.topic]) /\ Done(q.topic, i)
      BY <3>1, <3>2 DEF DeliveryInv, HandDone
    <3>4. q.step = "commit" => Done(q.topic, q.offset)
      BY <3>1 DEF DeliveryInv, HandDone
    <3> QED
      BY <3>2, <3>3, <3>4
  <2> QED
    BY <2>1, <2>2
<1> QED
  BY <1>4, <1>5, <1>6, <1>7 DEF GroupInv

(* A consumer lets go of its record, as it commits it or leaves the group.    *)
(* Even a commit that moves the offset back leaves only done records below.   *)
LEMMA GroupRelease ==
  ASSUME DeliveryInv, [Next]_vars, NEW c \in Consumers,
         hand' = [hand EXCEPT ![c] = {}], UNCHANGED position,
         \/ UNCHANGED committed
         \/ \E r \in hand[c] :
              r.step = "commit" /\ committed' = [committed EXCEPT ![r.topic] = r.offset],
         \/ UNCHANGED assigned /\ \A r \in hand[c] : r.step = "commit"
         \/ assigned' = [t \in Sources |-> assigned[t] \ {c}]
  PROVE  GroupInv'
<1> USE RecordsStable
<1>0. ConsumerTypeOK /\ OffsetsInv
  BY DEF DeliveryInv, TypeOK
<1>1. \A d \in Consumers : hand'[d] = IF d = c THEN {} ELSE hand[d]
  BY <1>0 DEF ConsumerTypeOK
<1>2. ASSUME NEW t \in Sources
      PROVE  /\ committed'[t] \in Nat /\ committed'[t] <= Len(log[t])
             /\ \A i \in 1 .. committed'[t] : Done(t, i)
  <2>1. CASE committed'[t] = committed[t]
    BY <1>0, <2>1 DEF DeliveryInv, OffsetsInv, CommittedDone, ConsumerTypeOK
  <2>2. ASSUME NEW r \in hand[c], r.step = "commit", r.topic = t, committed'[t] = r.offset
        PROVE  /\ committed'[t] \in Nat /\ committed'[t] <= Len(log[t])
               /\ \A i \in 1 .. committed'[t] : Done(t, i)
    <3>1. r.offset \in 1 .. Len(log[t])
      BY <2>2, HandType
    <3>2. (\A i \in 1 .. r.offset - 1 : Done(t, i)) /\ Done(t, r.offset)
      BY <2>2 DEF DeliveryInv, HandDone
    <3>3. \A i \in 1 .. r.offset : i = r.offset \/ i \in 1 .. r.offset - 1
      BY <3>1
    <3> QED
      BY <2>2, <3>1, <3>2, <3>3
  <2> QED
    BY <1>0, <2>1, <2>2 DEF ConsumerTypeOK
<1>3. OffsetsInv'
  <2>1. \A t \in Sources : committed'[t] <= Len(log'[t])
    BY <1>2
  <2>2. \A d \in Consumers : \A t \in Sources : position'[d][t] <= Len(log'[t])
    BY <1>0 DEF ConsumerTypeOK, OffsetsInv
  <2>3. ASSUME NEW d \in Consumers, NEW q \in hand'[d]
        PROVE  /\ q.offset \in 1 .. Len(log'[q.topic])
               /\ q.step = "retry" => log'[q.topic][q.offset].attempt + 1 < MaxAttempts
               /\ \A s \in hand'[d] : s = q
    <3>1. q \in hand[d] /\ hand'[d] = hand[d]
      BY <1>1, <2>3
    <3>2. q.topic \in Sources /\ q.offset \in 1 .. Len(log[q.topic])
      BY <3>1, HandType
    <3> QED
      BY <1>0, <3>1, <3>2 DEF OffsetsInv
  <2> QED
    BY <2>1, <2>2, <2>3 DEF OffsetsInv
<1>4. CommittedDone'
  <2> SUFFICES ASSUME NEW t \in Sources, NEW i \in 1 .. committed'[t] PROVE Done(t, i)'
    BY DEF CommittedDone
  <2>1. i \in 1 .. Len(log[t]) /\ Done(t, i)
    BY <1>2
  <2> QED
    BY <2>1
<1>5. ReadDone'
  <2> SUFFICES ASSUME NEW t \in Sources, NEW d \in assigned'[t], NEW i \in 1 .. position[d][t]
               PROVE  Done(t, i)' \/ \E q \in hand'[d] : q.topic = t /\ q.offset = i
    BY DEF ReadDone
  <2>1. d \in assigned[t] /\ (d = c => \A r \in hand[c] : r.step = "commit")
    BY <1>0 DEF ConsumerTypeOK
  <2>2. d \in Consumers /\ i \in 1 .. Len(log[t])
    BY <1>0, <2>1 DEF ConsumerTypeOK, OffsetsInv
  <2>3. Done(t, i) \/ \E q \in hand[d] : q.topic = t /\ q.offset = i
    BY <2>1 DEF DeliveryInv, ReadDone
  <2>4. CASE Done(t, i)
    BY <2>2, <2>4
  <2>5. CASE d # c
    BY <1>1, <2>2, <2>3, <2>4, <2>5
  <2>6. ASSUME NEW q \in hand[d], q.topic = t, q.offset = i, d = c PROVE Done(t, i)
    BY <2>1, <2>6 DEF DeliveryInv, HandDone
  <2> QED
    BY <2>3, <2>4, <2>5, <2>6
<1>6. HandDone'
  <2> SUFFICES ASSUME NEW d \in Consumers, NEW q \in hand'[d]
               PROVE  /\ \A i \in 1 .. q.offset - 1 : Done(q.topic, i)'
                      /\ q.step = "commit" => Done(q.topic, q.offset)'
    BY DEF HandDone
  <2>1. q \in hand[d]
    BY <1>1
  <2>2. q.topic \in Sources /\ q.offset \in 1 .. Len(log[q.topic])
    BY <2>1, HandType
  <2>3. \A i \in 1 .. q.offset - 1 : i \in 1 .. Len(log[q.topic]) /\ Done(q.topic, i)
    BY <2>1, <2>2 DEF DeliveryInv, HandDone
  <2>4. q.step = "commit" => Done(q.topic, q.offset)
    BY <2>1 DEF DeliveryInv, HandDone
  <2> QED
    BY <2>2, <2>3, <2>4
<1> QED
  BY <1>3, <1>4, <1>5, <1>6 DEF GroupInv

(* Every step of the group and of the relays keeps what is known of offsets. *)
LEMMA GroupStep ==
  ASSUME DeliveryInv, [Next]_vars
  PROVE  GroupInv'
<1>1. CASE Relay \/ UNCHANGED vars
  BY <1>1, GroupUnchanged DEF Relay, vars
<1>2. ASSUME NEW c \in Consumers, NEW t \in Sources,
             Assign(c, t) \/ Rebalance(c, t) \/ Revoke(c, t) \/ Fetch(c, t)
      PROVE  GroupInv'
  BY <1>2, GroupTake, GroupFetch DEF Assign, Rebalance
<1>3. ASSUME NEW c \in Consumers, Handle(c)
      PROVE  GroupInv'
  <2>1. PICK r \in hand[c] :
          /\ UNCHANGED <<assigned, position, committed, log>>
          /\ \/ Notify(MessageOf(r).event) /\ Goto(c, r, "commit")
             \/ \E permanent \in BOOLEAN : Goto(c, r, Target(MessageOf(r), permanent))
    BY <1>3 DEF Handle, Handled, HandlerFails, OutcomeUnknown, topicVars
  <2>2. CASE Notify(MessageOf(r).event) /\ Goto(c, r, "commit")
    <3>1. Done(r.topic, r.offset)'
      BY <2>1, <2>2 DEF Notify, MessageOf, Done
    <3> QED
      BY <2>1, <2>2, <3>1, GroupAdvance
  <2>3. ASSUME NEW permanent \in BOOLEAN, Goto(c, r, Target(MessageOf(r), permanent))
        PROVE  GroupInv'
    <3>1. MessageOf(r).attempt \in Nat
      BY HandType, TopicAssumption
    <3>2. PICK step \in {"retry", "dlq"} :
            /\ step = Target(MessageOf(r), permanent)
            /\ step = "retry" => MessageOf(r).attempt + 1 < MaxAttempts
      BY <3>1, TopicAssumption DEF Target
    <3> QED
      BY <2>1, <2>3, <3>2, GroupAdvance
  <2> QED
    BY <2>1, <2>2, <2>3
<1>4. ASSUME NEW c \in Consumers, Divert(c)
      PROVE  GroupInv'
  <2>1. PICK r \in hand[c] :
          /\ r.step \in {"retry", "dlq"}
          /\ log' = Append1(r.step, MessageOf(r).event, MessageOf(r).attempt + 1)
          /\ Goto(c, r, "commit")
          /\ UNCHANGED <<assigned, position, committed>>
    BY <1>4 DEF Divert
  <2>2. /\ r.topic \in Sources /\ r.offset \in 1 .. Len(log[r.topic])
        /\ Len(log[r.topic]) \in Nat
    BY HandType
  <2>3. /\ log' \in [Topics -> Seq(Message)]
        /\ Len(log'[r.step]) = Len(log[r.step]) + 1
        /\ log'[r.step][Len(log[r.step]) + 1].event = MessageOf(r).event
    BY <2>1, DivertEffect
  <2>4. log'[r.topic][r.offset].event = MessageOf(r).event
    BY <2>2, RecordsStable DEF MessageOf
  <2>5. Len(log[r.step]) \in Nat /\ DOMAIN log'[r.step] = 1 .. Len(log'[r.step])
    <3>1. r.step \in Topics /\ TopicTypeOK
      BY <2>1 DEF Topics, DeliveryInv, TypeOK
    <3> QED
      BY <2>3, <3>1, LogType, LenProperties
  <2>6. Done(r.topic, r.offset)'
    <3>1. CASE r.step = "dlq"
      <4>1. \E i \in DOMAIN log'["dlq"] : log'["dlq"][i].event = MessageOf(r).event
        BY <2>3, <2>5, <3>1
      <4> QED
        BY <2>4, <4>1 DEF Done, Contains
    <3>2. CASE r.step = "retry"
      <4>1. PICK j \in 1 .. Len(log'["retry"]) :
              j = Len(log["retry"]) + 1 /\ log'["retry"][j].event = MessageOf(r).event
        BY <2>3, <2>5, <3>2
      <4>2. r.topic = "main" \/ j > r.offset
        BY <2>2, <2>5, <3>2, <4>1 DEF Sources
      <4> QED
        BY <2>4, <4>1, <4>2 DEF Done
    <3> QED
      BY <2>1, <3>1, <3>2
  <2> QED
    BY <2>1, <2>6, GroupAdvance
<1>5. ASSUME NEW c \in Consumers, Commit(c)
      PROVE  GroupInv'
  <2>1. \A r \in hand[c] : hand[c] = {r}
    BY HandType
  <2>2. PICK r \in hand[c] :
          /\ r.step = "commit"
          /\ committed' = [committed EXCEPT ![r.topic] = r.offset]
          /\ hand' = [hand EXCEPT ![c] = {}]
          /\ UNCHANGED <<assigned, position>>
    BY <1>5 DEF Commit
  <2> QED
    BY <2>1, <2>2, GroupRelease
<1>6. ASSUME NEW c \in Consumers, ConsumerExit(c) \/ AnswerLost(c)
      PROVE  GroupInv'
  <2>1. /\ hand' = [hand EXCEPT ![c] = {}] /\ UNCHANGED position
        /\ assigned' = [t \in Sources |-> assigned[t] \ {c}]
        /\ \/ UNCHANGED committed
           \/ \E r \in hand[c] :
                r.step = "commit" /\ committed' = [committed EXCEPT ![r.topic] = r.offset]
    BY <1>6 DEF ConsumerExit, AnswerLost, Leave
  <2> QED
    BY <2>1, GroupRelease
<1> QED
  BY <1>1, <1>2, <1>3, <1>4, <1>5, <1>6 DEF Next, Consume

(* The invariant is inductive. *)
LEMMA DeliveryStep == DeliveryInv /\ [Next]_vars => DeliveryInv'
BY TopicStep, RelayStep, PublishedStep, ConsumerStep, GroupStep DEF DeliveryInv, TypeOK, GroupInv

(* It holds in every state the relays and the group can reach. *)
LEMMA DeliveryInvariant == Spec => []DeliveryInv
BY DeliveryInit, DeliveryStep, PTL DEF Spec

-----------------------------------------------------------------------------
(* The properties. *)

(* Done records below the committed offsets mean that nothing is skipped: the *)
(* last record of an event in the retry topic is not followed by another, so  *)
(* it is above the committed offset or the event is notified or dead.         *)
LEMMA DoneIsAccounted == DeliveryInv => NoEventSkipped
<1> SUFFICES ASSUME DeliveryInv, NEW t \in Sources, NEW i \in 1 .. committed[t],
                    ~ (log[t][i].event \in consumed), ~ Contains("dlq", log[t][i].event)
             PROVE  \E j \in committed["retry"] + 1 .. Len(log["retry"]) :
                      log["retry"][j].event = log[t][i].event
  BY DEF NoEventSkipped
<1> DEFINE n == Len(log["retry"])
           S == {j \in 1 .. n : log["retry"][j].event = log[t][i].event}
<1>1. n \in Nat /\ "retry" \in Sources
  BY LogType DEF DeliveryInv, TypeOK, Topics, Sources
<1>2. committed["retry"] \in Nat
  BY <1>1 DEF DeliveryInv, TypeOK, ConsumerTypeOK
<1>3. S # {}
  BY DEF DeliveryInv, CommittedDone, Done
<1> HIDE DEF n
<1>4. PICK j \in S : \A k \in S : k <= j
  BY <1>1, <1>3, LastOffset
<1>5. ~ (j <= committed["retry"])
  <2>1. SUFFICES ASSUME j <= committed["retry"] PROVE FALSE
    OBVIOUS
  <2>2. Done("retry", j)
    BY <1>1, <1>2, <2>1 DEF DeliveryInv, CommittedDone
  <2>3. PICK k \in 1 .. n : log["retry"][k].event = log["retry"][j].event /\ k > j
    BY <2>2 DEF Done, n
  <2>4. k \in S
    BY <2>3
  <2> QED
    BY <1>1, <1>4, <2>3, <2>4
<1> QED
  BY <1>1, <1>2, <1>4, <1>5 DEF n

(* The types of the topics, the relays and the group. *)
THEOREM DeliveryTypes == Spec => []TypeOK
BY DeliveryInvariant, PTL DEF DeliveryInv

(* order_outbox_events never says published of an event the broker has not    *)
(* acknowledged, for any number of relays taking over each other's leases.    *)
THEOREM NoPhantomPublish == Spec => []PublishedReachedTopic
BY DeliveryInvariant, PTL DEF DeliveryInv

(* notification_consumptions makes delivery effectively once: for any number  *)
(* of duplicates, consumers and retries a buyer is notified at most once.     *)
THEOREM NotifiedOnce == Spec => []OneNotification
BY DeliveryInvariant, PTL DEF DeliveryInv

(* ProcessOne and CommitRecords lose no event: what is at or below the        *)
(* committed offset is notified, a dead letter or still to be retried.        *)
THEOREM NothingSkipped == Spec => []NoEventSkipped
BY DeliveryInvariant, DoneIsAccounted, PTL

(* A claimed row that is not due is only released by its own relay, whatever  *)
(* the other relays, slow or restarted, do meanwhile.                         *)
THEOREM ExclusiveLease == Spec => LeaseIsExclusive
<1> DEFINE Keeps ==
      \A e \in Events :
        claimedBy[e] # Nobody /\ e \notin due =>
          \/ claimedBy'[e] = claimedBy[e]
          \/ \E m \in marking[claimedBy[e]] : m.event = e
<1>1. ASSUME DeliveryInv, [Next]_vars PROVE Keeps
  <2>0. RelayTypeOK
    BY <1>1 DEF DeliveryInv, TypeOK
  <2>1. CASE UNCHANGED claimedBy
    BY <2>1
  <2>2. ASSUME NEW r \in Relays, MarkOutboxPublished(r) \/ MarkOutboxFailed(r) PROVE Keeps
    BY <2>0, <2>2 DEF MarkOutboxPublished, MarkOutboxFailed, Holds, RelayTypeOK, Marking
  <2>3. ASSUME NEW r \in Relays, NEW e \in Events, Claim(r, e) PROVE Keeps
    BY <2>0, <2>3 DEF Claim, ClaimOutbox, RelayTypeOK
  <2> QED
    BY <1>1, <2>1, <2>2, <2>3
    DEF Next, Relay, Consume, vars, relayVars, WriteOutbox, BecomesDue, LeaseExpires, Mark,
        LeaseLost, RelayCrash, Publish, PublishAcked, PublishFailed, AckLost, Published
<1>2. DeliveryInv /\ [Next]_vars => [Keeps]_vars
  BY <1>1
<1>3. Spec => [][Keeps]_vars
  BY <1>2, DeliveryInvariant, PTL DEF Spec
<1> QED
  BY <1>3 DEF LeaseIsExclusive

-----------------------------------------------------------------------------
(* v05check. *)

(* A check that has read its numbers while relays and consumers work. *)
LEMMA CheckStep ==
  ASSUME DeliveryInv, CheckInv, [CheckNext]_<<vars, check>>
  PROVE  CheckInv'
<1>0. /\ TopicTypeOK /\ RelayTypeOK /\ PublishedReachedTopic /\ "main" \in Topics
      /\ Len(log["main"]) \in Nat /\ DOMAIN log["main"] = 1 .. Len(log["main"])
  BY LogType DEF DeliveryInv, TypeOK, Topics
<1>1. CASE [Next]_vars /\ UNCHANGED check
  <2>1. TopicTypeOK' /\ Grows
    BY <1>1, TopicStep
  <2>2. \A e \in Events : Contains("main", e) => Contains("main", e)'
    BY <1>0, <2>1, ContainsStable
  <2>3. Len(log'["main"]) \in Nat
    <3>1. log'["main"] \in Seq(Message)
      BY <1>0, <2>1 DEF TopicTypeOK
    <3> QED
      BY <3>1, LenProperties
  <2> QED
    BY <1>0, <1>1, <2>1, <2>2, <2>3 DEF CheckInv, Grows
<1>2. CASE CountBacklog /\ UNCHANGED vars
  <2>1. check'.backlog = 0 => rows \subseteq published
    <3>1. IsFiniteSet(rows \ published)
      BY <1>0, TopicAssumption, FS_Subset DEF RelayTypeOK
    <3> QED
      BY <1>2, <3>1, FS_EmptySet DEF CountBacklog
  <2>2. check'.backlog = 0 => \A e \in rows : Contains("main", e)
    BY <1>0, <2>1 DEF PublishedReachedTopic
  <2> QED
    BY <1>0, <1>2, <2>2
    DEF CountBacklog, CheckInv, RelayTypeOK, vars, topicVars, Contains
<1>3. CASE ListOffsets /\ UNCHANGED vars
  BY <1>0, <1>3 DEF ListOffsets, CheckInv, vars, topicVars, Contains
<1>4. CASE (PrintReport \/ CheckFails) /\ UNCHANGED vars
  BY <1>4 DEF PrintReport, CheckFails, NoCheck, CheckInv
<1> QED
  BY <1>1, <1>2, <1>3, <1>4 DEF CheckNext, Inspect

(* A clean report of v05check means what it says, although its numbers are    *)
(* read one after the other: every event of the Outbox at its start is        *)
(* accounted for, for any number of relays, consumers and faults.             *)
THEOREM CleanReportHolds == CheckSpec => CleanReport
<1> DEFINE Believed ==
      /\ check.step = "end" /\ check'.step = "idle"
      /\ check.backlog = 0 /\ kafkaGroupLag = 0
      => \A e \in check.rows : Accounted(e)
<1>1. CheckInit => DeliveryInv /\ CheckInv
  <2>1. CheckInit => CheckInv
    BY DEF CheckInit, NoCheck, CheckInv
  <2> QED
    BY <2>1, DeliveryInit DEF CheckInit
<1>2. DeliveryInv /\ CheckInv /\ [CheckNext]_<<vars, check>> => (DeliveryInv /\ CheckInv)'
  <2>1. [CheckNext]_<<vars, check>> => [Next]_vars
    BY DEF CheckNext, Inspect
  <2> QED
    BY <2>1, CheckStep, DeliveryStep
<1>3. ASSUME DeliveryInv, CheckInv PROVE Believed
  <2> SUFFICES ASSUME check.step = "end", check.backlog = 0, kafkaGroupLag = 0,
                      NEW e \in check.rows
               PROVE  Accounted(e)
    OBVIOUS
  <2>1. NoEventSkipped
    BY <1>3, DoneIsAccounted
  <2>2. "main" \in Sources /\ committed["main"] \in Nat /\ check.end \in Nat
    BY <1>3 DEF DeliveryInv, TypeOK, ConsumerTypeOK, Sources, CheckInv
  <2>3. check.end <= committed["main"]
    BY <2>2 DEF kafkaGroupLag
  <2>4. PICK i \in 1 .. check.end : log["main"][i].event = e
    BY <1>3 DEF CheckInv
  <2>5. i \in 1 .. committed["main"]
    BY <2>2, <2>3
  <2> QED
    BY <2>1, <2>2, <2>4, <2>5 DEF NoEventSkipped, Accounted
<1>4. CheckSpec => [](DeliveryInv /\ CheckInv)
  BY <1>1, <1>2, PTL DEF CheckSpec
<1>5. DeliveryInv /\ CheckInv => Believed
  BY <1>3
<1>6. CheckSpec => [][Believed]_<<vars, check>>
  <2>1. DeliveryInv /\ CheckInv => [Believed]_<<vars, check>>
    BY <1>5
  <2> QED
    BY <1>4, <2>1, PTL
<1> QED
  BY <1>6 DEF CleanReport

(* v05check only reads: under it the relays and the group do what they do     *)
(* without it, so that the theorems above hold while it runs.                 *)
THEOREM CheckOnlyReads == CheckSpec => Spec
<1>1. CheckInit => Init
  BY DEF CheckInit
<1>2. [CheckNext]_<<vars, check>> => [Next]_vars
  BY DEF CheckNext, Inspect
<1> QED
  BY <1>1, <1>2, PTL DEF CheckSpec, Spec
=============================================================================
