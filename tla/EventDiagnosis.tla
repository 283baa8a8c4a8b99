--------------------------- MODULE EventDiagnosis ---------------------------
(***************************************************************************)
(* v05check on the way of the events: the backlog of the Outbox is counted *)
(* first, then the end of the main topic and last the committed offset of  *)
(* the group, while relays and consumers go on. Nothing is changed. The    *)
(* counts of the other stores and the endpoints in etcd are left out, and  *)
(* so are the error codes that a reply of the broker has for a partition,  *)
(* which kafkaGroupLag does not look at.                                   *)
(***************************************************************************)
EXTENDS EventDelivery

VARIABLE check     \* what has been read so far; rows: the events by then

NoCheck == [step |-> "idle", backlog |-> 0, end |-> 0, rows |-> {}]

(* The rows that no relay has claimed. *)
CountUnclaimed ==
  /\ check.step = "idle"
  /\ check' = [step |-> "outbox", end |-> 0, rows |-> rows,
               backlog |-> Cardinality({e \in rows \ published : claimedBy[e] = Nobody})]

(* The rows with status = 1, claimed or not. *)
CountBacklog ==
  /\ check.step = "idle"
  /\ check' = [step |-> "outbox", end |-> 0, rows |-> rows,
               backlog |-> Cardinality(rows \ published)]

ListOffsets ==
  /\ check.step = "outbox"
  /\ check' = [check EXCEPT !.step = "end", !.end = Len(log["main"])]

(* A commit newer than the end that was read is no lag. *)
kafkaGroupLag == IF check.end > committed["main"] THEN check.end - committed["main"] ELSE 0

(* OffsetFetch, and the report is printed. *)
PrintReport ==
  /\ check.step = "end"
  /\ check' = NoCheck

(* One query fails: there is no report. *)
CheckFails ==
  /\ check.step = "outbox"
  /\ check' = NoCheck

(* A bound: only a report that may still turn out clean is followed up. *)
Inspect ==
  /\ CountBacklog \/ ListOffsets \/ PrintReport \/ CheckFails
  /\ check'.backlog = 0 /\ rows # {}
  /\ UNCHANGED vars

CheckInit == Init /\ check = NoCheck

CheckNext == (Next /\ UNCHANGED check) \/ Inspect

CheckSpec == CheckInit /\ [][CheckNext]_<<vars, check>>

-----------------------------------------------------------------------------
(* Properties. *)

(* The end of the way of an event: notified, a dead letter, or on its way     *)
(* through the retry topic, whose lag v05check does not look at.              *)
Accounted(e) ==
  \/ e \in consumed
  \/ Contains("dlq", e)
  \/ \E j \in committed["retry"] + 1 .. Len(log["retry"]) : log["retry"][j].event = e

(* A report without backlog and without lag can be believed although its      *)
(* numbers are read one after the other: every event that was in the Outbox   *)
(* when it began is accounted for. A lease that changes hands, a duplicate    *)
(* publish or an offset that a former owner moves back never hides an event.  *)
CleanReport ==
  [][/\ check.step = "end" /\ check'.step = "idle"
     /\ check.backlog = 0 /\ kafkaGroupLag = 0
     => \A e \in check.rows : Accounted(e)]_<<vars, check>>
=============================================================================
