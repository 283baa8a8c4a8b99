------------------------------ MODULE Diagnosis -----------------------------
(***************************************************************************)
(* The read-only comparison of the two stores for one item: v03check, and  *)
(* the load test's collectBackendState. MySQL is read first, in one        *)
(* statement; of Redis the snapshot is read and then the number of buyers  *)
(* with the time to live, while purchases go on. The two last reads are    *)
(* one step: a snapshot that is dropped before either has no time to live. *)
(***************************************************************************)
EXTENDS Purchase

VARIABLE probe     \* what has been read so far

NoProbe == [step |-> "idle", available |-> 0, claimed |-> 0, exists |-> FALSE, stock |-> 0]

Probe ==
  [step : {"idle", "state", "buyers"}, available : Int, claimed : Nat,
   exists : BOOLEAN, stock : Int]

InspectItemState ==
  /\ probe.step = "idle"
  /\ probe' = [probe EXCEPT !.step = "state", !.available = available,
                            !.claimed = Cardinality(claims)]

(* The claims counted by a statement of their own, later than the stock. *)
InspectStateRecounts ==
  /\ probe.step = "state"
  /\ probe' = [probe EXCEPT !.step = "buyers", !.exists = ready,
                            !.stock = IF ready THEN stock ELSE 0,
                            !.claimed = Cardinality(claims)]

(* HGETALL; the stock of a snapshot that is not there is 0. *)
InspectState ==
  /\ probe.step = "state"
  /\ probe' = [probe EXCEPT !.step = "buyers", !.exists = ready,
                            !.stock = IF ready THEN stock ELSE 0]

(* What buildReport concludes from the four numbers and the buyers and the *)
(* time to live that are there now.                                        *)
Diagnose ==
  LET buyerCount == Cardinality(buyers)
      stockDelta == probe.available - probe.stock
      reservationDelta == buyerCount - probe.claimed
  IN CASE ~probe.exists /\ buyerCount > 0 -> "DANGEROUS_DRIFT"
       [] ~probe.exists /\ buyerCount = 0 -> "CACHE_MISSING"
       [] probe.exists /\ (\/ probe.stock \notin 0 .. probe.available
                           \/ buyerCount \notin probe.claimed .. InitialStock
                           \/ ~ready
                           \/ stockDelta # reservationDelta) -> "DANGEROUS_DRIFT"
       [] OTHER -> IF stockDelta = 0 THEN "CONSISTENT" ELSE "RESERVED_AHEAD"

(* HLEN and PTTL; the report is printed and nothing is repaired. *)
BuildReport ==
  /\ probe.step = "buyers"
  /\ probe' = NoProbe

(* A read fails: the status is UNKNOWN. *)
InspectFails ==
  /\ probe.step # "idle"
  /\ probe' = NoProbe

Inspect == InspectItemState \/ InspectState \/ BuildReport \/ InspectFails

(* Redis is as it was when the snapshot was read. *)
Still == ready = probe.exists /\ (ready => stock = probe.stock)

(***************************************************************************)
(* The report is no false alarm, although the stores are read one after    *)
(* the other and purchases are admitted and committed between the reads:   *)
(* as long as the snapshot stays as it is between the two reads of Redis,  *)
(* dangerous drift is never reported. That MySQL is read first is what     *)
(* makes it so: whoever is claimed by then is still a buyer later.         *)
(***************************************************************************)
SoundDiagnosis ==
  [][probe.step = "buyers" /\ probe'.step = "idle" /\ Still =>
       Diagnose # "DANGEROUS_DRIFT"]_<<vars, probe>>
=============================================================================
