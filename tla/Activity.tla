------------------------------ MODULE Activity ------------------------------
(***************************************************************************)
(* The management plane of seckill-rpc (activity_service.go): the          *)
(* activity's status row, its time window and the three administrative     *)
(* calls. Each call is several separate operations on MySQL, inventory-rpc *)
(* and Redis; inFlight holds the calls that stand between two of them. A   *)
(* call may fail or its process die there, leaving its first half done.    *)
(***************************************************************************)
EXTENDS RedisGate

CONSTANTS
  AdminOps,     \* which administrative calls are made during the sale
  LatePublish   \* whether a preheat that passed the clock check may reach
                \* Redis after the activity has started

ASSUME ActivityAssumption ==
  /\ AdminOps \subseteq {"preheat", "disable", "enable"}
  /\ LatePublish \in BOOLEAN

VARIABLES
  clock,      \* where the current time stands in the activity's window
  enabled,    \* seckill_activities.status = StatusEnabled
  inFlight,   \* the administrative calls between two of their operations
  snapshot    \* the available_stock the preheat in flight has read

adminVars == <<clock, enabled, inFlight, snapshot>>

AdminTypeOK ==
  /\ clock \in Phases
  /\ enabled \in BOOLEAN
  /\ inFlight \in SUBSET {"preheat", "disable", "enable"}
  /\ snapshot \in Nat

(* The query for activities that are enabled and not over finds this one. *)
ListedAsActive == enabled /\ clock # "ended"

AdminInit ==
  /\ clock = "upcoming"
  /\ enabled = TRUE
  /\ inFlight = {}
  /\ snapshot = 0

(* A time the service can have read by now: a request may be on its way. *)
Reached(phase) ==
  \/ phase = clock
  \/ phase = "upcoming"
  \/ phase = "open" /\ clock = "ended"

Tick ==
  /\ clock # "ended"
  /\ clock' = IF clock = "upcoming" THEN "open" ELSE "ended"
  /\ UNCHANGED <<enabled, inFlight, snapshot, gateVars>>

(***************************************************************************)
(* PreheatActivity up to its last check: the activity is read, the items   *)
(* are listed from inventory-rpc, then the clock is read and compared.     *)
(***************************************************************************)
BeginPreheat(available) ==
  /\ "preheat" \in AdminOps \ inFlight
  /\ enabled
  /\ clock = "upcoming"
  /\ inFlight' = inFlight \cup {"preheat"}
  /\ snapshot' = available
  /\ UNCHANGED <<clock, enabled, gateVars>>

(* PublishActivity for the item: nothing is read again before the script. *)
PublishWhenever ==
  /\ "preheat" \in inFlight
  /\ Publish(snapshot)
  /\ inFlight' = inFlight \ {"preheat"}
  /\ UNCHANGED <<clock, enabled, snapshot>>

PublishActivity ==
  /\ "preheat" \in inFlight
  /\ LatePublish \/ clock = "upcoming"
  /\ Publish(snapshot)
  /\ inFlight' = inFlight \ {"preheat"}
  /\ UNCHANGED <<clock, enabled, snapshot>>

(* SetActivityStatus(StatusDisabled): the row first ... *)
BeginDisable ==
  /\ "disable" \in AdminOps \ inFlight
  /\ enabled' = FALSE
  /\ inFlight' = inFlight \cup {"disable"}
  /\ UNCHANGED <<clock, snapshot, gateVars>>

(* ... then the cached item. *)
FinishDisable ==
  /\ "disable" \in inFlight
  /\ DropSnapshot
  /\ inFlight' = inFlight \ {"disable"}
  /\ UNCHANGED <<clock, enabled, snapshot>>

(* SetActivityStatus(StatusEnabled): the cached item first ... *)
BeginEnable ==
  /\ "enable" \in AdminOps \ inFlight
  /\ DropSnapshot
  /\ inFlight' = inFlight \cup {"enable"}
  /\ UNCHANGED <<clock, enabled, snapshot>>

(* ... then the row. *)
FinishEnable ==
  /\ "enable" \in inFlight
  /\ enabled' = TRUE
  /\ inFlight' = inFlight \ {"enable"}
  /\ UNCHANGED <<clock, snapshot, gateVars>>

(* The second operation of a call fails, or its process dies before it. *)
AdminCallFails(call) ==
  /\ call \in inFlight
  /\ inFlight' = inFlight \ {call}
  /\ UNCHANGED <<clock, enabled, snapshot, gateVars>>

(* The snapshot's TTL, which lies after the end of the activity. *)
SnapshotExpires ==
  /\ clock = "ended"
  /\ ready
  /\ DropSnapshot
  /\ UNCHANGED adminVars
=============================================================================
